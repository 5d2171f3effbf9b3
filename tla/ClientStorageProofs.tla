------------------------ MODULE ClientStorageProofs ------------------------
(***************************************************************************)
(* Theorems about ClientStorage, for every capacity, batch size, bound and *)
(* set of faults.                                                          *)
(***************************************************************************)
EXTENDS ClientStorage, FiniteSetTheorems, TLAPS

\* Remainders modulo the capacity are slots, modulo 2^32 unsigned integers.
LEMMA Remainders ==
    /\ \A a \in Int : a % MaxRecords \in Slot /\ a % MaxRecords \in Int
    /\ \A a \in Int : a % UintMod \in Uint /\ a % UintMod \in Int
  BY CapacityAssumption DEF Slot, Uint

\* A scan visits slots of the ring only, whatever the header says.
LEMMA PositionInRing ==
    ASSUME NEW h \in Header, NEW k \in Nat
    PROVE  Position(h, k) \in Slot
  <1>1. h.write_idx + MaxRecords - h.unsynced_count \in Int
    BY CapacityAssumption DEF Header, Slot, Uint
  <1>2. start_idx(h) \in Int
    BY <1>1, Remainders DEF start_idx
  <1>3. start_idx(h) + k \in Int
    BY <1>2
  <1> QED
    BY <1>3, Remainders DEF Position

\* The headers the code writes are headers.
LEMMA HeaderTypes ==
    ASSUME TypeOK
    PROVE  /\ FreshHeader \in Header /\ NoHeader \notin Header
           /\ AppendedHeader \in Header
           /\ [s_header EXCEPT !.unsynced_count = Remaining] \in Header
           /\ file # NoHeader => [file EXCEPT !.write_idx = @ % MaxRecords] \in Header
  <1>1. FreshHeader \in Header /\ NoHeader \notin Header
    BY CapacityAssumption DEF FreshHeader, NoHeader, Header, Slot, Uint
  <1>2. /\ s_header \in Header /\ s_header.write_idx + 1 \in Int
        /\ s_header.total_written + 1 \in Int
        /\ s_header.unsynced_count + 1 \in Int
        /\ s_header.unsynced_count - marked \in Int
    BY CapacityAssumption DEF Header, Slot, Uint, TypeOK
  <1>3. AppendedHeader \in Header
    BY <1>2, Remainders DEF AppendedHeader, Header
  <1>4. Remaining \in Uint
    BY <1>2, Remainders DEF Remaining
  <1>5. ASSUME file # NoHeader
        PROVE  [file EXCEPT !.write_idx = @ % MaxRecords] \in Header
    <2>1. file \in Header /\ file.write_idx \in Int
      BY <1>5, CapacityAssumption DEF TypeOK, Header, Slot
    <2>2. file.write_idx % MaxRecords \in Slot
      BY <2>1, Remainders
    <2> QED BY <2>1, <2>2 DEF Header
  <1> QED
    BY <1>1, <1>2, <1>3, <1>4, <1>5 DEF Header

\* TypeOK with what makes it inductive: an append under way has a record.
TypeInv == TypeOK /\ (pc = "append" => made \in Record)

\* Every step of the storage code keeps the types.
LEMMA TypeInvStep ==
    ASSUME TypeInv, [Next]_vars
    PROVE  TypeInv'
  <1>0. TypeOK BY DEF TypeInv
  <1> USE <1>0, HeaderTypes, CapacityAssumption, BoundAssumption
  <1>1. CASE Boot
    BY <1>1 DEF Boot, TypeOK, TypeInv
  <1>2. CASE AppendRecord
    <2>1. made + 1 \in Record /\ s_header.write_idx \in Slot
      BY SMTT(30), <1>2 DEF AppendRecord, TypeOK, Record, Header
    <2>2. data' \in [Slot -> Record \union {0}] /\ synced' \in [Slot -> BOOLEAN]
      BY <1>2, <2>1 DEF AppendRecord, TypeOK
    <2> QED BY <1>2, <2>1, <2>2 DEF AppendRecord, TypeOK, TypeInv
  <1>3. CASE AppendRecordFails
    <2>1. made + 1 \in Record
      BY SMTT(30), <1>3 DEF AppendRecordFails, TypeOK, Record
    <2> QED BY <1>3, <2>1 DEF AppendRecordFails, TypeOK, TypeInv, ring
  <1>4. CASE AppendHeader
    <2>1. made \in Record
      BY <1>4 DEF AppendHeader, TypeInv
    <2>2. s_header' \in Header /\ file' \in Header \union {NoHeader}
      BY <1>4 DEF AppendHeader, TypeOK
    <2> QED BY <1>4, <2>1, <2>2 DEF AppendHeader, TypeOK, TypeInv
  <1>5. CASE ReadBegin
    BY <1>5 DEF ReadBegin, TypeOK, TypeInv, ring, history
  <1>6. CASE ReadSlot
    <2>1. Position(s_header, i) \in Slot
      BY PositionInRing DEF TypeOK
    <2>2. CASE records' = records
      BY <1>6, <2>2 DEF ReadSlot, TypeOK, TypeInv, ring
    <2>3. CASE /\ Unsynced(Position(s_header, i))
               /\ records' = Append(records, data[Position(s_header, i)])
      <3>1. data[Position(s_header, i)] \in Record
        BY <2>1, <2>3 DEF Unsynced, TypeOK
      <3>2. records' \in Seq(Record)
        BY <2>3, <3>1 DEF TypeOK
      <3> QED BY SMTT(30), <1>6, <3>2 DEF ReadSlot, TypeOK, TypeInv, ring
    <2> QED BY <1>6, <2>2, <2>3 DEF ReadSlot
  <1>7. CASE ReadDone
    BY <1>7 DEF ReadDone, TypeOK, TypeInv, ring, history
  <1>8. CASE UploadOk
    <2>1. BatchSet \subseteq Record
      BY DEF BatchSet, TypeOK
    <2> QED BY <1>8, <2>1 DEF UploadOk, TypeOK, TypeInv, ring
  <1>9. CASE UploadFails
    BY <1>9 DEF UploadFails, TypeOK, TypeInv, ring, history
  <1>10. CASE MarkSlot
    <2>1. CASE /\ synced' = [synced EXCEPT ![Position(s_header, i)] = TRUE]
               /\ marked' = marked + 1
      <3>1. synced' \in [Slot -> BOOLEAN]
        BY <2>1 DEF TypeOK
      <3> QED BY SMTT(30), <1>10, <2>1, <3>1 DEF MarkSlot, TypeOK, TypeInv
    <2>2. CASE UNCHANGED <<synced, marked>>
      BY SMTT(30), <1>10, <2>2 DEF MarkSlot, TypeOK, TypeInv
    <2> QED BY <1>10, <2>1, <2>2 DEF MarkSlot
  <1>11. CASE MarkHeader
    <2>1. s_header' \in Header /\ file' \in Header \union {NoHeader}
      BY <1>11 DEF MarkHeader, TypeOK
    <2> QED BY <1>11, <2>1 DEF MarkHeader, TypeOK, TypeInv, history
  <1>12. CASE Crash
    BY SMTT(30), <1>12 DEF Crash, TypeOK, TypeInv, ring
  <1>13. CASE UNCHANGED vars
    BY <1>13 DEF vars, TypeOK, TypeInv
  <1>14. CASE BootLost
    BY <1>14 DEF BootLost, TypeOK, TypeInv, Lost
  <1>15. CASE AppendRecordLost
    <2>1. made + 1 \in Record
      BY SMTT(30), <1>15 DEF AppendRecordLost, TypeOK, Record
    <2> QED BY <1>15, <2>1 DEF AppendRecordLost, TypeOK, TypeInv, ring, Lost
  <1>16. CASE AppendHeaderLost
    <2>1. made \in Record
      BY <1>16 DEF AppendHeaderLost, TypeInv
    <2> QED BY <1>16, <2>1 DEF AppendHeaderLost, TypeOK, TypeInv, ring, Lost
  <1>17. CASE MarkSlotLost
    BY SMTT(30), <1>17 DEF MarkSlotLost, TypeOK, TypeInv, ring, Lost
  <1> QED
    BY <1>1, <1>2, <1>3, <1>4, <1>5, <1>6, <1>7, <1>8, <1>9, <1>10, <1>11,
       <1>12, <1>13, <1>14, <1>15, <1>16, <1>17 DEF Next, Store, Upload, WriteLost

\* Type correctness of the storage: in particular every slot index and both
\* header copies stay in range through unsigned wrap-around, failed writes
\* and resets.
THEOREM StorageTypeOK == Spec => []TypeOK
  <1>1. Init => TypeInv
    BY CapacityAssumption, BoundAssumption
       DEF Init, TypeOK, TypeInv, FreshHeader, NoHeader, Header, Slot, Uint, Record
  <1>2. TypeInv /\ [Next]_vars => TypeInv'
    BY TypeInvStep
  <1>3. TypeInv => TypeOK
    BY DEF TypeInv
  <1> QED
    BY <1>1, <1>2, <1>3, PTL DEF Spec

-----------------------------------------------------------------------------
\* The first n slots of the window hold only records of S, marked ones, or
\* nothing.
Scanned(n, S) ==
    \A j \in 0 .. n - 1 :
        Unsynced(Position(s_header, j)) => data[Position(s_header, j)] \in S

\* What the batch on the stack says about the slots it was read from: each
\* record read cost at least one slot, so the slots mark_synced visits were
\* all visited by read_unsynced.
BatchInv ==
    /\ pc = "read" => Len(records) <= i /\ Scanned(i, BatchSet)
    /\ pc = "upload" => Scanned(Len(records), BatchSet)
    /\ pc = "mark" => Scanned(Len(records), delivered)

\* Flagged slots hold delivered records.
FlaggedDelivered == \A idx \in Slot : synced[idx] => data[idx] \in delivered

DeliveryInv ==
    /\ TypeInv
    /\ "read_unsynced" \notin failed => BatchInv /\ FlaggedDelivered

\* A call in which an fread failed stays on record.
LEMMA FailedGrows ==
    ASSUME [Next]_vars
    PROVE  failed \subseteq failed'
  BY DEF Next, Store, Upload, Boot, AppendRecord, AppendRecordFails, AppendHeader,
         ReadBegin, ReadSlot, ReadDone, UploadOk, UploadFails, MarkSlot,
         MarkHeader, Crash, WriteLost, BootLost, AppendRecordLost,
         AppendHeaderLost, MarkSlotLost, vars, history

\* A batch only grows, so what it held it still holds.
LEMMA BatchGrows ==
    ASSUME records \in Seq(Record), NEW r \in Record, records' = Append(records, r)
    PROVE  BatchSet' = BatchSet \union {r} /\ Len(records') = Len(records) + 1
  <1>1. /\ Len(records') = Len(records) + 1 /\ Len(records) \in Nat
        /\ \A k \in 1 .. Len(records) : records'[k] = records[k]
        /\ records'[Len(records) + 1] = r
    OBVIOUS
  <1> QED BY <1>1 DEF BatchSet

\* Every step keeps what is known of the batch and of the flags.
LEMMA DeliveryInvStep ==
    ASSUME DeliveryInv, [Next]_vars, "read_unsynced" \notin failed'
    PROVE  BatchInv' /\ FlaggedDelivered'
  <1>0. TypeOK /\ TypeInv BY DEF DeliveryInv, TypeInv
  <1>a. BatchInv /\ FlaggedDelivered BY FailedGrows DEF DeliveryInv
  <1>1. CASE Boot
    <2>1. FlaggedDelivered'
      BY <1>1, <1>a DEF Boot, FlaggedDelivered
    <2> QED BY <1>1, <2>1 DEF Boot, BatchInv
  <1>2. CASE AppendRecord
    <2>1. FlaggedDelivered'
      BY <1>0, <1>2, <1>a DEF AppendRecord, FlaggedDelivered, TypeOK
    <2> QED BY <1>2, <2>1 DEF AppendRecord, BatchInv
  <1>3. CASE AppendRecordFails
    BY <1>3, <1>a DEF AppendRecordFails, BatchInv, FlaggedDelivered, ring
  <1>4. CASE AppendHeader
    BY <1>4, <1>a DEF AppendHeader, BatchInv, FlaggedDelivered
  <1>5. CASE ReadBegin
    BY <1>5, <1>a DEF ReadBegin, BatchInv, FlaggedDelivered, Scanned, ring, history
  <1>6. CASE ReadSlot
    <2> DEFINE idx == Position(s_header, i)
    <2>1. idx \in Slot
      BY <1>0, PositionInRing DEF TypeOK
    <2>2. /\ pc = "read" /\ pc' = "read" /\ i' = i + 1
          /\ UNCHANGED <<data, synced, s_header, delivered>>
          /\ records' = IF Unsynced(idx) THEN Append(records, data[idx]) ELSE records
      BY <1>6 DEF ReadSlot, ring
    <2>3. FlaggedDelivered'
      BY <2>2, <1>a DEF FlaggedDelivered
    <2>4. /\ BatchSet \subseteq BatchSet' /\ Len(records') <= Len(records) + 1
          /\ Unsynced(idx) => data[idx] \in BatchSet'
      <3>1. CASE Unsynced(idx)
        <4>1. data[idx] \in Record
          BY <1>0, <2>1, <3>1 DEF Unsynced, TypeOK
        <4> QED BY <1>0, <2>2, <3>1, <4>1, BatchGrows DEF TypeOK
      <3>2. CASE ~Unsynced(idx)
        BY <1>0, <2>2, <3>2 DEF BatchSet, TypeOK
      <3> QED BY <3>1, <3>2
    <2>5. Len(records') <= i'
      BY <1>0, <1>a, <2>2, <2>4 DEF BatchInv, TypeOK
    <2>6. Scanned(i, BatchSet)'
      <3> SUFFICES ASSUME NEW j \in 0 .. i, Unsynced(Position(s_header, j))
                   PROVE  data[Position(s_header, j)] \in BatchSet'
        BY <1>0, <2>2 DEF Scanned, Unsynced, TypeOK, Position, start_idx
      <3>1. CASE j = i BY <3>1, <2>4
      <3>2. CASE j \in 0 .. i - 1
        BY <1>a, <2>2, <2>4, <3>2 DEF BatchInv, Scanned
      <3> QED BY <1>0, <3>1, <3>2 DEF TypeOK
    <2> QED BY <2>2, <2>3, <2>5, <2>6 DEF BatchInv
  <1>7. CASE ReadDone
    <2>1. /\ pc = "read" /\ pc' = "upload" /\ FlaggedDelivered'
          /\ UNCHANGED <<data, synced, s_header, records, i, delivered>>
      BY <1>7, <1>a DEF ReadDone, ring, history, FlaggedDelivered
    <2>2. Scanned(Len(records), BatchSet)
      BY <1>0, <1>a, <2>1 DEF BatchInv, Scanned, TypeOK
    <2>3. Scanned(Len(records), BatchSet)'
      BY <2>1, <2>2 DEF Scanned, BatchSet, Unsynced, Position, start_idx
    <2> QED BY <2>1, <2>3 DEF BatchInv
  <1>8. CASE UploadOk
    <2>1. /\ pc = "upload" /\ pc' \in {"idle", "mark"}
          /\ delivered' = delivered \union BatchSet
          /\ UNCHANGED <<data, synced, s_header, records>>
      BY <1>8 DEF UploadOk, ring
    <2>2. Scanned(Len(records), delivered)'
      BY <1>a, <2>1 DEF BatchInv, Scanned, Unsynced, Position, start_idx
    <2> QED BY <1>a, <2>1, <2>2 DEF BatchInv, FlaggedDelivered
  <1>9. CASE UploadFails
    BY <1>9, <1>a DEF UploadFails, BatchInv, FlaggedDelivered, ring, history
  <1>10. CASE MarkSlot
    <2> DEFINE idx == Position(s_header, i)
    <2>1. idx \in Slot
      BY <1>0, PositionInRing DEF TypeOK
    <2>2. /\ pc = "mark" /\ pc' = "mark" /\ MarkMore
          /\ UNCHANGED <<data, s_header, records, delivered>>
      BY <1>10 DEF MarkSlot
    <2>3. CASE Unsynced(idx) /\ synced' = [synced EXCEPT ![idx] = TRUE]
      <3>1. data[idx] \in delivered
        BY <1>0, <1>a, <2>2, <2>3 DEF BatchInv, Scanned, MarkMore, TypeOK
      <3>2. FlaggedDelivered'
        BY <1>0, <1>a, <2>2, <2>3, <3>1 DEF FlaggedDelivered, TypeOK
      <3>3. \A s \in Slot : Unsynced(s)' => Unsynced(s)
        BY <1>0, <2>1, <2>2, <2>3 DEF Unsynced, TypeOK
      <3>4. \A j \in 0 .. Len(records) - 1 : Position(s_header, j) \in Slot
        BY <1>0, PositionInRing DEF TypeOK
      <3>5. Scanned(Len(records), delivered)'
        BY <1>a, <2>2, <3>3, <3>4 DEF BatchInv, Scanned, Position, start_idx
      <3> QED BY <2>2, <3>2, <3>5 DEF BatchInv
    <2>4. CASE synced' = synced
      <3>1. Scanned(Len(records), delivered)'
        BY <1>a, <2>2, <2>4 DEF BatchInv, Scanned, Unsynced, Position, start_idx
      <3> QED BY <1>a, <2>2, <2>4, <3>1 DEF BatchInv, FlaggedDelivered
    <2> QED BY <1>10, <2>3, <2>4 DEF MarkSlot
  <1>11. CASE MarkHeader
    BY <1>11, <1>a DEF MarkHeader, BatchInv, FlaggedDelivered, history
  <1>12. CASE Crash
    BY <1>12, <1>a DEF Crash, BatchInv, FlaggedDelivered, ring
  <1>13. CASE UNCHANGED vars
    BY <1>13, <1>a DEF vars, BatchInv, FlaggedDelivered, Scanned, BatchSet,
                       Unsynced, Position, start_idx
  <1>14. CASE BootLost
    <2>1. FlaggedDelivered'
      BY <1>14 DEF BootLost, FlaggedDelivered
    <2> QED BY <1>14, <2>1 DEF BootLost, BatchInv
  <1>15. CASE AppendRecordLost
    BY <1>15, <1>a DEF AppendRecordLost, BatchInv, FlaggedDelivered, ring
  <1>16. CASE AppendHeaderLost
    BY <1>16, <1>a DEF AppendHeaderLost, BatchInv, FlaggedDelivered, ring
  <1>17. CASE MarkSlotLost
    <2>1. /\ pc = "mark" /\ pc' = "mark"
          /\ UNCHANGED <<data, synced, s_header, records, delivered>>
      BY <1>17 DEF MarkSlotLost, ring
    <2>2. Scanned(Len(records), delivered)'
      BY <1>a, <2>1 DEF BatchInv, Scanned, Unsynced, Position, start_idx
    <2> QED BY <1>a, <2>1, <2>2 DEF BatchInv, FlaggedDelivered
  <1> QED
    BY <1>1, <1>2, <1>3, <1>4, <1>5, <1>6, <1>7, <1>8, <1>9, <1>10, <1>11,
       <1>12, <1>13, <1>14, <1>15, <1>16, <1>17 DEF Next, Store, Upload, WriteLost

\* No slot is flagged synced before a 200 answered for its record, whatever
\* the capacity and the batch size, through overruns, unsigned wrap-around,
\* resets anywhere, failed writes and writes lost in a buffer, until an fread
\* fails in read_unsynced.
THEOREM StorageSyncedWasDelivered == Spec => []SyncedWasDelivered
  <1>1. Init => DeliveryInv
    <2>1. Init => TypeInv
      BY CapacityAssumption, BoundAssumption
         DEF Init, TypeOK, TypeInv, FreshHeader, NoHeader, Header, Slot, Uint, Record
    <2> QED BY <2>1 DEF Init, DeliveryInv, BatchInv, FlaggedDelivered
  <1>2. DeliveryInv /\ [Next]_vars => DeliveryInv'
    BY DeliveryInvStep, TypeInvStep DEF DeliveryInv
  <1>3. DeliveryInv => SyncedWasDelivered
    BY DEF DeliveryInv, FlaggedDelivered, SyncedWasDelivered
  <1> QED
    BY <1>1, <1>2, <1>3, PTL DEF Spec

-----------------------------------------------------------------------------
\* How many slots lie between a slot and the write position that follows it.
Age(h, idx) == IF idx < h.write_idx
               THEN h.write_idx - 1 - idx
               ELSE h.write_idx + MaxRecords - 1 - idx

\* The slots of the unsynced_count latest appends.
Window(h) == {idx \in Slot : Age(h, idx) < h.unsynced_count}

\* The subtraction of start_idx wraps around.
Wraps(h) == h.unsynced_count > h.write_idx + MaxRecords

\* What the remainder is below three times the capacity.
LEMMA SmallRemainders ==
    ASSUME NEW a \in Int
    PROVE  /\ 0 <= a /\ a < MaxRecords => a % MaxRecords = a
           /\ MaxRecords <= a /\ a < 2 * MaxRecords => a % MaxRecords = a - MaxRecords
           /\ 2 * MaxRecords <= a /\ a < 3 * MaxRecords
                => a % MaxRecords = a - 2 * MaxRecords
  BY CapacityAssumption

\* A difference that is an unsigned integer does not wrap around.
LEMMA UnsignedDifference ==
    ASSUME NEW a \in Uint
    PROVE  a % UintMod = a
  BY CapacityAssumption DEF Uint

\* The parts of a header are integers in range.
LEMMA HeaderParts ==
    ASSUME NEW h \in Header
    PROVE  /\ h.write_idx \in Int /\ 0 <= h.write_idx /\ h.write_idx < MaxRecords
           /\ h.unsynced_count \in Nat
           /\ MaxRecords \in Int /\ MaxRecords > 0
  BY CapacityAssumption DEF Header, Slot, Uint

\* No two slots are equally old, and none is older than the ring is long.
LEMMA AgeInjective ==
    ASSUME NEW h \in Header
    PROVE  /\ \A x \in Slot : Age(h, x) \in Slot
           /\ \A x, y \in Slot : Age(h, x) = Age(h, y) => x = y
  BY HeaderParts DEF Age, Slot

\* A scan goes from the oldest slot of the window to the youngest, unless the
\* subtraction wrapped around; with a count beyond the capacity it starts with
\* the slots that it meets again at its end.
LEMMA ScanOrder ==
    ASSUME NEW h \in Header, ~Wraps(h), NEW k \in Nat, k < h.unsynced_count
    PROVE  /\ Position(h, k) \in Slot
           /\ Age(h, Position(h, k)) = IF h.unsynced_count - 1 - k < MaxRecords
                                       THEN h.unsynced_count - 1 - k
                                       ELSE h.unsynced_count - 1 - k - MaxRecords
  <1> DEFINE w == h.write_idx
             u == h.unsynced_count
             d == w + MaxRecords - u
  <1>1. /\ w \in Int /\ 0 <= w /\ w < MaxRecords /\ u \in Nat
        /\ MaxRecords \in Int /\ MaxRecords > 0 /\ u <= w + MaxRecords
    BY HeaderParts DEF Wraps
  <1>2. d \in Int /\ 0 <= d /\ d < 2 * MaxRecords /\ d \in Uint
    BY <1>1, CapacityAssumption DEF Uint
  <1>3. start_idx(h) = IF d < MaxRecords THEN d ELSE d - MaxRecords
    BY <1>1, <1>2, UnsignedDifference, SmallRemainders DEF start_idx
  <1> DEFINE t == start_idx(h) + k
  <1>4. t \in Int /\ 0 <= t /\ t < 3 * MaxRecords
    BY <1>1, <1>2, <1>3
  <1> HIDE DEF t
  <1>5. t % MaxRecords \in {t, t - MaxRecords, t - 2 * MaxRecords}
    BY <1>1, <1>4, SmallRemainders
  <1> DEFINE p == Position(h, k)
  <1>6. p \in Slot /\ p \in Int
    BY PositionInRing DEF Slot
  <1>7. \/ p = d + k
        \/ p = d + k - MaxRecords
        \/ p = d + k - 2 * MaxRecords
        \/ p = d + k - 3 * MaxRecords
    BY <1>1, <1>2, <1>3, <1>5 DEF Position, t
  <1>8. 0 <= p /\ p < MaxRecords
    BY <1>1, <1>6 DEF Slot
  <1> HIDE DEF p
  <1>9. Age(h, p) = IF u - 1 - k < MaxRecords THEN u - 1 - k
                                             ELSE u - 1 - k - MaxRecords
    BY <1>1, <1>2, <1>6, <1>7, <1>8 DEF Age
  <1> QED
    BY <1>6, <1>9 DEF p

\* Such a scan visits every slot of the window, an age before its end.
LEMMA ScanReaches ==
    ASSUME NEW h \in Header, ~Wraps(h), NEW idx \in Window(h)
    PROVE  /\ h.unsynced_count - 1 - Age(h, idx) \in Nat
           /\ Position(h, h.unsynced_count - 1 - Age(h, idx)) = idx
  <1> DEFINE k == h.unsynced_count - 1 - Age(h, idx)
  <1>1. idx \in Slot /\ Age(h, idx) \in 0 .. MaxRecords - 1 /\ h.unsynced_count \in Nat
    BY AgeInjective, HeaderParts DEF Window, Slot
  <1>2. k \in Nat /\ k < h.unsynced_count /\ h.unsynced_count - 1 - k = Age(h, idx)
    BY <1>1 DEF Window
  <1>3. Position(h, k) \in Slot /\ Age(h, Position(h, k)) = Age(h, idx)
    BY <1>1, <1>2, ScanOrder, HeaderParts
  <1> QED
    BY <1>1, <1>2, <1>3, AgeInjective

\* A scan stays inside the window, even if the subtraction wraps around.
LEMMA ScanInWindow ==
    ASSUME NEW h \in Header, NEW k \in Nat, k < h.unsynced_count
    PROVE  Position(h, k) \in Window(h)
  <1>1. Position(h, k) \in Slot /\ Age(h, Position(h, k)) \in 0 .. MaxRecords - 1
    BY PositionInRing, AgeInjective DEF Slot
  <1>2. CASE h.unsynced_count >= MaxRecords
    BY <1>1, <1>2, HeaderParts DEF Window
  <1>3. CASE h.unsynced_count < MaxRecords
    <2>1. ~Wraps(h)
      BY <1>3, HeaderParts DEF Wraps
    <2> QED BY <1>1, <1>3, <2>1, ScanOrder, HeaderParts DEF Window
  <1> QED BY <1>2, <1>3, HeaderParts

\* Every slot of the window is visited in one turn of the ring.
LEMMA WindowIsScanned ==
    ASSUME NEW h \in Header, NEW idx \in Window(h)
    PROVE  \E k \in Slot : k < h.unsynced_count /\ Position(h, k) = idx
  <1>0. idx \in Slot /\ Age(h, idx) \in 0 .. MaxRecords - 1
    BY AgeInjective DEF Window, Slot
  <1>1. CASE ~Wraps(h)
    <2> DEFINE j == h.unsynced_count - 1 - Age(h, idx)
               k == IF j < MaxRecords THEN j ELSE j - MaxRecords
    <2>1. j \in Nat /\ j < 2 * MaxRecords
      BY <1>0, <1>1, ScanReaches, HeaderParts DEF Wraps
    <2>2. k \in Slot /\ k \in Nat /\ k < h.unsynced_count
      BY <1>0, <2>1, HeaderParts DEF Slot
    <2>3. Position(h, k) \in Slot /\ Age(h, Position(h, k)) = Age(h, idx)
      BY <1>0, <1>1, <2>1, <2>2, ScanOrder, HeaderParts
    <2> QED BY <1>0, <2>2, <2>3, AgeInjective
  <1>2. CASE Wraps(h)
    <2> DEFINE s == start_idx(h)
               k == IF idx >= s THEN idx - s ELSE idx - s + MaxRecords
    <2>1. s \in Slot
      <3>1. h.write_idx + MaxRecords - h.unsynced_count \in Int
        BY HeaderParts
      <3> QED BY <3>1, Remainders DEF start_idx
    <2>2. k \in Slot /\ k < h.unsynced_count
      BY <1>0, <1>2, <2>1, HeaderParts DEF Slot, Wraps
    <2>3. /\ s + k \in Int
          /\ s + k = idx \/ s + k = idx + MaxRecords
      BY <1>0, <2>1, HeaderParts DEF Slot
    <2>4. idx \in Int /\ 0 <= idx /\ idx < MaxRecords /\ MaxRecords \in Int
      BY <1>0, HeaderParts DEF Slot
    <2> HIDE DEF s, k
    <2>5. (s + k) % MaxRecords = idx
      BY <2>3, <2>4, SmallRemainders
    <2> QED BY <2>2, <2>5 DEF Position, s
  <1> QED BY <1>1, <1>2

\* Sets of slots are finite, and the window is no larger than the count.
LEMMA SlotSets ==
    /\ \A S \in SUBSET Slot : IsFiniteSet(S) /\ Cardinality(S) \in Nat
                              /\ Cardinality(S) <= MaxRecords
    /\ \A S, T \in SUBSET Slot : S \subseteq T => Cardinality(S) <= Cardinality(T)
  <1>1. IsFiniteSet(Slot) /\ Cardinality(Slot) = MaxRecords
    BY CapacityAssumption, FS_Interval DEF Slot
  <1>2. \A S \in SUBSET Slot : IsFiniteSet(S) /\ Cardinality(S) <= MaxRecords
    BY <1>1, FS_Subset
  <1>3. \A S, T \in SUBSET Slot : S \subseteq T => Cardinality(S) <= Cardinality(T)
    BY <1>2, FS_Subset
  <1> QED BY <1>2, <1>3, FS_CardinalityType

\* A window has at most as many slots as the header counts.
LEMMA WindowSize ==
    ASSUME NEW h \in Header
    PROVE  Cardinality(Window(h)) <= h.unsynced_count
  <1> DEFINE n == h.unsynced_count
             f == [idx \in Window(h) |-> Age(h, idx)]
  <1>1. IsFiniteSet(0 .. n - 1) /\ Cardinality(0 .. n - 1) = n
    BY SMTT(30), HeaderParts, FS_Interval
  <1>2. f \in Injection(Window(h), 0 .. n - 1)
    <2>1. \A idx \in Window(h) : Age(h, idx) \in 0 .. n - 1
      BY AgeInjective, HeaderParts DEF Window, Slot
    <2>2. \A x, y \in Window(h) : Age(h, x) = Age(h, y) => x = y
      BY AgeInjective DEF Window
    <2> QED BY <2>1, <2>2 DEF Injection, IsInjective
  <1> HIDE DEF f
  <1> QED BY <1>1, <1>2, FS_Injection

-----------------------------------------------------------------------------
\* A step in which no write is lost in a buffer.
KeptStep == Boot \/ Store \/ Upload \/ Crash

\* As long as failed names no lost write, every step so far was such a step.
LEMMA LossIsRecorded ==
    ASSUME [Next]_vars, failed' \intersect Lost = {}
    PROVE  failed \intersect Lost = {} /\ [KeptStep]_vars
  <1>1. failed \subseteq failed'
    BY FailedGrows
  <1>2. ~WriteLost
    BY DEF WriteLost, BootLost, AppendRecordLost, AppendHeaderLost, MarkSlotLost, Lost
  <1> QED BY <1>1, <1>2 DEF Next, KeptStep

\* What the counters and the numbers of the records have to do with another:
\* no header counts more records than were measured, the record that an append
\* under way has written is the latest one and not acknowledged yet.
NumberInv ==
    /\ TypeInv
    /\ \A r \in stored : r <= made
    /\ \A idx \in Slot : data[idx] <= made
    /\ s_header.unsynced_count <= made
    /\ file = NoHeader => pc = "off" /\ stored = {}
    /\ file # NoHeader => file.unsynced_count <= made
    /\ pc = "append" =>
           /\ made \notin stored /\ s_header.unsynced_count < made
           /\ data[s_header.write_idx] = made
           /\ \A idx \in Slot \ {s_header.write_idx} : data[idx] < made
    /\ pc = "mark" => marked <= i /\ i <= s_header.unsynced_count

\* The header after an append, and the ages it gives.
LEMMA HeaderAfterAppend ==
    ASSUME NumberInv, pc = "append"
    PROVE  /\ s_header \in Header /\ AppendedHeader \in Header
           /\ AppendedHeader.unsynced_count = s_header.unsynced_count + 1
           /\ Age(AppendedHeader, s_header.write_idx) = 0
           /\ \A idx \in Slot \ {s_header.write_idx} :
                  Age(AppendedHeader, idx) = Age(s_header, idx) + 1
           /\ \A h \in Header : \A idx \in Slot :
                  Age(h, idx) > Age(h, AppendedHeader.write_idx)
                    => \/ Age(h, idx) > Age(h, s_header.write_idx)
                       \/ idx = s_header.write_idx
  <1> DEFINE w == s_header.write_idx
             v == AppendedHeader.write_idx
  <1>0. s_header \in Header /\ AppendedHeader \in Header /\ made \in 1 .. MaxAppends
    BY HeaderTypes DEF NumberInv, TypeInv, TypeOK, Record
  <1>1. w \in Slot /\ w \in Int /\ 0 <= w /\ w < MaxRecords /\ MaxRecords \in Int
    BY <1>0, HeaderParts DEF Header
  <1>2. AppendedHeader.unsynced_count = s_header.unsynced_count + 1
    <2>1. s_header.unsynced_count + 1 \in Uint
      BY <1>0, HeaderParts, CapacityAssumption, BoundAssumption DEF NumberInv, Uint
    <2> QED BY <2>1, UnsignedDifference DEF AppendedHeader
  <1>3. v = IF w + 1 = MaxRecords THEN 0 ELSE w + 1
    <2>1. (w + 1) % MaxRecords = IF w + 1 = MaxRecords THEN 0 ELSE w + 1
      <3>1. w + 1 \in Int /\ w + 1 <= MaxRecords
        BY <1>1
      <3> QED BY <1>1, <3>1, SmallRemainders
    <2> QED BY <2>1 DEF AppendedHeader
  <1>4. Age(AppendedHeader, w) = 0
    BY <1>1, <1>3 DEF Age
  <1>5. ASSUME NEW idx \in Slot \ {w}
        PROVE  Age(AppendedHeader, idx) = Age(s_header, idx) + 1
    BY <1>1, <1>3 DEF Age, Slot
  <1>6. ASSUME NEW h \in Header, NEW idx \in Slot, Age(h, idx) > Age(h, v)
        PROVE  Age(h, idx) > Age(h, w) \/ idx = w
    BY <1>1, <1>3, <1>6, HeaderParts DEF Age, Slot
  <1> QED BY <1>0, <1>2, <1>4, <1>5, <1>6

\* The next slot to be written is the oldest, and the count of what is left
\* after a batch does not wrap around.
LEMMA WriteSlotOldest ==
    ASSUME NEW h \in Header
    PROVE  /\ h.write_idx \in Slot /\ Age(h, h.write_idx) = MaxRecords - 1
           /\ \A idx \in Slot : ~(Age(h, idx) > Age(h, h.write_idx))
  BY HeaderParts DEF Age, Slot

\* mark_synced takes off what it marked: the subtraction does not go below zero.
LEMMA HeaderAfterMark ==
    ASSUME NumberInv, pc = "mark"
    PROVE  /\ [s_header EXCEPT !.unsynced_count = Remaining] \in Header
           /\ Remaining = s_header.unsynced_count - marked
           /\ Remaining \in Nat /\ Remaining <= s_header.unsynced_count
  <1>1. s_header \in Header /\ marked \in Nat /\ i \in Nat
    BY DEF NumberInv, TypeInv, TypeOK
  <1>2. s_header.unsynced_count - marked \in Uint
    <2>1. s_header.unsynced_count \in 0 .. UintMod - 1 /\ UintMod \in Int
      BY <1>1, CapacityAssumption DEF Header, Uint
    <2>2. marked <= i /\ i <= s_header.unsynced_count
      BY DEF NumberInv
    <2> QED BY <1>1, <2>1, <2>2 DEF Uint
  <1> QED BY <1>1, <1>2, HeaderTypes, UnsignedDifference, HeaderParts DEF Remaining, NumberInv, TypeInv, Uint

\* Opening the file takes its header over as it is.
LEMMA HeaderAtBoot ==
    ASSUME NEW h \in Header
    PROVE  [h EXCEPT !.write_idx = @ % MaxRecords] = h
  <1>1. h.write_idx % MaxRecords = h.write_idx
    BY HeaderParts, SmallRemainders
  <1> QED BY <1>1 DEF Header

\* Every step keeps the numbers right.
LEMMA NumberInvStep ==
    ASSUME NumberInv, [KeptStep]_vars
    PROVE  NumberInv'
  <1>0. TypeInv /\ TypeInv' /\ TypeOK
    <2>1. [Next]_vars BY DEF Next, KeptStep
    <2> QED BY <2>1, TypeInvStep DEF NumberInv, TypeInv
  <1>t. /\ s_header \in Header /\ made \in Nat /\ made' \in Nat
        /\ stored \subseteq Nat /\ \A idx \in Slot : data[idx] \in Nat
        /\ marked \in Nat /\ i \in Nat
        /\ s_header.unsynced_count \in Nat
        /\ file # NoHeader => file \in Header /\ file.unsynced_count \in Nat
    BY <1>0, BoundAssumption, HeaderParts DEF TypeInv, TypeOK, Record
  <1>1. CASE Boot
    <2>1. file' # NoHeader /\ FreshHeader.unsynced_count = 0
      BY <1>1, <1>0, HeaderTypes, HeaderAtBoot, <1>t DEF Boot, FreshHeader
    <2>2. s_header'.unsynced_count <= made /\ file' = s_header'
      BY <1>1, <1>t, <2>1, HeaderAtBoot DEF Boot, NumberInv
    <2>3. \A idx \in Slot : data'[idx] <= made
      BY <1>1, <1>t DEF Boot, NumberInv
    <2> QED BY <1>0, <1>1, <2>1, <2>2, <2>3 DEF Boot, NumberInv
  <1>2. CASE AppendRecord
    <2>1. s_header.write_idx \in Slot BY <1>t, WriteSlotOldest
    <2>2. /\ data'[s_header.write_idx] = made'
          /\ \A idx \in Slot \ {s_header.write_idx} : data'[idx] = data[idx]
      BY <1>0, <1>2, <2>1 DEF AppendRecord, TypeOK
    <2>3. made' = made + 1 /\ UNCHANGED <<s_header, file, stored>> /\ pc' = "append" /\ pc = "idle"
      BY <1>2 DEF AppendRecord
    <2> QED BY <1>0, <1>t, <2>1, <2>2, <2>3 DEF NumberInv
  <1>3. CASE AppendRecordFails
    BY <1>0, <1>t, <1>3 DEF AppendRecordFails, NumberInv, ring
  <1>4. CASE AppendHeader
    <2>1. s_header'.unsynced_count <= made /\ s_header' \in Header
      BY <1>4, <1>t, HeaderAfterAppend DEF AppendHeader, NumberInv
    <2>2. file' # NoHeader /\ file'.unsynced_count <= made
      BY <1>4, <1>t, <2>1, HeaderTypes, <1>0 DEF AppendHeader, NumberInv
    <2>3. /\ stored' \subseteq stored \union {made} /\ pc' = "idle"
          /\ UNCHANGED <<data, made>>
      BY <1>4 DEF AppendHeader
    <2>4. ASSUME NEW r \in stored'
          PROVE  r <= made
      <3>1. CASE r \in stored
        BY <3>1 DEF NumberInv
      <3>2. CASE r = made
        BY <3>2, <1>t
      <3> QED BY <2>3, <3>1, <3>2
    <2> QED BY <1>0, <2>1, <2>2, <2>3, <2>4 DEF NumberInv
  <1>5. CASE ReadBegin
    BY <1>0, <1>5 DEF ReadBegin, NumberInv, ring
  <1>6. CASE ReadSlot
    BY <1>0, <1>6 DEF ReadSlot, NumberInv, ring
  <1>7. CASE ReadDone
    BY <1>0, <1>7 DEF ReadDone, NumberInv, ring, history
  <1>8. CASE UploadOk
    BY <1>0, <1>8, <1>t DEF UploadOk, NumberInv, ring
  <1>9. CASE UploadFails
    BY <1>0, <1>9 DEF UploadFails, NumberInv, ring, history
  <1>10. CASE MarkSlot
    <2>1. marked' <= i' /\ i' <= s_header.unsynced_count
      BY <1>10, <1>t DEF MarkSlot, MarkMore, NumberInv
    <2> QED BY <1>0, <1>10, <2>1 DEF MarkSlot, NumberInv
  <1>11. CASE MarkHeader
    <2>1. s_header' \in Header /\ s_header'.unsynced_count <= made
      BY <1>11, <1>t, HeaderAfterMark DEF MarkHeader, NumberInv, Header
    <2> QED BY <1>0, <1>11, <1>t, <2>1, HeaderTypes DEF MarkHeader, NumberInv, history
  <1>12. CASE Crash
    BY <1>0, <1>12, <1>t DEF Crash, NumberInv, ring, FreshHeader
  <1>13. CASE UNCHANGED vars
    BY <1>0, <1>13 DEF vars, NumberInv
  <1> QED
    BY <1>1, <1>2, <1>3, <1>4, <1>5, <1>6, <1>7, <1>8, <1>9, <1>10, <1>11,
       <1>12, <1>13 DEF KeptStep, Store, Upload

-----------------------------------------------------------------------------
\* The slots of records that were never flagged.
Unflagged == {idx \in Slot : Unsynced(idx)}

\* The slots a header has to account for: P, and those of U in its window.
Owed(h, P, U) == P \union (Window(h) \intersect U)

\* The slots that were written since the file's header h was, w being the next
\* one, hold nothing of S.
NoneOf(S, d, h, w) == \A idx \in Slot : Age(h, idx) > Age(h, w) => d[idx] \notin S

\* Both headers count the slots they have to account for, and what was written
\* since the file's header was is not acknowledged.
CountInv ==
    /\ pc # "off" =>
           /\ Cardinality(Owed(s_header, Pending, Unflagged))
                  + (IF pc = "mark" THEN marked ELSE 0) <= s_header.unsynced_count
           /\ NoneOf(stored, data, file, s_header.write_idx)
    /\ file # NoHeader =>
           Cardinality(Owed(file, Pending, Unflagged)) <= file.unsynced_count

\* Fewer slots make a smaller set.
LEMMA OwedShrinks ==
    ASSUME NEW h, NEW P \in SUBSET Slot, NEW U \in SUBSET Slot,
           NEW Q \in SUBSET P, NEW V \in SUBSET U
    PROVE  /\ Cardinality(Owed(h, P, U)) \in Nat /\ Cardinality(Owed(h, Q, V)) \in Nat
           /\ Cardinality(Owed(h, Q, V)) <= Cardinality(Owed(h, P, U))
  <1>1. Owed(h, Q, V) \subseteq Owed(h, P, U) /\ Owed(h, P, U) \subseteq Slot
    BY DEF Owed, Window
  <1> QED BY <1>1, SlotSets

\* What is pending and what is not flagged are slots, before and after a step.
LEMMA PendingSlots ==
    /\ Pending \subseteq Slot /\ Unflagged \subseteq Slot
    /\ Pending' \subseteq Slot /\ Unflagged' \subseteq Slot
  BY DEF Pending, Unflagged

\* What is known of the records in the slots when one is added.
LEMMA RecordFacts ==
    ASSUME NumberInv
    PROVE  /\ TypeOK /\ s_header.write_idx \in Slot /\ s_header \in Header
           /\ made \in Nat /\ stored \subseteq Nat
           /\ 0 \notin stored /\ made + 1 \notin stored
           /\ \A idx \in Slot : data[idx] \in Nat
  <1>1. TypeOK /\ TypeInv BY DEF NumberInv, TypeInv
  <1>2. made \in Nat /\ stored \subseteq Nat /\ 0 \notin stored
    BY <1>1, BoundAssumption DEF TypeOK, Record
  <1>3. \A idx \in Slot : data[idx] \in Nat
    BY <1>1, BoundAssumption DEF TypeOK, Record
  <1>4. made + 1 \notin stored
    BY <1>2 DEF NumberInv
  <1> QED BY <1>1, <1>2, <1>3, <1>4, WriteSlotOldest DEF TypeOK

\* The slot that is written holds nothing acknowledged until the header is.
LEMMA PendingAtWrite ==
    ASSUME NumberInv, AppendRecord
    PROVE  /\ Pending' \subseteq Pending \ {s_header.write_idx}
           /\ Unflagged' \subseteq Unflagged \union {s_header.write_idx}
           /\ data'[s_header.write_idx] = made + 1
           /\ \A idx \in Slot \ {s_header.write_idx} : data'[idx] = data[idx]
  <1>1. /\ \A idx \in Slot \ {s_header.write_idx} :
               data'[idx] = data[idx] /\ synced'[idx] = synced[idx]
        /\ data'[s_header.write_idx] = made + 1 /\ stored' = stored
    BY RecordFacts DEF AppendRecord, TypeOK
  <1> QED BY <1>1, RecordFacts DEF Pending, Unflagged, Unsynced

\* The new header makes at most the slot just written pending and flags nothing.
LEMMA PendingAtAppend ==
    ASSUME NumberInv, AppendHeader
    PROVE  /\ Pending' \subseteq Pending \union {s_header.write_idx}
           /\ Unflagged' = Unflagged
  <1>1. /\ stored' \subseteq stored \union {made}
        /\ \A idx \in Slot \ {s_header.write_idx} : data[idx] # made
        /\ data' = data /\ synced' = synced
    BY RecordFacts DEF AppendHeader, NumberInv
  <1> QED BY <1>1 DEF Pending, Unflagged, Unsynced

\* Writing a record that is not acknowledged takes the slot of the oldest one:
\* what a header has to account for does not outgrow its count.
LEMMA OwedAfterWrite ==
    ASSUME NEW h \in Header, NEW w \in Slot,
           NEW P \in SUBSET Slot, NEW U \in SUBSET Slot, NEW Q \in SUBSET (P \ {w}),
           NEW V \in SUBSET (U \union {w}),
           \A idx \in Slot : Age(h, idx) > Age(h, w) => idx \notin P,
           Cardinality(Owed(h, P, U)) <= h.unsynced_count
    PROVE  Cardinality(Owed(h, Q, V)) <= h.unsynced_count
  <1>1. CASE w \in Window(h)
    <2>1. Q \subseteq Window(h)
      <3> SUFFICES ASSUME NEW idx \in Q PROVE Age(h, idx) < h.unsynced_count
        BY DEF Window
      <3>1. ~(Age(h, idx) > Age(h, w)) /\ Age(h, w) < h.unsynced_count
        BY <1>1 DEF Window
      <3>2. Age(h, idx) \in Int /\ Age(h, w) \in Int /\ h.unsynced_count \in Nat
        BY AgeInjective, HeaderParts DEF Slot
      <3> QED BY <3>1, <3>2
    <2>2. Owed(h, Q, V) \subseteq Window(h) /\ Window(h) \subseteq Slot
      BY <2>1 DEF Owed, Window
    <2>3. Cardinality(Owed(h, Q, V)) <= Cardinality(Window(h))
      BY <2>2, SlotSets
    <2>4. /\ Cardinality(Owed(h, Q, V)) \in Nat /\ Cardinality(Window(h)) \in Nat
          /\ h.unsynced_count \in Nat
      BY <2>2, SlotSets, HeaderParts
    <2> QED BY <2>3, <2>4, WindowSize
  <1>2. CASE w \notin Window(h)
    <2>1. Owed(h, Q, V) \subseteq Owed(h, P, U) /\ Owed(h, P, U) \subseteq Slot
      BY <1>2 DEF Owed, Window
    <2>2. /\ Cardinality(Owed(h, Q, V)) <= Cardinality(Owed(h, P, U))
          /\ Cardinality(Owed(h, Q, V)) \in Nat /\ Cardinality(Owed(h, P, U)) \in Nat
      BY <2>1, SlotSets
    <2> QED BY <2>2, HeaderParts
  <1> QED BY <1>1, <1>2

\* A header with the record just appended counts one slot more and has to
\* account for one slot more.
LEMMA OwedAfterAppend ==
    ASSUME NumberInv, AppendHeader
    PROVE  Cardinality(Owed(AppendedHeader, Pending', Unflagged'))
               <= Cardinality(Owed(s_header, Pending, Unflagged)) + 1
  <1> DEFINE w == s_header.write_idx
             S == Owed(s_header, Pending, Unflagged)
             T == Owed(AppendedHeader, Pending', Unflagged')
  <1>1. pc = "append" BY DEF AppendHeader
  <1>2. Window(AppendedHeader) \subseteq Window(s_header) \union {w}
    <2> SUFFICES ASSUME NEW idx \in Slot \ {w},
                        Age(AppendedHeader, idx) < AppendedHeader.unsynced_count
                 PROVE  Age(s_header, idx) < s_header.unsynced_count
      BY DEF Window
    <2>1. Age(s_header, idx) \in Int /\ s_header.unsynced_count \in Int
      BY RecordFacts, AgeInjective, HeaderParts DEF Slot
    <2> QED BY <1>1, <2>1, HeaderAfterAppend
  <1>3. T \subseteq S \union {w} /\ S \subseteq Slot /\ w \in Slot
    BY <1>2, PendingAtAppend, PendingSlots, RecordFacts DEF Owed, Window
  <1>4. /\ IsFiniteSet(S) /\ S \union {w} \subseteq Slot /\ T \subseteq Slot
        /\ Cardinality(S) \in Nat /\ Cardinality(T) \in Nat
        /\ Cardinality(T) <= Cardinality(S \union {w})
    BY <1>3, SlotSets
  <1>5. Cardinality(S \union {w}) <= Cardinality(S) + 1
    <2>1. Cardinality(S \union {w}) = IF w \in S THEN Cardinality(S)
                                                 ELSE Cardinality(S) + 1
      BY <1>4, FS_AddElement
    <2> QED BY <2>1, <1>4
  <1>6. Cardinality(S \union {w}) \in Nat
    BY <1>4, SlotSets
  <1> HIDE DEF S, T
  <1> QED BY <1>4, <1>5, <1>6 DEF S, T

\* Every step keeps the counts.
LEMMA CountInvStep ==
    ASSUME NumberInv, CountInv, [KeptStep]_vars
    PROVE  CountInv'
  <1> USE DEF NoneOf
  <1> DEFINE N == Cardinality(Owed(s_header, Pending, Unflagged))
             F == Cardinality(Owed(file, Pending, Unflagged))
  <1>n. NumberInv' BY NumberInvStep
  <1>0. /\ s_header \in Header
        /\ file # NoHeader => file \in Header
        /\ s_header.unsynced_count \in Nat /\ marked \in Nat
        /\ file # NoHeader => file.unsynced_count \in Nat
        /\ Pending \subseteq Slot /\ Unflagged \subseteq Slot
        /\ Pending' \subseteq Slot /\ Unflagged' \subseteq Slot
        /\ pc # "off" => file # NoHeader
    BY RecordFacts, HeaderParts, PendingSlots DEF TypeOK, NumberInv
  <1>s. ASSUME NEW h, Pending' \subseteq Pending, Unflagged' \subseteq Unflagged
        PROVE  /\ Cardinality(Owed(h, Pending, Unflagged)) \in Nat
               /\ Cardinality(Owed(h, Pending', Unflagged')) \in Nat
               /\ Cardinality(Owed(h, Pending', Unflagged'))
                    <= Cardinality(Owed(h, Pending, Unflagged))
    BY <1>0, <1>s, OwedShrinks
  \* A step that leaves both headers and the ring's contents alone.
  <1>k. ASSUME UNCHANGED <<data, synced, stored, s_header, file>>,
               pc' # "off" => pc # "off" /\ (pc' = "mark" => pc = "mark" /\ marked' = marked)
        PROVE  CountInv'
    <2>1. Pending' = Pending /\ Unflagged' = Unflagged
      BY <1>k DEF Pending, Unflagged, Unsynced
    <2>2. Cardinality(Owed(s_header, Pending, Unflagged)) \in Nat
      BY <1>s, <2>1
    <2> QED BY <1>0, <1>k, <2>1, <2>2 DEF CountInv
  <1>1. CASE Boot
    <2>1. s_header' \in Header /\ file' = s_header' /\ pc' = "idle"
      BY <1>1, <1>n, RecordFacts DEF Boot, NumberInv, TypeInv, TypeOK
    <2>2. \A idx \in Slot : ~(Age(file', idx) > Age(file', s_header'.write_idx))
      BY <2>1, WriteSlotOldest
    <2>3. Cardinality(Owed(s_header', Pending', Unflagged')) <= s_header'.unsynced_count
      <3>1. CASE data' = [k \in Slot |-> 0]
        <4>1. Pending' = {} /\ Unflagged' = {}
          BY <3>1 DEF Pending, Unflagged, Unsynced
        <4>2. Owed(s_header', Pending', Unflagged') = {}
          BY <4>1 DEF Owed
        <4> QED BY <2>1, <4>2, FS_EmptySet, HeaderParts
      <3>2. CASE file # NoHeader /\ s_header' = [file EXCEPT !.write_idx = @ % MaxRecords]
                 /\ UNCHANGED <<data, synced, stored>>
        <4>1. s_header' = file BY <1>0, <3>2, HeaderAtBoot
        <4>2. Pending' = Pending /\ Unflagged' = Unflagged
          BY <3>2 DEF Pending, Unflagged, Unsynced
        <4> QED BY <3>2, <4>1, <4>2 DEF CountInv
      <3> QED BY <1>1, <3>1, <3>2 DEF Boot
    <2>4. Cardinality(Owed(s_header', Pending', Unflagged')) \in Nat
      BY <1>0, OwedShrinks
    <2> QED BY <2>1, <2>2, <2>3, <2>4 DEF CountInv
  <1>2. CASE AppendRecord
    <2>1. /\ pc = "idle" /\ pc' = "append" /\ UNCHANGED <<s_header, file, stored>>
          /\ s_header.write_idx \in Slot
      BY <1>2, RecordFacts DEF AppendRecord
    <2>2. /\ Pending' \subseteq Pending \ {s_header.write_idx}
          /\ Unflagged' \subseteq Unflagged \union {s_header.write_idx}
          /\ data'[s_header.write_idx] \notin stored
          /\ \A idx \in Slot \ {s_header.write_idx} : data'[idx] = data[idx]
      BY <1>2, PendingAtWrite, RecordFacts
    <2>3. N <= s_header.unsynced_count /\ F <= file.unsynced_count
      <3>1. N \in Nat BY <1>0, OwedShrinks
      <3> QED BY <1>0, <2>1, <3>1 DEF CountInv
    <2>4. Cardinality(Owed(s_header, Pending', Unflagged')) <= s_header.unsynced_count
      <3>1. \A idx \in Slot : Age(s_header, idx) > Age(s_header, s_header.write_idx)
                                => idx \notin Pending
        BY <1>0, WriteSlotOldest
      <3> QED BY <1>0, <2>1, <2>2, <2>3, <3>1, OwedAfterWrite
    <2>5. Cardinality(Owed(file, Pending', Unflagged')) <= file.unsynced_count
      <3>1. \A idx \in Slot : Age(file, idx) > Age(file, s_header.write_idx)
                                => idx \notin Pending
        BY <2>1 DEF CountInv, Pending
      <3>2. file \in Header BY <1>0, <2>1
      <3>3. Cardinality(Owed(file, Pending, Unflagged)) <= file.unsynced_count
        BY <2>3
      <3>4. /\ Pending \in SUBSET Slot /\ Unflagged \in SUBSET Slot
            /\ Pending' \in SUBSET (Pending \ {s_header.write_idx})
            /\ Unflagged' \in SUBSET (Unflagged \union {s_header.write_idx})
        BY <1>0, <2>2
      <3> QED BY <2>1, <3>1, <3>2, <3>3, <3>4, OwedAfterWrite
    <2>6. NoneOf(stored, data', file, s_header.write_idx)
      BY <2>1, <2>2 DEF CountInv
    <2>7. Cardinality(Owed(s_header, Pending', Unflagged')) \in Nat
      BY <1>0, OwedShrinks
    <2> QED BY <2>1, <2>4, <2>5, <2>6, <2>7, <1>0 DEF CountInv
  <1>3. CASE AppendRecordFails
    BY <1>k, <1>3 DEF AppendRecordFails, ring
  <1>4. CASE AppendHeader
    <2>1. /\ pc = "append" /\ pc' = "idle" /\ s_header' = AppendedHeader
          /\ UNCHANGED <<data, synced>>
          /\ \/ file' = s_header'
             \/ file' = file /\ stored' = stored
      BY <1>4 DEF AppendHeader
    <2>2. /\ AppendedHeader \in Header
          /\ AppendedHeader.unsynced_count = s_header.unsynced_count + 1
      BY <2>1, HeaderAfterAppend
    <2>3. Cardinality(Owed(s_header', Pending', Unflagged')) <= s_header'.unsynced_count
      <3>1. N \in Nat /\ N <= s_header.unsynced_count
        BY <1>0, <2>1, OwedShrinks DEF CountInv
      <3>2. Cardinality(Owed(s_header', Pending', Unflagged')) \in Nat
        BY <1>0, OwedShrinks
      <3> QED BY <1>0, <1>4, <2>1, <2>2, <3>1, <3>2, OwedAfterAppend
    <2>4. Cardinality(Owed(s_header', Pending', Unflagged')) \in Nat
      BY <1>0, OwedShrinks
    <2>5. CASE file' = s_header'
      <3>1. \A idx \in Slot : ~(Age(file', idx) > Age(file', s_header'.write_idx))
        BY <2>1, <2>2, <2>5, WriteSlotOldest
      <3> QED BY <2>1, <2>3, <2>4, <2>5, <3>1 DEF CountInv
    <2>6. CASE file' = file /\ stored' = stored
      <3>1. NoneOf(stored, data, file, AppendedHeader.write_idx)
        BY <1>0, <2>1, HeaderAfterAppend DEF CountInv, NumberInv
      <3>2. Pending' = Pending /\ Unflagged' = Unflagged
        BY <2>1, <2>6 DEF Pending, Unflagged, Unsynced
      <3> QED BY <1>0, <2>1, <2>3, <2>4, <2>6, <3>1, <3>2 DEF CountInv
    <2> QED BY <2>1, <2>5, <2>6
  <1>5. CASE ReadBegin
    BY <1>k, <1>5 DEF ReadBegin, ring
  <1>6. CASE ReadSlot
    BY <1>k, <1>6 DEF ReadSlot, ring
  <1>7. CASE ReadDone
    BY <1>k, <1>7 DEF ReadDone, ring, history
  <1>8. CASE UploadOk
    <2>1. /\ pc = "upload" /\ pc' \in {"idle", "mark"} /\ marked' = 0
          /\ UNCHANGED <<data, synced, stored, s_header, file>>
      BY <1>8 DEF UploadOk, ring
    <2>2. Pending' = Pending /\ Unflagged' = Unflagged
      BY <2>1 DEF Pending, Unflagged, Unsynced
    <2>3. N \in Nat BY <1>0, OwedShrinks
    <2> QED BY <1>0, <2>1, <2>2, <2>3 DEF CountInv
  <1>9. CASE UploadFails
    BY <1>k, <1>9 DEF UploadFails, ring, history
  <1>10. CASE MarkSlot
    <2> DEFINE p == Position(s_header, i)
    <2>1. /\ pc = "mark" /\ pc' = "mark" /\ i < s_header.unsynced_count /\ i \in Nat
          /\ UNCHANGED <<data, stored, s_header, file>>
      BY <1>10, RecordFacts DEF MarkSlot, MarkMore, TypeOK
    <2>2. p \in Window(s_header) /\ p \in Slot
      BY <1>0, <2>1, ScanInWindow DEF Window
    <2>3. CASE /\ Unsynced(p) /\ synced' = [synced EXCEPT ![p] = TRUE]
               /\ marked' = marked + 1
      <3>1. \A idx \in Slot : synced'[idx] = (synced[idx] \/ idx = p)
        BY <2>2, <2>3, RecordFacts DEF TypeOK
      <3>2. Pending' = Pending \ {p} /\ Unflagged' = Unflagged \ {p}
        BY <2>1, <2>2, <3>1 DEF Pending, Unflagged, Unsynced
      <3>3. Owed(s_header, Pending', Unflagged') = Owed(s_header, Pending, Unflagged) \ {p}
        BY <3>2 DEF Owed
      <3>4. p \in Owed(s_header, Pending, Unflagged)
        BY <2>2, <2>3 DEF Owed, Unflagged
      <3>5. Owed(s_header, Pending, Unflagged) \subseteq Slot
        BY <1>0 DEF Owed, Window
      <3>6. Cardinality(Owed(s_header, Pending', Unflagged')) = N - 1 /\ N \in Nat
        BY <3>3, <3>4, <3>5, SlotSets, FS_RemoveElement
      <3>7. Cardinality(Owed(file, Pending', Unflagged')) <= file.unsynced_count
        <4>1. /\ Cardinality(Owed(file, Pending, Unflagged)) \in Nat
              /\ Cardinality(Owed(file, Pending', Unflagged')) \in Nat
              /\ Cardinality(Owed(file, Pending', Unflagged')) 
                   <= Cardinality(Owed(file, Pending, Unflagged))
          BY <1>s, <3>2
        <4> QED BY <1>0, <2>1, <4>1 DEF CountInv
      <3>8. NoneOf(stored, data, file, s_header.write_idx)
            /\ N + marked <= s_header.unsynced_count
        BY <2>1 DEF CountInv
      <3> HIDE DEF N, p
      <3>9. N - 1 + (marked + 1) <= s_header.unsynced_count
        BY <1>0, <3>6, <3>8
      <3> QED BY <2>1, <2>3, <3>6, <3>7, <3>8, <3>9 DEF CountInv
    <2>4. CASE UNCHANGED <<synced, marked>>
      BY <1>k, <2>1, <2>4
    <2> QED BY <1>10, <2>3, <2>4 DEF MarkSlot
  <1>11. CASE MarkHeader
    <2>1. /\ pc = "mark" /\ pc' = "idle" /\ UNCHANGED <<data, synced, stored>>
          /\ s_header' = [s_header EXCEPT !.unsynced_count = Remaining]
          /\ file' \in {file, s_header'}
      BY <1>11 DEF MarkHeader, history
    <2>2. /\ s_header' \in Header /\ s_header'.unsynced_count = s_header.unsynced_count - marked
          /\ s_header'.unsynced_count <= s_header.unsynced_count
          /\ s_header'.write_idx = s_header.write_idx
      BY <1>0, <2>1, HeaderAfterMark DEF Header
    <2>3. Pending' = Pending /\ Unflagged' = Unflagged
      BY <2>1 DEF Pending, Unflagged, Unsynced
    <2>4. Window(s_header') \subseteq Window(s_header)
      <3> SUFFICES ASSUME NEW idx \in Slot, Age(s_header', idx) < s_header'.unsynced_count
                   PROVE  Age(s_header, idx) < s_header.unsynced_count
        BY DEF Window
      <3>1. Age(s_header, idx) = Age(s_header', idx)
        BY <2>2 DEF Age
      <3>2. /\ Age(s_header, idx) \in Int /\ s_header.unsynced_count \in Int
            /\ s_header'.unsynced_count \in Int
        <4>1. Age(s_header, idx) \in Slot
          BY <1>0, AgeInjective
        <4> QED BY <1>0, <2>2, <4>1, HeaderParts DEF Slot
      <3> QED BY <2>2, <3>1, <3>2
    <2>5. Cardinality(Owed(s_header', Pending', Unflagged')) <= N /\ N \in Nat
          /\ Cardinality(Owed(s_header', Pending', Unflagged')) \in Nat
      <3>1. Owed(s_header', Pending', Unflagged') \subseteq Owed(s_header, Pending, Unflagged)
            /\ Owed(s_header, Pending, Unflagged) \subseteq Slot
        BY <1>0, <2>3, <2>4 DEF Owed, Window
      <3> QED BY <3>1, SlotSets
    <2>6. N + marked <= s_header.unsynced_count
          /\ NoneOf(stored, data, file, s_header.write_idx)
          /\ F <= file.unsynced_count
      BY <1>0, <2>1 DEF CountInv
    <2>7. Cardinality(Owed(s_header', Pending', Unflagged')) <= s_header'.unsynced_count
      <3> HIDE DEF N
      <3> QED BY <1>0, <2>2, <2>5, <2>6
    <2>8. CASE file' = s_header'
      <3>1. \A idx \in Slot : ~(Age(file', idx) > Age(file', s_header'.write_idx))
        BY <2>2, <2>8, WriteSlotOldest
      <3> QED BY <2>1, <2>5, <2>7, <2>8, <3>1 DEF CountInv
    <2>9. CASE file' = file
      BY <1>0, <2>1, <2>2, <2>3, <2>5, <2>6, <2>7, <2>9 DEF CountInv
    <2> QED BY <2>1, <2>8, <2>9
  <1>12. CASE Crash
    <2>1. /\ pc' = "off" /\ pc # "off" /\ UNCHANGED <<data, synced, stored, file>>
      BY <1>12 DEF Crash, ring
    <2>2. Pending' = Pending /\ Unflagged' = Unflagged
      BY <2>1 DEF Pending, Unflagged, Unsynced
    <2> QED BY <1>0, <2>1, <2>2 DEF CountInv
  <1>13. CASE UNCHANGED vars
    BY <1>k, <1>13 DEF vars
  <1> QED
    BY <1>1, <1>2, <1>3, <1>4, <1>5, <1>6, <1>7, <1>8, <1>9, <1>10, <1>11,
       <1>12, <1>13 DEF KeptStep, Store, Upload

-----------------------------------------------------------------------------
\* The storage starts with nothing to count.
LEMMA CountInit ==
    ASSUME Init
    PROVE  NumberInv /\ CountInv
  <1>1. TypeInv /\ FreshHeader.unsynced_count = 0
    BY CapacityAssumption, BoundAssumption
       DEF Init, TypeOK, TypeInv, FreshHeader, NoHeader, Header, Slot, Uint, Record
  <1> QED BY <1>1 DEF Init, NumberInv, CountInv

\* The header's count covers what is left to upload: for every capacity, batch
\* size and number of resets, whatever reads and writes fail and even when
\* start_idx wraps, until a write that was counted is lost in a buffer.
THEOREM StorageUnsyncedCountCovers == Spec => []UnsyncedCountCovers
  <1> DEFINE Inv == failed \intersect Lost = {} => NumberInv /\ CountInv
  <1>1. Init => Inv
    BY CountInit
  <1>2. Inv /\ [Next]_vars => Inv'
    <2> SUFFICES ASSUME Inv, [Next]_vars, failed' \intersect Lost = {}
                 PROVE  NumberInv' /\ CountInv'
      OBVIOUS
    <2>1. NumberInv /\ CountInv /\ [KeptStep]_vars
      BY LossIsRecorded
    <2> QED BY <2>1, NumberInvStep, CountInvStep
  <1>3. Inv => UnsyncedCountCovers
    <2> SUFFICES ASSUME NumberInv, CountInv
                 PROVE  Cardinality(Pending) <= Current.unsynced_count
      BY DEF UnsyncedCountCovers
    <2>1. \A h : Cardinality(Pending) <= Cardinality(Owed(h, Pending, Unflagged))
      <3> SUFFICES ASSUME NEW h
                   PROVE  Cardinality(Pending) <= Cardinality(Owed(h, Pending, Unflagged))
        OBVIOUS
      <3>1. Pending \subseteq Owed(h, Pending, Unflagged)
            /\ Owed(h, Pending, Unflagged) \subseteq Slot
        BY PendingSlots DEF Owed, Window
      <3> QED BY <3>1, SlotSets
    <2>2. \A h : Cardinality(Owed(h, Pending, Unflagged)) \in Nat
      BY PendingSlots, OwedShrinks
    <2>3. Cardinality(Pending) \in Nat
      BY PendingSlots, SlotSets
    <2>4. CASE pc # "off"
      <3>1. /\ Cardinality(Owed(s_header, Pending, Unflagged))
                 + (IF pc = "mark" THEN marked ELSE 0) <= s_header.unsynced_count
            /\ marked \in Nat /\ s_header.unsynced_count \in Nat
        BY <2>4, RecordFacts, HeaderParts DEF CountInv, TypeOK
      <3> QED BY <2>1, <2>2, <2>3, <2>4, <3>1 DEF Current
    <2>5. CASE pc = "off" /\ file # NoHeader
      <3>1. /\ Cardinality(Owed(file, Pending, Unflagged)) <= file.unsynced_count
            /\ file.unsynced_count \in Nat
        BY <2>5, RecordFacts, HeaderParts DEF CountInv, TypeOK
      <3> QED BY <2>1, <2>2, <2>3, <2>5, <3>1 DEF Current
    <2>6. CASE pc = "off" /\ file = NoHeader
      <3>1. Pending = {}
        BY <2>6 DEF NumberInv, Pending
      <3> QED BY <2>6, <3>1, FS_EmptySet DEF Current, FreshHeader
    <2> QED BY <2>4, <2>5, <2>6
  <1> QED
    BY <1>1, <1>2, <1>3, PTL DEF Spec

-----------------------------------------------------------------------------
\* What would make mark_synced lower the count past a slot that is still owed.
Skips == {"mark_synced", "start_idx"}

\* Both windows contain every pending slot; while an upload is under way the
\* subtraction did not wrap around, and what mark_synced passed is flagged.
WindowInv ==
    /\ pc # "off" => Pending \subseteq Window(s_header)
    /\ file # NoHeader => Pending \subseteq Window(file)
    /\ pc \in {"read", "upload", "mark"} => ~Wraps(s_header)
    /\ pc = "mark" => \A k \in 0 .. i - 1 : Position(s_header, k) \notin Pending

\* What moves a window without taking anything out of it.
LEMMA WindowAfterAppend ==
    ASSUME NumberInv, pc = "append"
    PROVE  Window(s_header) \union {s_header.write_idx} \subseteq Window(AppendedHeader)
  <1> SUFFICES ASSUME NEW idx \in Slot,
                      Age(s_header, idx) < s_header.unsynced_count
                        \/ idx = s_header.write_idx
               PROVE  Age(AppendedHeader, idx) < AppendedHeader.unsynced_count
    BY RecordFacts DEF Window
  <1>1. Age(s_header, idx) \in Int /\ s_header.unsynced_count \in Nat
    BY RecordFacts, AgeInjective, HeaderParts DEF Slot
  <1> QED BY <1>1, HeaderAfterAppend

\* The slots of a batch that were passed are the oldest of the window: what is
\* owed outside them is in the window that the lowered count leaves.
LEMMA WindowAfterMark ==
    ASSUME NumberInv, pc = "mark", ~Wraps(s_header),
           NEW idx \in Window(s_header),
           \A k \in 0 .. i - 1 : Position(s_header, k) # idx
    PROVE  Age(s_header, idx) < s_header.unsynced_count - marked
  <1>1. /\ i \in Nat /\ marked \in Nat /\ marked <= i
        /\ s_header.unsynced_count \in Nat /\ s_header \in Header
    BY RecordFacts, HeaderParts DEF NumberInv, TypeOK
  <1>2. Age(s_header, idx) \in Slot
    BY <1>1, AgeInjective DEF Window
  <1>3. /\ s_header.unsynced_count - 1 - Age(s_header, idx) \in Nat
        /\ Position(s_header, s_header.unsynced_count - 1 - Age(s_header, idx)) = idx
    BY <1>1, ScanReaches
  <1>4. ~(s_header.unsynced_count - 1 - Age(s_header, idx) <= i - 1)
    BY <1>1, <1>3
  <1> QED BY <1>1, <1>2, <1>4 DEF Slot

\* Every step keeps the windows, unless one of the errors in Skips occurred.
LEMMA WindowInvStep ==
    ASSUME NumberInv, WindowInv, [KeptStep]_vars, failed' \intersect Skips = {}
    PROVE  WindowInv'
  <1>0. TypeOK /\ s_header \in Header BY RecordFacts
  <1>k. ASSUME UNCHANGED <<data, synced, stored, s_header, file>>,
               pc' \in {"idle", "off", pc}, pc' # "off" => pc # "off", i' = i
        PROVE  WindowInv'
    <2>1. Pending' = Pending
      BY <1>k DEF Pending, Unsynced
    <2> QED BY <1>k, <2>1 DEF WindowInv
  <1>1. CASE Boot
    <2>1. Pending' \subseteq Window(s_header') /\ file' = s_header' /\ pc' = "idle"
      <3>1. CASE data' = [k \in Slot |-> 0]
        BY <1>1, <3>1 DEF Pending, Unsynced, Boot
      <3>2. CASE file # NoHeader /\ s_header' = [file EXCEPT !.write_idx = @ % MaxRecords]
                 /\ UNCHANGED <<data, synced, stored>>
        <4>1. s_header' = file BY <1>0, <3>2, HeaderAtBoot DEF TypeOK
        <4>2. Pending' = Pending
          BY <3>2 DEF Pending, Unsynced
        <4> QED BY <1>1, <3>2, <4>1, <4>2 DEF WindowInv, Boot
      <3> QED BY <1>1, <3>1, <3>2 DEF Boot
    <2> QED BY <2>1 DEF WindowInv
  <1>2. CASE AppendRecord
    BY <1>2, PendingAtWrite DEF AppendRecord, WindowInv
  <1>3. CASE AppendRecordFails
    <2>1. Pending' = Pending BY <1>3 DEF AppendRecordFails, ring, Pending, Unsynced
    <2> QED BY <1>3, <2>1 DEF AppendRecordFails, ring, WindowInv
  <1>4. CASE AppendHeader
    <2>1. /\ pc = "append" /\ pc' = "idle" /\ s_header' = AppendedHeader
          /\ file' = s_header' \/ (file' = file /\ stored' = stored)
          /\ UNCHANGED <<data, synced>>
      BY <1>4 DEF AppendHeader
    <2>2. Pending' \subseteq Window(s_header')
      BY <1>4, <2>1, PendingAtAppend, WindowAfterAppend DEF WindowInv
    <2>3. CASE file' = s_header'
      BY <2>1, <2>2, <2>3 DEF WindowInv
    <2>4. CASE file' = file /\ stored' = stored
      <3>1. Pending' = Pending BY <2>1, <2>4 DEF Pending, Unsynced
      <3> QED BY <2>1, <2>2, <2>4, <3>1 DEF WindowInv
    <2> QED BY <2>1, <2>3, <2>4
  <1>5. CASE ReadBegin
    <2>1. /\ pc = "idle" /\ pc' = "read" /\ ~StartWraps
          /\ UNCHANGED <<data, synced, stored, s_header, file>>
      BY <1>5 DEF ReadBegin, ring, Skips
    <2>2. Pending' = Pending BY <2>1 DEF Pending, Unsynced
    <2> QED BY <2>1, <2>2 DEF WindowInv, StartWraps, Wraps
  <1>6. CASE ReadSlot
    <2>1. /\ pc = "read" /\ pc' = "read"
          /\ UNCHANGED <<data, synced, stored, s_header, file>>
      BY <1>6 DEF ReadSlot, ring
    <2>2. Pending' = Pending BY <2>1 DEF Pending, Unsynced
    <2> QED BY <2>1, <2>2 DEF WindowInv, Wraps
  <1>7. CASE ReadDone
    <2>1. /\ pc = "read" /\ pc' = "upload"
          /\ UNCHANGED <<data, synced, stored, s_header, file>>
      BY <1>7 DEF ReadDone, ring, history
    <2>2. Pending' = Pending BY <2>1 DEF Pending, Unsynced
    <2> QED BY <2>1, <2>2 DEF WindowInv, Wraps
  <1>8. CASE UploadOk
    <2>1. /\ pc = "upload" /\ pc' \in {"idle", "mark"} /\ i' = 0
          /\ UNCHANGED <<data, synced, stored, s_header, file>>
      BY <1>8 DEF UploadOk, ring
    <2>2. Pending' = Pending BY <2>1 DEF Pending, Unsynced
    <2> QED BY <2>1, <2>2 DEF WindowInv, Wraps
  <1>9. CASE UploadFails
    BY <1>k, <1>9 DEF UploadFails, ring, history
  <1>10. CASE MarkSlot
    <2> DEFINE p == Position(s_header, i)
    <2>1. /\ pc = "mark" /\ pc' = "mark" /\ i' = i + 1 /\ i \in Nat
          /\ UNCHANGED <<data, stored, s_header, file>>
      BY <1>10, <1>0 DEF MarkSlot, TypeOK
    <2>2. p \in Slot
      BY <1>0, <2>1, PositionInRing
    <2>3. /\ \A idx \in Slot : synced[idx] => synced'[idx]
          /\ Unsynced(p) => synced'[p]
      BY <1>0, <1>10, <2>2 DEF MarkSlot, Skips, Unsynced, TypeOK
    <2>4. Pending' \subseteq Pending \ {p}
      BY <2>1, <2>2, <2>3 DEF Pending, Unsynced
    <2>5. \A k \in 0 .. i : Position(s_header, k) \notin Pending'
      <3> SUFFICES ASSUME NEW k \in 0 .. i PROVE Position(s_header, k) \notin Pending'
        OBVIOUS
      <3>1. CASE k = i BY <2>4, <3>1
      <3>2. CASE k \in 0 .. i - 1 BY <2>1, <2>4, <3>2 DEF WindowInv
      <3> QED BY <2>1, <3>1, <3>2
    <2> QED BY <2>1, <2>4, <2>5 DEF WindowInv, Wraps, Position, start_idx
  <1>11. CASE MarkHeader
    <2>1. /\ pc = "mark" /\ pc' = "idle" /\ UNCHANGED <<data, synced, stored>>
          /\ s_header' = [s_header EXCEPT !.unsynced_count = Remaining]
          /\ file' \in {file, s_header'}
      BY <1>11 DEF MarkHeader, history
    <2>2. /\ s_header'.unsynced_count = s_header.unsynced_count - marked
          /\ s_header'.write_idx = s_header.write_idx
      BY <1>0, <2>1, HeaderAfterMark DEF Header
    <2>3. Pending' = Pending BY <2>1 DEF Pending, Unsynced
    <2>4. Pending \subseteq Window(s_header')
      <3> SUFFICES ASSUME NEW idx \in Pending
                   PROVE  idx \in Slot /\ Age(s_header', idx) < s_header'.unsynced_count
        BY DEF Window
      <3>1. Age(s_header', idx) = Age(s_header, idx) /\ idx \in Slot
        BY <2>2 DEF Age, Pending
      <3>2. \A k \in 0 .. i - 1 : Position(s_header, k) # idx
        BY <2>1 DEF WindowInv
      <3>3. idx \in Window(s_header) /\ ~Wraps(s_header)
        BY <2>1 DEF WindowInv
      <3> QED BY <2>1, <2>2, <3>1, <3>2, <3>3, WindowAfterMark
    <2> QED BY <2>1, <2>3, <2>4 DEF WindowInv
  <1>12. CASE Crash
    <2>1. /\ pc' = "off" /\ UNCHANGED <<data, synced, stored, file>>
      BY <1>12 DEF Crash, ring
    <2>2. Pending' = Pending BY <2>1 DEF Pending, Unsynced
    <2> QED BY <2>1, <2>2 DEF WindowInv
  <1>13. CASE UNCHANGED vars
    <2>1. Pending' = Pending BY <1>13 DEF vars, Pending, Unsynced
    <2> QED BY <1>13, <2>1 DEF vars, WindowInv, Wraps, Position, start_idx
  <1> QED
    BY <1>1, <1>2, <1>3, <1>4, <1>5, <1>6, <1>7, <1>8, <1>9, <1>10, <1>11,
       <1>12, <1>13 DEF KeptStep, Store, Upload

\* Unless an error made mark_synced pass over a slot, start_idx wrapped around
\* or a write was lost in a buffer, every acknowledged record that is not
\* delivered lies where read_unsynced looks: for every capacity, batch size and
\* number of resets.
THEOREM StoragePendingInWindow == Spec => []PendingInWindow
  <1> DEFINE Inv == failed \intersect Lost = {} =>
                        NumberInv /\ (failed \intersect Skips = {} => WindowInv)
  <1>1. Init => Inv
    <2> SUFFICES ASSUME Init PROVE Inv
      OBVIOUS
    <2> QED BY CountInit DEF Init, WindowInv
  <1>2. Inv /\ [Next]_vars => Inv'
    <2> SUFFICES ASSUME Inv, [Next]_vars, failed' \intersect Lost = {}
                 PROVE  NumberInv' /\ (failed' \intersect Skips = {} => WindowInv')
      OBVIOUS
    <2>1. failed \subseteq failed'
      BY FailedGrows
    <2>2. NumberInv /\ [KeptStep]_vars /\ (failed \intersect Skips = {} => WindowInv)
      BY LossIsRecorded
    <2> QED BY <2>1, <2>2, NumberInvStep, WindowInvStep
  <1>3. Inv => PendingInWindow
    <2> SUFFICES ASSUME Inv, failed \intersect (Skips \union Lost) = {},
                        NEW idx \in Pending
                 PROVE  InWindow(idx)
      BY DEF PendingInWindow, Skips
    <2>a. NumberInv /\ WindowInv
      OBVIOUS
    <2>1. CASE pc # "off"
      <3>1. Current = s_header /\ s_header \in Header /\ idx \in Window(s_header)
        BY <2>1, <2>a, RecordFacts DEF Current, WindowInv
      <3> QED BY <3>1, WindowIsScanned DEF InWindow
    <2>2. CASE pc = "off" /\ file # NoHeader
      <3>1. Current = file /\ file \in Header /\ idx \in Window(file)
        BY <2>2, <2>a, RecordFacts DEF Current, WindowInv, TypeOK
      <3> QED BY <3>1, WindowIsScanned DEF InWindow
    <2>3. CASE pc = "off" /\ file = NoHeader
      BY <2>3, <2>a DEF NumberInv, Pending
    <2> QED BY <2>1, <2>2, <2>3
  <1> QED
    BY <1>1, <1>2, <1>3, PTL DEF Spec

-----------------------------------------------------------------------------
\* A slot that holds an acknowledged record is at least as young as the records
\* measured since allow: it is not the next to be written before its time.
AgeInv ==
    /\ pc # "off" => \A idx \in Slot : data[idx] \in stored =>
           Age(s_header, idx) + (IF pc = "append" THEN 1 ELSE 0) <= made - data[idx]
    /\ file # NoHeader => \A idx \in Slot : data[idx] \in stored =>
           Age(file, idx) <= made - data[idx]

\* An acknowledged record is in the ring until the capacity is measured again.
KeptInv == \A r \in stored : \/ made - r >= MaxRecords
                             \/ \E idx \in Slot : data[idx] = r

\* Every step keeps the ages and, unless the file is created anew over an
\* existing one, the records.
LEMMA KeptInvStep ==
    ASSUME NumberInv, AgeInv, [KeptStep]_vars
    PROVE  AgeInv' /\ (KeptInv /\ "init" \notin failed' => KeptInv')
  <1>0. /\ TypeOK /\ s_header \in Header /\ s_header.write_idx \in Slot
        /\ made \in Nat /\ stored \subseteq Nat
        /\ \A idx \in Slot : data[idx] \in Nat /\ Age(s_header, idx) \in Nat
        /\ file # NoHeader => \A idx \in Slot : Age(file, idx) \in Nat
        /\ pc # "off" => file # NoHeader
        /\ MaxRecords \in Nat
    <2>1. TypeOK /\ s_header \in Header /\ s_header.write_idx \in Slot
          /\ made \in Nat /\ stored \subseteq Nat
      BY RecordFacts
    <2>2. \A idx \in Slot : data[idx] \in Nat
      BY RecordFacts
    <2>3. \A h \in Header : \A idx \in Slot : Age(h, idx) \in Nat
      BY AgeInjective DEF Slot
    <2> QED BY <2>1, <2>2, <2>3, CapacityAssumption DEF TypeOK, NumberInv
  <1>k. ASSUME UNCHANGED <<data, made, stored, s_header, file>>,
               pc' # "off" => pc # "off" /\ pc' # "append" 
        PROVE  AgeInv' /\ (KeptInv => KeptInv')
    BY <1>0, <1>k DEF AgeInv, KeptInv
  <1>1. CASE Boot
    <2>1. /\ pc = "off" /\ pc' = "idle" /\ UNCHANGED <<made, stored>>
          /\ file' = s_header'
      BY <1>1 DEF Boot
    <2>2. CASE data' = [k \in Slot |-> 0] /\ (file # NoHeader => "init" \in failed')
      <3>1. \A idx \in Slot : data'[idx] \notin stored
        BY <2>2, RecordFacts
      <3> QED BY <2>1, <2>2, <3>1 DEF AgeInv, KeptInv, NumberInv
    <2>3. CASE file # NoHeader /\ data' = data
               /\ s_header' = [file EXCEPT !.write_idx = @ % MaxRecords]
      <3>1. s_header' = file
        BY <1>0, <2>3, HeaderAtBoot DEF TypeOK
      <3> QED BY <1>0, <2>1, <2>3, <3>1 DEF AgeInv, KeptInv
    <2> QED BY <1>1, <2>2, <2>3 DEF Boot
  <1>2. CASE AppendRecord
    <2>1. /\ pc = "idle" /\ pc' = "append" /\ made' = made + 1
          /\ UNCHANGED <<s_header, file, stored>>
      BY <1>2 DEF AppendRecord
    <2>2. /\ data'[s_header.write_idx] \notin stored
          /\ \A idx \in Slot \ {s_header.write_idx} : data'[idx] = data[idx]
      BY <1>2, PendingAtWrite, RecordFacts
    <2>3. AgeInv'
      <3>1. ASSUME NEW idx \in Slot, data'[idx] \in stored'
            PROVE  /\ Age(s_header', idx) + 1 <= made' - data'[idx]
                   /\ Age(file', idx) <= made' - data'[idx]
        <4>1. data'[idx] = data[idx] /\ data[idx] \in stored
          BY <2>1, <2>2, <3>1
        <4>2. Age(s_header, idx) <= made - data[idx] /\ Age(file, idx) <= made - data[idx]
          BY <1>0, <2>1, <4>1 DEF AgeInv
        <4>3. /\ Age(s_header, idx) + 1 <= (made + 1) - data[idx]
              /\ Age(file, idx) <= (made + 1) - data[idx]
          BY <1>0, <2>1, <4>2
        <4>4. Age(s_header', idx) = Age(s_header, idx) /\ Age(file', idx) = Age(file, idx)
          BY <2>1
        <4>5. made' - data'[idx] = (made + 1) - data[idx]
          BY <2>1, <4>1
        <4> QED BY <4>3, <4>4, <4>5, Zenon
      <3> QED BY <2>1, <3>1 DEF AgeInv
    <2>4. ASSUME KeptInv PROVE KeptInv'
      <3> SUFFICES ASSUME NEW r \in stored', ~\E idx \in Slot : data'[idx] = r
                   PROVE  made' - r >= MaxRecords
        BY DEF KeptInv
      <3>0. r \in stored /\ r \in Nat /\ made' = made + 1
        BY <1>0, <2>1
      <3>1. CASE data[s_header.write_idx] = r
        <4>1. Age(s_header, s_header.write_idx) = MaxRecords - 1
          BY <1>0, WriteSlotOldest
        <4>2. Age(s_header, s_header.write_idx) <= made - r
          BY <1>0, <2>1, <3>0, <3>1 DEF AgeInv
        <4> QED BY <1>0, <3>0, <4>1, <4>2
      <3>2. CASE data[s_header.write_idx] # r
        <4>1. \A idx \in Slot : data[idx] # r
          BY <2>2, <3>2
        <4>2. made - r >= MaxRecords
          BY <2>4, <3>0, <4>1 DEF KeptInv
        <4> QED BY <1>0, <3>0, <4>2
      <3> QED BY <3>1, <3>2
    <2> QED BY <2>3, <2>4
  <1>3. CASE AppendRecordFails
    <2>1. /\ pc' = pc /\ pc = "idle" /\ made' = made + 1
          /\ UNCHANGED <<data, s_header, file, stored>>
      BY <1>3 DEF AppendRecordFails, ring
    <2> QED BY <1>0, <2>1 DEF AgeInv, KeptInv
  <1>4. CASE AppendHeader
    <2>1. /\ pc = "append" /\ pc' = "idle" /\ s_header' = AppendedHeader
          /\ UNCHANGED <<data, made>> /\ stored' \subseteq stored \union {made}
          /\ file' = s_header' \/ (file' = file /\ stored' = stored)
      BY <1>4 DEF AppendHeader
    <2>2. /\ data[s_header.write_idx] = made /\ made \notin stored
          /\ \A idx \in Slot \ {s_header.write_idx} : data[idx] # made
      BY <1>0, <2>1 DEF NumberInv
    <2>3. ASSUME NEW idx \in Slot, data[idx] \in stored'
          PROVE  Age(AppendedHeader, idx) <= made - data[idx]
      <3>1. CASE idx = s_header.write_idx
        BY <1>0, <2>1, <2>2, <3>1, HeaderAfterAppend
      <3>2. CASE idx # s_header.write_idx
        <4>1. Age(s_header, idx) + 1 <= made - data[idx]
          BY <2>1, <2>2, <2>3, <3>2 DEF AgeInv
        <4> QED BY <2>1, <3>2, <4>1, HeaderAfterAppend
      <3> QED BY <3>1, <3>2
    <2>4. AgeInv'
      <3>1. \A idx \in Slot : data'[idx] \in stored' =>
                Age(s_header', idx) <= made' - data'[idx]
        BY <2>1, <2>3
      <3>2. \A idx \in Slot : data'[idx] \in stored' =>
                Age(file', idx) <= made' - data'[idx]
        BY <1>0, <2>1, <3>1 DEF AgeInv
      <3>3. \A idx \in Slot : data'[idx] \in stored' => made' - data'[idx] \in Int
        BY <1>0, <2>1
      <3> QED BY <1>0, <2>1, <3>1, <3>2, <3>3, HeaderAfterAppend, AgeInjective DEF AgeInv
    <2>5. KeptInv => KeptInv'
      BY <1>0, <2>1, <2>2 DEF KeptInv
    <2> QED BY <2>4, <2>5
  <1>5. CASE ReadBegin
    BY <1>k, <1>5 DEF ReadBegin, ring
  <1>6. CASE ReadSlot
    BY <1>k, <1>6 DEF ReadSlot, ring
  <1>7. CASE ReadDone
    BY <1>k, <1>7 DEF ReadDone, ring, history
  <1>8. CASE UploadOk
    BY <1>k, <1>8 DEF UploadOk, ring
  <1>9. CASE UploadFails
    BY <1>k, <1>9 DEF UploadFails, ring, history
  <1>10. CASE MarkSlot
    BY <1>k, <1>10 DEF MarkSlot
  <1>11. CASE MarkHeader
    <2>1. /\ pc = "mark" /\ pc' = "idle" /\ UNCHANGED <<data, made, stored>>
          /\ s_header' = [s_header EXCEPT !.unsynced_count = Remaining]
          /\ file' \in {file, s_header'}
      BY <1>11 DEF MarkHeader, history
    <2>2. s_header'.write_idx = s_header.write_idx
      BY <1>0, <2>1 DEF Header
    <2>3. \A idx \in Slot : Age(s_header', idx) = Age(s_header, idx)
      BY <2>2 DEF Age
    <2> QED BY <1>0, <2>1, <2>3 DEF AgeInv, KeptInv
  <1>12. CASE Crash
    BY <1>0, <1>12 DEF Crash, ring, AgeInv, KeptInv
  <1>13. CASE UNCHANGED vars
    BY <1>13 DEF vars, AgeInv, KeptInv
  <1> QED
    BY <1>1, <1>2, <1>3, <1>4, <1>5, <1>6, <1>7, <1>8, <1>9, <1>10, <1>11,
       <1>12, <1>13 DEF KeptStep, Store, Upload

\* Until MaxRecords later ones have been measured, an acknowledged record is
\* delivered or lies where the next upload looks, whatever the capacity, the
\* batch size and the number of resets, reported write errors and overruns, until
\* an fread fails, a flag is not written, a write is lost in a buffer or start_idx
\* wraps around.
THEOREM StorageNoSilentLoss == Spec => []NoSilentLoss
  <1> DEFINE Inv == failed \intersect Lost = {} =>
                        NumberInv /\ AgeInv /\ ("init" \notin failed => KeptInv)
  <1>1. Init => Inv
    <2> SUFFICES ASSUME Init PROVE Inv
      OBVIOUS
    <2> QED BY CountInit DEF Init, AgeInv, KeptInv
  <1>2. Inv /\ [Next]_vars => Inv'
    <2> SUFFICES ASSUME Inv, [Next]_vars, failed' \intersect Lost = {}
                 PROVE  NumberInv' /\ AgeInv' /\ ("init" \notin failed' => KeptInv')
      OBVIOUS
    <2>1. failed \subseteq failed'
      BY FailedGrows
    <2>2. NumberInv /\ AgeInv /\ [KeptStep]_vars /\ ("init" \notin failed => KeptInv)
      BY LossIsRecorded
    <2> QED BY <2>1, <2>2, NumberInvStep, KeptInvStep
  <1>3. Inv /\ PendingInWindow /\ SyncedWasDelivered => NoSilentLoss
    <2> SUFFICES ASSUME Inv, PendingInWindow, SyncedWasDelivered, failed = {},
                        NEW r \in stored, r \notin delivered, ~(made - r >= MaxRecords)
                 PROVE  \E idx \in Pending : data[idx] = r /\ InWindow(idx)
      BY DEF NoSilentLoss
    <2>0. NumberInv /\ KeptInv
      OBVIOUS
    <2>1. PICK idx \in Slot : data[idx] = r
      BY <2>0 DEF KeptInv
    <2>2. idx \in Pending
      BY <2>0, <2>1, RecordFacts DEF SyncedWasDelivered, Pending, Unsynced
    <2>3. InWindow(idx)
      BY <2>2 DEF PendingInWindow
    <2> QED BY <2>1, <2>2, <2>3
  <1> QED
    BY <1>1, <1>2, <1>3, StoragePendingInWindow, StorageSyncedWasDelivered, PTL DEF Spec

-----------------------------------------------------------------------------
\* The window as a queue, and the batch in flight.
QueueNow == [k \in 1 .. Current.unsynced_count |-> data[Position(Current, k - 1)]]
SentNow == IF pc \in {"upload", "mark"} THEN records ELSE <<>>

\* The queue's actions, of what the window stands for.
LEMMA QueueActions ==
    /\ Queue!Init <=> QueueNow = <<>> /\ SentNow = <<>> /\ delivered = {}
    /\ UNCHANGED <<QueueNow, SentNow, delivered>> => UNCHANGED Queue!vars
    /\ \A r \in Record :
          /\ r \notin delivered \union Queue!ToSet(QueueNow)
          /\ QueueNow' = Append(QueueNow, r)
          /\ UNCHANGED <<SentNow, delivered>>
          => Queue!Next
    /\ /\ SentNow = <<>> /\ QueueNow # <<>>
       /\ SentNow' = IF Len(QueueNow) <= BatchSize THEN QueueNow
                     ELSE SubSeq(QueueNow, 1, BatchSize)
       /\ UNCHANGED <<QueueNow, delivered>>
       => Queue!Next
    /\ /\ SentNow # <<>> /\ Queue!ToSet(SentNow) \intersect delivered = {}
       /\ delivered' = delivered \union Queue!ToSet(SentNow)
       /\ UNCHANGED <<QueueNow, SentNow>>
       => Queue!Next
    /\ /\ SentNow # <<>> /\ Queue!ToSet(SentNow) \subseteq delivered
       /\ QueueNow' = SubSeq(QueueNow, Len(SentNow) + 1, Len(QueueNow))
       /\ SentNow' = <<>> /\ UNCHANGED delivered
       => Queue!Next
    /\ /\ SentNow # <<>> /\ Queue!ToSet(SentNow) \intersect delivered = {}
       /\ SentNow' = <<>> /\ UNCHANGED <<QueueNow, delivered>>
       => Queue!Next
  BY DEF QueueNow, SentNow, Queue!Init, Queue!vars, Queue!Next, Queue!Put, Queue!Fetch,
         Queue!Confirm, Queue!Discard, Queue!Abandon

\* The slots of a window that fits into the ring, from its oldest one on.
LEMMA ScanPlaces ==
    ASSUME NEW h \in Header, h.unsynced_count <= MaxRecords,
           NEW k \in Nat, k < h.unsynced_count
    PROVE  /\ Position(h, k) \in Slot
           /\ Age(h, Position(h, k)) = h.unsynced_count - 1 - k
           /\ h.unsynced_count < MaxRecords => Position(h, k) # h.write_idx
  <1>1. /\ h.write_idx \in Nat /\ h.unsynced_count \in Nat /\ MaxRecords \in Nat
    BY HeaderParts
  <1>2. ~Wraps(h)
    BY <1>1 DEF Wraps
  <1>3. Position(h, k) \in Slot /\ Age(h, Position(h, k)) = h.unsynced_count - 1 - k
    <2>1. h.unsynced_count - 1 - k < MaxRecords
      BY <1>1
    <2> QED BY <1>2, <2>1, ScanOrder
  <1>4. h.unsynced_count < MaxRecords => Age(h, Position(h, k)) # Age(h, h.write_idx)
    <2>1. Age(h, h.write_idx) = MaxRecords - 1
      BY WriteSlotOldest
    <2> QED BY <1>1, <1>3, <2>1
  <1> QED BY <1>3, <1>4

\* A slot of the window is where its age says.
LEMMA PlaceOfAge ==
    ASSUME NEW h \in Header, h.unsynced_count <= MaxRecords,
           NEW k \in Nat, k < h.unsynced_count,
           NEW x \in Slot, Age(h, x) = h.unsynced_count - 1 - k
    PROVE  Position(h, k) = x
  BY ScanPlaces, AgeInjective

\* No slot is visited twice.
LEMMA PlacesDiffer ==
    ASSUME NEW h \in Header, h.unsynced_count <= MaxRecords,
           NEW k \in Nat, k < h.unsynced_count, NEW j \in Nat, j < h.unsynced_count,
           Position(h, k) = Position(h, j)
    PROVE  k = j
  <1>1. h.unsynced_count \in Nat
    BY HeaderParts
  <1>2. h.unsynced_count - 1 - k = h.unsynced_count - 1 - j
    BY ScanPlaces
  <1> QED BY <1>1, <1>2

\* An append adds a slot behind the others.
LEMMA PlacesAfterAppend ==
    ASSUME NumberInv, pc = "append", s_header.unsynced_count < MaxRecords
    PROVE  /\ Position(AppendedHeader, s_header.unsynced_count) = s_header.write_idx
           /\ \A k \in Nat : k < s_header.unsynced_count =>
                  Position(AppendedHeader, k) = Position(s_header, k)
  <1> DEFINE u == s_header.unsynced_count
             w == s_header.write_idx
  <1>1. /\ s_header \in Header /\ AppendedHeader \in Header
        /\ AppendedHeader.unsynced_count = u + 1 /\ Age(AppendedHeader, w) = 0
        /\ \A idx \in Slot \ {w} : Age(AppendedHeader, idx) = Age(s_header, idx) + 1
    BY HeaderAfterAppend
  <1>2. u \in Nat /\ MaxRecords \in Nat /\ w \in Slot /\ u + 1 <= MaxRecords
    BY <1>1, HeaderParts DEF Header
  <1>3. Position(AppendedHeader, u) = w
    BY <1>1, <1>2, PlaceOfAge
  <1>4. ASSUME NEW k \in Nat, k < u
        PROVE  Position(AppendedHeader, k) = Position(s_header, k)
    <2>1. /\ Position(s_header, k) \in Slot \ {w}
          /\ Age(s_header, Position(s_header, k)) = u - 1 - k
      BY <1>1, <1>2, <1>4, ScanPlaces
    <2>2. Age(AppendedHeader, Position(s_header, k)) = AppendedHeader.unsynced_count - 1 - k
      BY <1>1, <1>2, <2>1
    <2> QED BY <1>1, <1>2, <1>4, <2>1, <2>2, PlaceOfAge
  <1> QED BY <1>3, <1>4

\* Marking a batch takes slots from the front.
LEMMA PlacesAfterMark ==
    ASSUME NEW h \in Header, h.unsynced_count <= MaxRecords, NEW g \in Header,
           NEW m \in Nat, m <= h.unsynced_count,
           g.write_idx = h.write_idx, g.unsynced_count = h.unsynced_count - m,
           NEW k \in Nat, k < g.unsynced_count
    PROVE  Position(g, k) = Position(h, k + m)
  <1>1. h.unsynced_count \in Nat /\ g.unsynced_count \in Nat /\ MaxRecords \in Nat
    BY HeaderParts
  <1>2. k + m \in Nat /\ k + m < h.unsynced_count /\ g.unsynced_count <= MaxRecords
    BY <1>1
  <1>3. /\ Position(h, k + m) \in Slot
        /\ Age(h, Position(h, k + m)) = h.unsynced_count - 1 - (k + m)
    BY <1>2, ScanPlaces
  <1>4. \A x \in Slot : Age(g, x) = Age(h, x)
    BY DEF Age
  <1>5. Age(g, Position(h, k + m)) = g.unsynced_count - 1 - k
    BY <1>1, <1>3, <1>4
  <1> QED BY <1>2, <1>3, <1>5, PlaceOfAge

\* The window of a header as a queue: later and later records, those from place
\* a on not delivered, those from place b on not flagged.
Lined(h, d, flags, done, a, b) ==
    /\ h \in Header /\ h.unsynced_count <= MaxRecords
    /\ \A k \in Nat : k < h.unsynced_count =>
          /\ d[Position(h, k)] \in Record
          /\ k >= a => d[Position(h, k)] \notin done
          /\ k >= b => ~flags[Position(h, k)]
    /\ \A k, j \in Nat : k < j /\ j < h.unsynced_count =>
          d[Position(h, k)] < d[Position(h, j)]

\* A batch is what the window begins with.
Taken(h, d, batch) ==
    /\ Len(batch) <= h.unsynced_count /\ Len(batch) <= BatchSize
    /\ \A k \in Nat : k < Len(batch) => batch[k + 1] = d[Position(h, k)]

\* Without a fault but resets outside mark_synced: the copy of the header in the
\* file is that in RAM, the window is a queue, and the batch its head.
QueueInv ==
    /\ NumberInv
    /\ pc # "off" => file = s_header
    /\ Lined(Current, data, synced, delivered,
             IF pc = "mark" THEN Len(records) ELSE 0, IF pc = "mark" THEN i ELSE 0)
    /\ pc = "append" => /\ s_header.unsynced_count < MaxRecords
                        /\ made \notin delivered /\ ~synced[s_header.write_idx]
    /\ \A r \in delivered : r <= made
    /\ pc \in {"read", "upload", "mark"} => Taken(s_header, data, records)
    /\ pc = "read" => i = Len(records)
    /\ pc \in {"upload", "mark"} =>
           Len(records) = s_header.unsynced_count \/ Len(records) = BatchSize
    /\ pc = "mark" => /\ Len(records) > 0 /\ marked = i /\ i <= Len(records)
                      /\ \A k \in 1 .. Len(records) : records[k] \in delivered

\* What is known at all times, written out.
LEMMA QueueFacts ==
    ASSUME QueueInv
    PROVE  /\ TypeOK /\ Current \in Header /\ Current.unsynced_count \in Nat
           /\ s_header \in Header /\ s_header.write_idx \in Slot
           /\ s_header.unsynced_count \in Nat
           /\ MaxRecords \in Nat \ {0} /\ BatchSize \in Nat \ {0}
           /\ made \in Nat /\ i \in Nat /\ marked \in Nat
           /\ records \in Seq(Record) /\ Len(records) \in Nat
           /\ delivered \subseteq Nat
           /\ pc # "off" => Current = s_header /\ file = s_header
           /\ Current = IF file = NoHeader THEN FreshHeader ELSE file
  <1>1. TypeOK /\ Current \in Header /\ s_header \in Header /\ s_header.write_idx \in Slot
    BY RecordFacts DEF QueueInv, Lined
  <1>2. /\ made \in Nat /\ i \in Nat /\ marked \in Nat /\ records \in Seq(Record)
        /\ Len(records) \in Nat /\ delivered \subseteq Nat
    BY <1>1, RecordFacts DEF TypeOK, Record, QueueInv
  <1>3. /\ pc # "off" => Current = s_header /\ file = s_header
        /\ Current = IF file = NoHeader THEN FreshHeader ELSE file
    <2>1. file = NoHeader => pc = "off"
      BY DEF QueueInv, NumberInv
    <2> QED BY <2>1 DEF QueueInv, Current
  <1> QED BY <1>1, <1>2, <1>3, HeaderParts, CapacityAssumption

\* The queue stays as it is when the window and what is in it do.
LEMMA QueueUnmoved ==
    ASSUME QueueInv, Current' = Current,
           \A k \in Nat : k < Current.unsynced_count =>
               data'[Position(Current, k)] = data[Position(Current, k)]
    PROVE  QueueNow' = QueueNow
  <1>1. PICK h : h = Current /\ h = Current'
    OBVIOUS
  <1>2. PICK u \in Nat : u = h.unsynced_count
    BY <1>1, QueueFacts
  <1>3. \A k \in 1 .. u : data'[Position(h, k - 1)] = data[Position(h, k - 1)]
    <2>1. \A k \in 1 .. u : k - 1 \in Nat /\ k - 1 < u
      BY <1>2
    <2> QED BY <1>1, <1>2, <2>1
  <1>4. QueueNow = [k \in 1 .. u |-> data[Position(h, k - 1)]]
    BY <1>1, <1>2 DEF QueueNow
  <1>5. QueueNow' = [k \in 1 .. u |-> data'[Position(h, k - 1)]]
    BY <1>1, <1>2 DEF QueueNow
  <1> QED BY <1>3, <1>4, <1>5

\* Where nothing is appended, delivered or marked the queue does not move.
LEMMA QueueRests ==
    ASSUME QueueInv, NumberInv', Current' = Current, UNCHANGED <<data, synced, delivered>>,
           made' >= made, pc # "mark", pc' # "mark"
    PROVE  /\ QueueNow' = QueueNow
           /\ Lined(Current', data', synced', delivered', 0, 0)
           /\ \A r \in delivered' : r <= made'
  <1>1. QueueNow' = QueueNow
    BY QueueUnmoved
  <1>2. Lined(Current', data', synced', delivered', 0, 0)
    BY DEF QueueInv
  <1>3. \A r \in delivered' : r <= made'
    <2>1. made' \in Nat /\ made \in Nat /\ delivered \subseteq Nat
      BY SMTT(30), QueueFacts DEF NumberInv, TypeInv, TypeOK, Record
    <2> QED BY <2>1 DEF QueueInv
  <1> QED BY <1>1, <1>2, <1>3

\* A step of the storage code, as one of the queue.
QueueFollows == QueueInv' /\ (Queue!Next \/ UNCHANGED Queue!vars)

\* The board boots.
LEMMA QueueBoot ==
    ASSUME QueueInv, NumberInv', Faults \subseteq {"reset"}, Boot
    PROVE  QueueFollows
  <1>1. /\ pc = "off" /\ pc' = "idle" /\ file' = s_header' /\ delivered' = delivered
        /\ made' = made /\ records' = records
        /\ \/ /\ file = NoHeader /\ s_header' = FreshHeader
           \/ /\ file # NoHeader /\ s_header' = [file EXCEPT !.write_idx = @ % MaxRecords]
              /\ UNCHANGED <<data, synced>>
    BY DEF Boot
  <1>2. Current' = s_header' /\ SentNow' = SentNow
    BY <1>1 DEF Current, SentNow
  <1>3. Current' = Current /\ (file # NoHeader => UNCHANGED <<data, synced>>)
    <2>1. file # NoHeader => file \in Header
      BY QueueFacts DEF TypeOK
    <2> QED BY <1>1, <1>2, <2>1, QueueFacts, HeaderAtBoot
  <1>4. file = NoHeader => Current.unsynced_count = 0
    BY QueueFacts DEF FreshHeader
  <1>5. /\ QueueNow' = QueueNow
        /\ Lined(Current', data', synced', delivered', 0, 0)
        /\ \A r \in delivered' : r <= made'
    <2>1. CASE file = NoHeader
      <3>1. QueueNow' = QueueNow
        BY <1>3, <1>4, <2>1, QueueUnmoved
      <3>2. Lined(Current', data', synced', delivered', 0, 0)
        BY <1>3, <1>4, <2>1, QueueFacts DEF Lined
      <3> QED BY <1>1, <3>1, <3>2 DEF QueueInv
    <2>2. CASE file # NoHeader
      <3>1. made' >= made
        BY <1>1, QueueFacts
      <3> QED BY <1>1, <1>3, <2>2, <3>1, QueueRests
    <2> QED BY <2>1, <2>2
  <1>6. QueueInv'
    BY <1>1, <1>5 DEF QueueInv
  <1> QED BY <1>1, <1>2, <1>5, <1>6, QueueActions DEF QueueFollows

\* A record is written behind the window, or nothing is.
LEMMA QueueWrite ==
    ASSUME QueueInv, NumberInv', Faults \subseteq {"reset"}, AppendRecord
    PROVE  QueueFollows
  <1> DEFINE w == s_header.write_idx
             u == s_header.unsynced_count
  <1>1. /\ pc = "idle" /\ pc' = "append" /\ u < MaxRecords /\ made' = made + 1
        /\ data' = [data EXCEPT ![w] = made + 1] /\ synced' = [synced EXCEPT ![w] = FALSE]
        /\ s_header' = s_header /\ file' = file /\ delivered' = delivered
        /\ records' = records
    BY DEF AppendRecord
  <1>2. Current = s_header /\ Current' = s_header /\ file' = s_header' /\ SentNow' = SentNow
    BY <1>1, QueueFacts DEF Current, SentNow
  <1>3. \A k \in Nat : k < u => /\ Position(s_header, k) # w
                                /\ Position(s_header, k) \in Slot
    BY SMTT(30), <1>1, <1>2, QueueFacts, ScanPlaces
  <1>4. \A k \in Nat : k < u => /\ data'[Position(s_header, k)] = data[Position(s_header, k)]
                                /\ synced'[Position(s_header, k)]
                                     = synced[Position(s_header, k)]
    BY <1>1, <1>3, QueueFacts DEF TypeOK
  <1>5. QueueNow' = QueueNow
    BY <1>2, <1>4, QueueUnmoved
  <1>6. Lined(Current', data', synced', delivered', 0, 0)
    <2>1. Lined(s_header, data, synced, delivered, 0, 0)
      BY <1>1, <1>2 DEF QueueInv
    <2>2. \A k, j \in Nat : k < j /\ j < u =>
              data'[Position(s_header, k)] < data'[Position(s_header, j)]
      <3>1. \A k, j \in Nat : k < j /\ j < u => k < u
        BY QueueFacts
      <3> QED BY <1>4, <2>1, <3>1 DEF Lined
    <2>3. \A k \in Nat : k < u =>
              /\ data'[Position(s_header, k)] \in Record
              /\ k >= 0 => data'[Position(s_header, k)] \notin delivered
              /\ k >= 0 => ~synced'[Position(s_header, k)]
      BY <1>4, <2>1 DEF Lined
    <2> QED BY <1>1, <1>2, <2>1, <2>2, <2>3 DEF Lined
  <1>7. /\ made' \notin delivered' /\ \A r \in delivered' : r <= made'
        /\ ~synced'[w]
    BY <1>1, QueueFacts DEF QueueInv, TypeOK
  <1>8. QueueInv'
    BY <1>1, <1>2, <1>6, <1>7 DEF QueueInv
  <1> QED BY <1>1, <1>2, <1>5, <1>8, QueueActions DEF QueueFollows

\* The record is counted: it is put in the queue.
LEMMA QueuePut ==
    ASSUME QueueInv, NumberInv', Faults \subseteq {"reset"}, AppendHeader
    PROVE  QueueFollows
  <1>1. /\ pc = "append" /\ pc' = "idle" /\ s_header' = AppendedHeader /\ file' = s_header'
        /\ data' = data /\ synced' = synced /\ made' = made /\ delivered' = delivered
    BY DEF AppendHeader
  <1>2. PICK u \in Nat : u = s_header.unsynced_count
    BY QueueFacts
  <1>3. PICK w \in Slot : w = s_header.write_idx
    BY QueueFacts
  <1>4. PICK h : h = s_header
    OBVIOUS
  <1>5. PICK g : g = AppendedHeader
    OBVIOUS
  <1>6. /\ Current = h /\ Current' = g /\ SentNow' = SentNow /\ SentNow = <<>>
    BY <1>1, <1>4, <1>5, QueueFacts DEF Current, SentNow
  <1>7. /\ u < MaxRecords /\ made \notin delivered /\ NumberInv
        /\ made \in Record /\ data[w] = made
        /\ \A idx \in Slot \ {w} : data[idx] < made
        /\ ~synced[w]
    <2>1. made \in Record
      BY <1>1 DEF QueueInv, NumberInv, TypeInv
    <2> QED BY <1>1, <1>2, <1>3, <2>1 DEF QueueInv, NumberInv
  <1>8. /\ g \in Header /\ g.unsynced_count = u + 1 /\ Position(g, u) = w
        /\ \A k \in Nat : k < u => Position(g, k) = Position(h, k)
    BY <1>1, <1>2, <1>3, <1>4, <1>5, <1>7, HeaderAfterAppend, PlacesAfterAppend
  <1>9. Lined(h, data, synced, delivered, 0, 0)
    BY <1>1, <1>6 DEF QueueInv
  <1>10. \A k \in Nat : k < u => Position(h, k) \in Slot /\ Position(h, k) # w
    BY <1>2, <1>3, <1>4, <1>7, <1>9, ScanPlaces DEF Lined
  <1>11. \A k \in Nat : k < u + 1 => k < u \/ k = u
    OBVIOUS
  <1>12. Lined(g, data, synced, delivered, 0, 0)
    <2>1. u + 1 <= MaxRecords
      BY <1>7, QueueFacts
    <2>2. \A k \in Nat : k < u + 1 =>
              /\ data[Position(g, k)] \in Record
              /\ k >= 0 => data[Position(g, k)] \notin delivered
              /\ k >= 0 => ~synced[Position(g, k)]
      BY <1>2, <1>4, <1>7, <1>8, <1>9, <1>11 DEF Lined
    <2>3. ASSUME NEW k \in Nat, NEW j \in Nat, k < j, j < u + 1
          PROVE  data[Position(g, k)] < data[Position(g, j)]
      <3>1. CASE j < u
        <4>1. k < u
          BY <2>3, <3>1
        <4>2. data[Position(h, k)] < data[Position(h, j)]
          BY <1>2, <1>4, <1>9, <2>3, <3>1 DEF Lined
        <4> QED BY <1>8, <3>1, <4>1, <4>2
      <3>2. CASE j = u
        <4>1. k < u
          BY <2>3, <3>2
        <4> QED BY <1>7, <1>8, <1>10, <3>2, <4>1
      <3> QED BY <1>11, <2>3, <3>1, <3>2
    <2> QED BY <1>8, <2>1, <2>2, <2>3 DEF Lined
  <1>13. /\ QueueNow' = Append(QueueNow, made)
         /\ made \notin delivered \union Queue!ToSet(QueueNow)
    <2>1. QueueNow = [k \in 1 .. u |-> data[Position(h, k - 1)]]
      BY <1>2, <1>4, <1>6 DEF QueueNow
    <2>2. QueueNow' = [k \in 1 .. u + 1 |-> data[Position(g, k - 1)]]
      BY <1>1, <1>6, <1>8 DEF QueueNow
    <2>3. \A k \in 1 .. u : k - 1 \in Nat /\ k - 1 < u
      OBVIOUS
    <2>4. \A k \in 1 .. u + 1 : data[Position(g, k - 1)] =
              IF k = u + 1 THEN made ELSE data[Position(h, k - 1)]
      <3>1. \A k \in 1 .. u + 1 : k \in 1 .. u \/ k = u + 1
        OBVIOUS
      <3>2. u + 1 - 1 = u
        OBVIOUS
      <3> QED BY <1>7, <1>8, <2>3, <3>1, <3>2
    <2>5. Append(QueueNow, made) = [k \in 1 .. u + 1 |->
              IF k = u + 1 THEN made ELSE data[Position(h, k - 1)]]
      <3> DEFINE q(k) == data[Position(h, k - 1)]
      <3> HIDE DEF q
      <3>1. Append([k \in 1 .. u |-> q(k)], made)
                = [k \in 1 .. u + 1 |-> IF k = u + 1 THEN made ELSE q(k)]
        OBVIOUS
      <3> QED BY <2>1, <3>1 DEF q
    <2>6. QueueNow' = Append(QueueNow, made)
      BY <2>2, <2>4, <2>5
    <2>7. made \notin Queue!ToSet(QueueNow)
      <3>1. \A k \in 1 .. u : data[Position(h, k - 1)] # made
        BY <1>7, <1>10, <2>3, QueueFacts DEF TypeOK, Record
      <3>2. Queue!ToSet(QueueNow) = {data[Position(h, k - 1)] : k \in 1 .. u}
        BY <2>1 DEF Queue!ToSet
      <3> QED BY <3>1, <3>2
    <2> QED BY <1>7, <2>6, <2>7
  <1>14. QueueInv'
    BY <1>1, <1>5, <1>6, <1>12 DEF QueueInv
  <1> QED BY <1>1, <1>6, <1>7, <1>13, <1>14, QueueActions DEF QueueFollows

\* The batch as the head of the queue.
LEMMA BatchIsHead ==
    ASSUME QueueInv, pc \in {"read", "upload", "mark"}
    PROVE  /\ QueueNow = [k \in 1 .. s_header.unsynced_count |->
                             data[Position(s_header, k - 1)]]
           /\ Len(QueueNow) = s_header.unsynced_count
           /\ Len(records) <= s_header.unsynced_count /\ Len(records) <= BatchSize
           /\ \A k \in 1 .. Len(records) : records[k] = data[Position(s_header, k - 1)]
           /\ Queue!ToSet(records) = BatchSet
  <1>1. Current = s_header /\ s_header.unsynced_count \in Nat /\ Len(records) \in Nat
        /\ records \in Seq(Record)
    BY QueueFacts
  <1>2. QueueNow = [k \in 1 .. s_header.unsynced_count |-> data[Position(s_header, k - 1)]]
    BY <1>1 DEF QueueNow
  <1>3. Len(QueueNow) = s_header.unsynced_count
    BY <1>1, <1>2
  <1>4. Taken(s_header, data, records)
    BY DEF QueueInv
  <1>5. ASSUME NEW k \in 1 .. Len(records)
        PROVE  records[k] = data[Position(s_header, k - 1)]
    <2>1. PICK j \in Nat : j = k - 1 /\ j < Len(records) /\ j + 1 = k
      BY <1>1
    <2> QED BY <1>4, <2>1 DEF Taken
  <1>6. Queue!ToSet(records) = BatchSet
    BY <1>1 DEF Queue!ToSet, BatchSet
  <1> QED BY <1>2, <1>3, <1>4, <1>5, <1>6 DEF Taken

\* Reading begins.
LEMMA QueueRead ==
    ASSUME QueueInv, NumberInv', Faults \subseteq {"reset"}, ReadBegin
    PROVE  QueueFollows
  <1>1. /\ pc = "idle" /\ pc' = "read" /\ records' = <<>> /\ i' = 0
        /\ UNCHANGED <<data, synced, file, s_header, made, delivered>>
    BY DEF ReadBegin, ring
  <1>2. Current' = Current /\ SentNow' = SentNow
    BY <1>1 DEF Current, SentNow
  <1>3. /\ QueueNow' = QueueNow /\ Lined(Current', data', synced', delivered', 0, 0)
        /\ \A r \in delivered' : r <= made'
    <2>1. made' >= made
      BY <1>1, QueueFacts
    <2> QED BY <1>1, <1>2, <2>1, QueueRests
  <1>4. Taken(s_header', data', records')
    <2>1. Len(records') = 0
      BY <1>1
    <2> QED BY <1>1, <2>1, QueueFacts DEF Taken
  <1>5. QueueInv'
    <2>1. i' = Len(records')
      BY <1>1
    <2> QED BY <1>1, <1>3, <1>4, <2>1, QueueFacts DEF QueueInv
  <1> QED BY <1>1, <1>2, <1>3, <1>5, QueueActions DEF QueueFollows

\* The next record is read.
LEMMA QueueReadSlot ==
    ASSUME QueueInv, NumberInv', Faults \subseteq {"reset"}, ReadSlot
    PROVE  QueueFollows
  <1>0. /\ pc = "read" /\ pc' = pc /\ i' = i + 1
        /\ i < s_header.unsynced_count /\ Len(records) < BatchSize
        /\ UNCHANGED <<data, synced, file, s_header, made, delivered>>
        /\ records' = IF Unsynced(Position(s_header, i))
                      THEN Append(records, data[Position(s_header, i)]) ELSE records
    BY DEF ReadSlot, ReadMore, ring
  <1>1. Current = s_header /\ Current' = Current /\ SentNow' = SentNow
    BY <1>0, QueueFacts DEF Current, SentNow
  <1>2. /\ QueueNow' = QueueNow /\ Lined(Current', data', synced', delivered', 0, 0)
        /\ \A r \in delivered' : r <= made'
    <2>1. made' >= made
      BY <1>0, QueueFacts
    <2> QED BY <1>0, <1>1, <2>1, QueueRests
  <1>3. PICK r \in Record : r = data[Position(s_header, i)] /\ records' = Append(records, r)
    <2>1. Lined(s_header, data, synced, delivered, 0, 0)
      BY <1>0, <1>1 DEF QueueInv
    <2>2. /\ data[Position(s_header, i)] \in Record /\ ~synced[Position(s_header, i)]
      BY <1>0, <2>1, QueueFacts DEF Lined
    <2>3. Unsynced(Position(s_header, i))
      BY <2>2 DEF Unsynced, Record
    <2> QED BY <1>0, <2>2, <2>3
  <1>4. /\ i = Len(records) /\ Taken(s_header, data, records)
    BY <1>0 DEF QueueInv
  <1>5. /\ Len(records') = Len(records) + 1
        /\ \A k \in 1 .. Len(records) : records'[k] = records[k]
        /\ records'[Len(records) + 1] = r
    BY <1>3, QueueFacts
  <1>6. Taken(s_header', data', records')
    <2>1. /\ Len(records') <= s_header.unsynced_count /\ Len(records') <= BatchSize
      BY <1>0, <1>4, <1>5, QueueFacts
    <2>2. ASSUME NEW k \in Nat, k < Len(records')
          PROVE  records'[k + 1] = data[Position(s_header, k)]
      <3>1. CASE k < Len(records)
        <4>1. k + 1 \in 1 .. Len(records)
          BY <3>1, QueueFacts
        <4> QED BY <1>4, <1>5, <3>1, <4>1 DEF Taken
      <3>2. CASE k = Len(records)
        BY <1>3, <1>4, <1>5, <3>2
      <3> QED BY <1>5, <2>2, <3>1, <3>2, QueueFacts
    <2> QED BY <1>0, <2>1, <2>2 DEF Taken
  <1>7. QueueInv'
    <2>1. i' = Len(records')
      BY <1>0, <1>4, <1>5
    <2> QED BY <1>0, <1>1, <1>2, <1>6, <2>1, QueueFacts DEF QueueInv
  <1> QED BY <1>0, <1>1, <1>2, <1>7, QueueActions DEF QueueFollows

\* The batch is complete: it is fetched, unless it is empty.
LEMMA QueueFetch ==
    ASSUME QueueInv, NumberInv', Faults \subseteq {"reset"}, ReadDone
    PROVE  QueueFollows
  <1>0. /\ pc = "read" /\ pc' = "upload"
        /\ ~(i < s_header.unsynced_count /\ Len(records) < BatchSize)
        /\ UNCHANGED <<data, synced, file, s_header, made, delivered, records, i>>
    BY DEF ReadDone, ReadMore, ring, history
  <1>1. Current = s_header /\ Current' = Current /\ SentNow = <<>> /\ SentNow' = records
    BY <1>0, QueueFacts DEF Current, SentNow
  <1>2. /\ QueueNow' = QueueNow /\ Lined(Current', data', synced', delivered', 0, 0)
        /\ \A r \in delivered' : r <= made'
    <2>1. made' >= made
      BY <1>0, QueueFacts
    <2> QED BY <1>0, <1>1, <2>1, QueueRests
  <1>3. PICK u \in Nat : u = s_header.unsynced_count
    BY QueueFacts
  <1>4. PICK n \in Nat : n = Len(records)
    BY QueueFacts
  <1>5. /\ QueueNow = [k \in 1 .. u |-> data[Position(s_header, k - 1)]]
        /\ Len(QueueNow) = u /\ n <= u /\ n <= BatchSize
        /\ \A k \in 1 .. n : records[k] = data[Position(s_header, k - 1)]
    BY <1>0, <1>3, <1>4, BatchIsHead
  <1>6. n = u \/ n = BatchSize
    <2>1. i = n
      BY <1>0, <1>4 DEF QueueInv
    <2> QED BY <1>0, <1>3, <1>4, <1>5, <2>1, QueueFacts
  <1>7. records = [k \in 1 .. n |-> data[Position(s_header, k - 1)]]
    <2>1. records = [k \in 1 .. n |-> records[k]]
      BY <1>4, QueueFacts
    <2> QED BY <1>5, <2>1
  <1>8. records = IF u <= BatchSize THEN QueueNow ELSE SubSeq(QueueNow, 1, BatchSize)
    <2>1. CASE n = u
      <3>1. records = QueueNow
        BY <1>5, <1>7, <2>1
      <3> QED BY <1>5, <2>1, <3>1, QueueFacts
    <2>2. CASE n = BatchSize /\ n # u
      <3>1. ~(u <= BatchSize) /\ n <= u
        BY <1>5, <2>2, QueueFacts
      <3>2. SubSeq(QueueNow, 1, n) = [k \in 1 .. n |-> QueueNow[k]]
        BY <1>5
      <3>3. \A k \in 1 .. n : QueueNow[k] = data[Position(s_header, k - 1)]
        <4>1. \A k \in 1 .. n : k \in 1 .. u
          BY <3>1
        <4> QED BY <1>5, <4>1
      <3>4. SubSeq(QueueNow, 1, n) = records
        BY <1>7, <3>2, <3>3
      <3> QED BY <2>2, <3>1, <3>4
    <2> QED BY <1>6, <2>1, <2>2
  <1>9. QueueInv'
    <2>1. Taken(s_header', data', records')
      BY <1>0 DEF QueueInv
    <2> QED BY <1>0, <1>1, <1>2, <1>3, <1>4, <1>6, <2>1, QueueFacts DEF QueueInv
  <1>10. CASE QueueNow = <<>>
    <2>1. u = 0 /\ n = u
      BY <1>5, <1>10
    <2>2. records = <<>>
      BY <1>5, <1>7, <1>10, <2>1
    <2> QED BY <1>0, <1>1, <1>2, <1>9, <2>2, QueueActions DEF QueueFollows
  <1>11. CASE QueueNow # <<>>
    <2>1. SentNow' = IF Len(QueueNow) <= BatchSize THEN QueueNow
                     ELSE SubSeq(QueueNow, 1, BatchSize)
      BY <1>1, <1>5, <1>8
    <2>2. Queue!Next
      BY <1>0, <1>1, <1>2, <1>11, <2>1, QueueActions
    <2> QED BY <1>9, <2>2 DEF QueueFollows
  <1> QED BY <1>10, <1>11

\* The batch in flight holds records that were not delivered.
LEMMA BatchIsNew ==
    ASSUME QueueInv, pc = "upload"
    PROVE  /\ SentNow = records /\ Queue!ToSet(records) = BatchSet
           /\ BatchSet \intersect delivered = {}
           /\ \A r \in BatchSet : r <= made
           /\ records # <<>> => Len(records) > 0
           /\ \A k \in Nat : k >= Len(records) /\ k < s_header.unsynced_count =>
                  data[Position(s_header, k)] \notin BatchSet
  <1>1. PICK u \in Nat : u = s_header.unsynced_count
    BY QueueFacts
  <1>2. PICK n \in Nat : n = Len(records)
    BY QueueFacts
  <1>3. /\ n <= u /\ Queue!ToSet(records) = BatchSet
        /\ \A k \in 1 .. n : records[k] = data[Position(s_header, k - 1)]
    BY <1>1, <1>2, BatchIsHead
  <1>4. Lined(s_header, data, synced, delivered, 0, 0)
    BY QueueFacts DEF QueueInv
  <1>5. ASSUME NEW r \in BatchSet
        PROVE  \E j \in Nat : j < n /\ r = data[Position(s_header, j)]
    <2>1. PICK k \in 1 .. n : r = records[k]
      BY <1>2 DEF BatchSet
    <2>2. k - 1 \in Nat /\ k - 1 < n
      OBVIOUS
    <2> QED BY <1>3, <2>1, <2>2
  <1>6. ASSUME NEW r \in BatchSet
        PROVE  r \notin delivered /\ r <= made
    <2>1. PICK j \in Nat : j < n /\ r = data[Position(s_header, j)]
      BY <1>5
    <2>2. j < u /\ j >= 0
      BY <1>3, <2>1
    <2>3. Position(s_header, j) \in Slot
      BY QueueFacts, PositionInRing
    <2> QED BY <1>1, <1>4, <2>1, <2>2, <2>3 DEF Lined, QueueInv, NumberInv
  <1>7. ASSUME NEW k \in Nat, k >= n, k < u
        PROVE  data[Position(s_header, k)] \notin BatchSet
    <2> SUFFICES ASSUME data[Position(s_header, k)] \in BatchSet PROVE FALSE
      OBVIOUS
    <2>1. PICK j \in Nat : j < n /\ data[Position(s_header, k)] = data[Position(s_header, j)]
      BY <1>5
    <2>2. j < k
      BY <1>7, <2>1
    <2>3. data[Position(s_header, j)] < data[Position(s_header, k)]
      BY <1>1, <1>4, <1>7, <2>2 DEF Lined
    <2>4. data[Position(s_header, j)] \in Nat /\ data[Position(s_header, k)] \in Nat
      BY <2>1, QueueFacts, PositionInRing, RecordFacts DEF QueueInv
    <2> QED BY <2>1, <2>3, <2>4
  <1>8. records # <<>> => n > 0
    BY <1>2, QueueFacts
  <1> QED BY <1>1, <1>2, <1>3, <1>6, <1>7, <1>8 DEF SentNow

\* The server has the batch: it is confirmed, unless it is empty.
LEMMA QueueConfirm ==
    ASSUME QueueInv, NumberInv', Faults \subseteq {"reset"}, UploadOk
    PROVE  QueueFollows
  <1>0. /\ pc = "upload" /\ delivered' = delivered \union BatchSet
        /\ i' = 0 /\ marked' = 0 /\ pc' = IF records = <<>> THEN "idle" ELSE "mark"
        /\ UNCHANGED <<data, synced, file, s_header, made, records>>
    BY DEF UploadOk, ring
  <1>1. Current = s_header /\ Current' = Current /\ Lined(s_header, data, synced, delivered, 0, 0)
    BY <1>0, QueueFacts DEF Current, QueueInv
  <1>2. QueueNow' = QueueNow
    BY <1>0, <1>1, QueueUnmoved
  <1>3. \A r \in delivered' : r <= made'
    BY <1>0, BatchIsNew DEF QueueInv
  <1>4. CASE records = <<>>
    <2>1. delivered' = delivered
      BY <1>0, <1>4 DEF BatchSet
    <2>2. SentNow' = SentNow
      BY <1>0, <1>4 DEF SentNow
    <2>3. Lined(Current', data', synced', delivered', 0, 0)
      BY <1>0, <1>1, <2>1
    <2>4. QueueInv'
      BY <1>0, <1>1, <1>3, <1>4, <2>3, QueueFacts DEF QueueInv
    <2> QED BY <1>2, <2>1, <2>2, <2>4, QueueActions DEF QueueFollows
  <1>5. CASE records # <<>>
    <2>1. SentNow' = records /\ pc' = "mark"
      BY <1>0, <1>5 DEF SentNow
    <2>2. Queue!Next
      BY <1>0, <1>2, <1>5, <2>1, BatchIsNew, QueueActions
    <2>3. Lined(Current', data', synced', delivered', Len(records'), i')
      <3>1. \A k \in Nat : k < s_header.unsynced_count /\ k >= Len(records) =>
                data[Position(s_header, k)] \notin delivered'
        BY <1>0, <1>1, BatchIsNew DEF Lined
      <3> QED BY <1>0, <1>1, <3>1 DEF Lined
    <2>4. /\ Taken(s_header', data', records')
          /\ Len(records') = s_header'.unsynced_count \/ Len(records') = BatchSize
          /\ Len(records') > 0 /\ marked' = i' /\ i' <= Len(records')
      BY <1>0, <1>5, BatchIsNew DEF QueueInv
    <2>5. \A k \in 1 .. Len(records') : records'[k] \in delivered'
      BY <1>0 DEF BatchSet
    <2>6. file' = s_header'
      BY <1>0, <1>1, QueueFacts
    <2>7. QueueInv'
      BY <1>3, <2>1, <2>3, <2>4, <2>5, <2>6 DEF QueueInv
    <2> QED BY <2>2, <2>7 DEF QueueFollows
  <1> QED BY <1>4, <1>5

\* The batch is given up.
LEMMA QueueAbandon ==
    ASSUME QueueInv, NumberInv', Faults \subseteq {"reset"}, UploadFails
    PROVE  QueueFollows
  <1>0. /\ pc = "upload" /\ pc' = "idle"
        /\ UNCHANGED <<data, synced, file, s_header, made, delivered, records>>
    BY DEF UploadFails, ring, history
  <1>1. Current = s_header /\ Current' = Current /\ SentNow' = <<>>
    BY <1>0, QueueFacts DEF Current, SentNow
  <1>2. /\ QueueNow' = QueueNow /\ Lined(Current', data', synced', delivered', 0, 0)
        /\ \A r \in delivered' : r <= made'
    <2>1. made' >= made
      BY <1>0, QueueFacts
    <2> QED BY <1>0, <1>1, <2>1, QueueRests
  <1>3. QueueInv'
    BY <1>0, <1>1, <1>2, QueueFacts DEF QueueInv
  <1>4. Queue!Next \/ UNCHANGED Queue!vars
    BY <1>0, <1>1, <1>2, BatchIsNew, QueueActions
  <1> QED BY <1>3, <1>4 DEF QueueFollows

\* A flag is set.
LEMMA QueueMark ==
    ASSUME QueueInv, NumberInv', Faults \subseteq {"reset"}, MarkSlot
    PROVE  QueueFollows
  <1> DEFINE x == Position(s_header, i)
  <1>0. /\ pc = "mark" /\ pc' = pc /\ i < Len(records) /\ i < s_header.unsynced_count
        /\ i' = i + 1
        /\ UNCHANGED <<data, s_header, file, records, made, delivered>>
        /\ \/ Unsynced(x) /\ synced' = [synced EXCEPT ![x] = TRUE] /\ marked' = marked + 1
           \/ ~Unsynced(x)
    BY DEF MarkSlot, MarkMore
  <1>1. /\ Current = s_header /\ Current' = Current /\ SentNow' = SentNow
        /\ Lined(s_header, data, synced, delivered, Len(records), i)
    BY <1>0, QueueFacts DEF Current, SentNow, QueueInv
  <1>2. /\ i \in Nat /\ s_header.unsynced_count \in Nat /\ s_header \in Header
        /\ synced \in [Slot -> BOOLEAN] /\ marked = i
    BY <1>0, QueueFacts DEF TypeOK, QueueInv
  <1>3. synced' = [synced EXCEPT ![x] = TRUE] /\ marked' = i'
    <2>1. Unsynced(x)
      BY <1>0, <1>1, <1>2 DEF Lined, Unsynced, Record
    <2> QED BY <1>0, <1>2, <2>1
  <1>4. QueueNow' = QueueNow
    BY <1>0, <1>1, QueueUnmoved
  <1>5. Lined(s_header, data, synced', delivered, Len(records), i')
    <2>1. ASSUME NEW k \in Nat, k < s_header.unsynced_count, k >= i'
          PROVE  ~synced'[Position(s_header, k)]
      <3>1. k >= i /\ k # i
        BY <1>0, <1>2, <2>1
      <3>2. Position(s_header, k) # x
        BY <1>0, <1>1, <1>2, <2>1, <3>1, PlacesDiffer DEF Lined
      <3>3. ~synced[Position(s_header, k)] /\ Position(s_header, k) \in Slot
        BY <1>1, <1>2, <2>1, <3>1, PositionInRing DEF Lined
      <3> QED BY <1>2, <1>3, <3>2, <3>3
    <2>2. \A k \in Nat : k < s_header.unsynced_count /\ k >= i' =>
              ~synced'[Position(s_header, k)]
      BY <2>1
    <2> HIDE DEF x
    <2> QED BY <1>1, <2>2 DEF Lined
  <1>6. QueueInv'
    <2>1. /\ Taken(s_header', data', records')
          /\ Len(records') = s_header'.unsynced_count \/ Len(records') = BatchSize
          /\ Len(records') > 0 /\ i' <= Len(records')
          /\ \A k \in 1 .. Len(records') : records'[k] \in delivered'
          /\ file' = s_header' /\ \A r \in delivered' : r <= made'
      BY <1>0, <1>2, QueueFacts DEF QueueInv
    <2>2. Lined(Current', data', synced', delivered', Len(records'), i')
      BY <1>0, <1>1, <1>5
    <2> QED BY <1>0, <1>3, <2>1, <2>2 DEF QueueInv
  <1> QED BY <1>0, <1>1, <1>4, <1>6, QueueActions DEF QueueFollows

\* The header is written: the batch is discarded.
LEMMA QueueDiscard ==
    ASSUME QueueInv, NumberInv', Faults \subseteq {"reset"}, MarkHeader
    PROVE  QueueFollows
  <1>1. PICK h : h = s_header
    OBVIOUS
  <1>2. PICK g : g = s_header'
    OBVIOUS
  <1>3. PICK u \in Nat : u = h.unsynced_count
    BY <1>1, QueueFacts
  <1>4. PICK n \in Nat : n = Len(records)
    BY QueueFacts
  <1>5. /\ pc = "mark" /\ pc' = "idle" /\ ~(i < n /\ i < u)
        /\ g = [h EXCEPT !.unsynced_count = Remaining]
        /\ file' = IF marked > 0 THEN g ELSE file
        /\ UNCHANGED <<data, synced, records, i, marked, made, delivered>>
    BY <1>1, <1>2, <1>3, <1>4 DEF MarkHeader, MarkMore, history
  <1>6. /\ Taken(h, data, records) /\ marked = i /\ i <= n /\ n > 0
        /\ \A k \in 1 .. n : records[k] \in delivered
    BY <1>1, <1>4, <1>5 DEF QueueInv
  <1>7. i = n /\ n <= u
    BY <1>3, <1>4, <1>5, <1>6, QueueFacts DEF Taken
  <1>8. /\ g \in Header /\ g.unsynced_count = u - n /\ g.write_idx = h.write_idx
        /\ file' = g
    <2>1. /\ [h EXCEPT !.unsynced_count = Remaining] \in Header
          /\ Remaining = u - marked
      BY <1>1, <1>3, <1>5, HeaderAfterMark DEF QueueInv
    <2>2. h \in Header
      BY <1>1, QueueFacts
    <2> QED BY <1>5, <1>6, <1>7, <2>1, <2>2 DEF Header
  <1>9. Current = h /\ Current' = g /\ SentNow = records /\ SentNow' = <<>>
    BY <1>1, <1>2, <1>5, QueueFacts DEF Current, SentNow
  <1>10. Lined(h, data, synced, delivered, n, n)
    BY <1>4, <1>5, <1>7, <1>9 DEF QueueInv
  <1>11. PICK v \in Nat : v = u - n
    BY <1>7
  <1>12. \A k \in Nat : k < v => /\ Position(g, k) = Position(h, k + n)
                                 /\ k + n \in Nat /\ k + n < u /\ k + n >= n
    <2> SUFFICES ASSUME NEW k \in Nat, k < v
                 PROVE  /\ Position(g, k) = Position(h, k + n)
                        /\ k + n \in Nat /\ k + n < u /\ k + n >= n
      OBVIOUS
    <2>1. h \in Header /\ h.unsynced_count <= MaxRecords
      BY <1>10 DEF Lined
    <2>2. Position(g, k) = Position(h, k + n)
      BY <1>3, <1>7, <1>8, <1>11, <2>1, PlacesAfterMark
    <2> QED BY <1>11, <2>2
  <1>13. Lined(g, data, synced, delivered, 0, 0)
    <2>1. v <= MaxRecords /\ g.unsynced_count = v
      BY SMTT(30), <1>3, <1>8, <1>10, <1>11, QueueFacts DEF Lined
    <2>2. \A k \in Nat : k < v =>
              /\ data[Position(g, k)] \in Record
              /\ k >= 0 => data[Position(g, k)] \notin delivered
              /\ k >= 0 => ~synced[Position(g, k)]
      BY <1>3, <1>10, <1>12 DEF Lined
    <2>3. \A k, j \in Nat : k < j /\ j < v => data[Position(g, k)] < data[Position(g, j)]
      <3> SUFFICES ASSUME NEW k \in Nat, NEW j \in Nat, k < j, j < v
                   PROVE  data[Position(g, k)] < data[Position(g, j)]
        OBVIOUS
      <3>1. k < v /\ k + n < j + n
        OBVIOUS
      <3> QED BY <1>3, <1>10, <1>12, <3>1 DEF Lined
    <2> QED BY <1>8, <2>1, <2>2, <2>3 DEF Lined
  <1>14. QueueNow' = SubSeq(QueueNow, n + 1, Len(QueueNow))
    <2> DEFINE q == [k \in 1 .. u |-> data[Position(h, k - 1)]]
    <2>1. QueueNow = q /\ Len(q) = u
      BY <1>3, <1>9 DEF QueueNow
    <2>2. QueueNow' = [k \in 1 .. v |-> data[Position(g, k - 1)]]
      BY <1>5, <1>8, <1>9, <1>11 DEF QueueNow
    <2>3. \A k \in 1 .. v : data[Position(g, k - 1)] = q[k + n]
      <3> SUFFICES ASSUME NEW k \in 1 .. v
                   PROVE  data[Position(g, k - 1)] = q[k + n]
        OBVIOUS
      <3>1. k - 1 \in Nat /\ k - 1 < v /\ k - 1 + n = k + n - 1 /\ k + n \in 1 .. u
        BY <1>7, <1>11
      <3>2. Position(g, k - 1) = Position(h, k + n - 1)
        BY <1>12, <3>1
      <3> QED BY <3>1, <3>2
    <2> HIDE DEF q
    <2>4. SubSeq(q, n + 1, u) = [k \in 1 .. v |-> q[k + n]]
      <3>1. SubSeq(q, n + 1, u) = [k \in 1 .. u - (n + 1) + 1 |-> q[k + (n + 1) - 1]]
        BY <2>1
      <3>2. u - (n + 1) + 1 = v /\ \A k \in 1 .. v : k + (n + 1) - 1 = k + n
        BY <1>11
      <3> QED BY <3>1, <3>2
    <2> QED BY <2>1, <2>2, <2>3, <2>4
  <1>15. QueueInv'
    <2>1. \A r \in delivered' : r <= made'
      BY <1>5 DEF QueueInv
    <2> QED BY <1>2, <1>5, <1>8, <1>9, <1>13, <2>1 DEF QueueInv
  <1>16. Queue!Next
    <2>1. Queue!ToSet(SentNow) \subseteq delivered
      BY <1>4, <1>6, <1>9, QueueFacts DEF Queue!ToSet
    <2>2. SentNow # <<>> /\ Len(SentNow) = n
      BY <1>4, <1>6, <1>9
    <2> QED BY <1>5, <1>9, <1>14, <2>1, <2>2, QueueActions
  <1> QED BY <1>15, <1>16 DEF QueueFollows

\* The board resets: a batch in flight is given up.
LEMMA QueueCrash ==
    ASSUME QueueInv, NumberInv', Faults \subseteq {"reset"}, Crash
    PROVE  QueueFollows
  <1>0. /\ pc # "off" /\ pc # "mark" /\ pc' = "off"
        /\ UNCHANGED <<data, synced, file, made, delivered>>
    BY DEF Crash, ring
  <1>1. Current' = Current /\ SentNow' = <<>>
    <2>1. file # NoHeader
      BY <1>0 DEF QueueInv, NumberInv
    <2> QED BY <1>0, <2>1, QueueFacts DEF Current, SentNow
  <1>2. /\ QueueNow' = QueueNow /\ Lined(Current', data', synced', delivered', 0, 0)
        /\ \A r \in delivered' : r <= made'
    <2>1. made' >= made
      BY <1>0, QueueFacts
    <2> QED BY <1>0, <1>1, <2>1, QueueRests
  <1>3. QueueInv'
    BY <1>0, <1>2 DEF QueueInv
  <1>4. Queue!Next \/ UNCHANGED Queue!vars
    <2>1. CASE pc = "upload"
      BY <1>0, <1>1, <1>2, <2>1, BatchIsNew, QueueActions
    <2>2. CASE pc # "upload"
      <3>1. SentNow = <<>>
        BY <1>0, <2>2 DEF SentNow
      <3> QED BY <1>0, <1>1, <1>2, <3>1, QueueActions
    <2> QED BY <2>1, <2>2
  <1> QED BY <1>3, <1>4 DEF QueueFollows

\* Every step of the storage code is one of the queue, or leaves it alone.
LEMMA QueueStep ==
    ASSUME QueueInv, Faults \subseteq {"reset"}, [Next]_vars
    PROVE  QueueFollows
  <1>0. [KeptStep]_vars
    <2>1. ~WriteLost
      BY DEF WriteLost, BootLost, AppendRecordLost, AppendHeaderLost, MarkSlotLost
    <2> QED BY <2>1 DEF Next, KeptStep
  <1>1. NumberInv'
    BY <1>0, NumberInvStep DEF QueueInv
  <1>2. CASE Boot
    BY <1>1, <1>2, QueueBoot
  <1>3. CASE Store
    <2>1. ~AppendRecordFails
      BY DEF AppendRecordFails
    <2> QED BY <1>1, <1>3, <2>1, QueueWrite, QueuePut DEF Store
  <1>4. CASE Upload
    BY <1>1, <1>4, QueueRead, QueueReadSlot, QueueFetch, QueueConfirm, QueueAbandon,
       QueueMark, QueueDiscard DEF Upload
  <1>5. CASE Crash
    BY <1>1, <1>5, QueueCrash
  <1>6. CASE UNCHANGED vars
    <2>1. /\ UNCHANGED <<pc, data, synced, s_header, file, made, records, i, marked>>
          /\ UNCHANGED <<delivered, stored, crashes, failed>>
      BY <1>6 DEF vars
    <2>2. Current' = Current /\ SentNow' = SentNow
      BY <2>1 DEF Current, SentNow
    <2>3. QueueNow' = QueueNow
      BY <2>1, <2>2, QueueUnmoved
    <2>4. QueueInv'
      BY <1>1, <2>1, <2>2 DEF QueueInv
    <2> QED BY <2>1, <2>2, <2>3, <2>4, QueueActions DEF QueueFollows
  <1> QED BY <1>0, <1>2, <1>3, <1>4, <1>5, <1>6 DEF KeptStep

\* As long as the ring does not fill, nothing fails and no reset falls into
\* mark_synced, the ring with its window and the two copies of its header is a
\* FIFO queue, for every capacity and batch size and any number of resets.
THEOREM StorageImplementsSyncQueue ==
    ASSUME Faults \subseteq {"reset"}
    PROVE  Spec => ImplementsSyncQueue
  <1>1. Init => QueueInv /\ Queue!Init
    <2> SUFFICES ASSUME Init PROVE QueueInv /\ Queue!Init
      OBVIOUS
    <2>1. NumberInv /\ Current = FreshHeader /\ SentNow = <<>> /\ delivered = {}
      BY CountInit DEF Init, Current, SentNow
    <2>2. FreshHeader \in Header /\ FreshHeader.unsynced_count = 0
      BY CapacityAssumption DEF FreshHeader, Header, Slot, Uint
    <2>3. QueueNow = <<>>
      BY <2>1, <2>2 DEF QueueNow
    <2>4. Lined(Current, data, synced, delivered, 0, 0)
      BY <2>1, <2>2, CapacityAssumption DEF Lined
    <2> QED BY <2>1, <2>3, <2>4, QueueActions DEF Init, QueueInv
  <1>2. QueueInv /\ [Next]_vars => QueueInv' /\ [Queue!Next]_(Queue!vars)
    BY QueueStep DEF QueueFollows
  <1> QED BY <1>1, <1>2, PTL DEF Spec, ImplementsSyncQueue, Queue!Spec
=============================================================================
