------------------------- MODULE ServerStoreProofs --------------------------
(***************************************************************************)
(* Theorems about ServerStore, for every set of clients, capacity, bound   *)
(* and set of faults.                                                      *)
(***************************************************************************)
EXTENDS ServerStore, FiniteSetTheorems, SequenceTheorems, WellFoundedInduction, TLAPS

\* Every set of naturals that is not empty has a least element.
LEMMA LeastNatural ==
    ASSUME NEW T \in SUBSET Nat, T # {}
    PROVE  \E m \in T : \A k \in T : m <= k
  <1>1. PICK m \in T : \A k \in T : ~(<<k, m>> \in OpToRel(<, Nat))
    BY NatLessThanWellFounded, WFMin
  <1>2. \A k \in T : ~(k < m)
    BY <1>1 DEF OpToRel
  <1> QED BY <1>2

\* The members of a set of loop steps that come before step i.
Before(reads, i) == {j \in reads : j < i}

\* They are finitely many, and fewer before an earlier step.
LEMMA BeforeSize ==
    ASSUME NEW n \in Nat, NEW reads, \A k \in reads : k \in 0 .. n - 1
    PROVE  /\ IsFiniteSet(reads) /\ Cardinality(reads) \in Nat
           /\ Cardinality(reads) <= n
           /\ \A i \in Int : Cardinality(Before(reads, i)) \in Nat
           /\ \A i, j \in Int : i <= j =>
                  Cardinality(Before(reads, i)) <= Cardinality(Before(reads, j))
           /\ Before(reads, 0) = {} /\ Before(reads, n) = reads
  <1>1. IsFiniteSet(0 .. n - 1) /\ Cardinality(0 .. n - 1) = n
    BY FS_Interval
  <1>a. reads \subseteq 0 .. n - 1
    OBVIOUS
  <1>2. \A S \in SUBSET reads : IsFiniteSet(S) /\ Cardinality(S) \in Nat
    BY <1>1, <1>a, FS_Subset, FS_CardinalityType
  <1>3. \A S, T \in SUBSET reads : S \subseteq T => Cardinality(S) <= Cardinality(T)
    BY <1>2, FS_Subset
  <1>0. \A k \in reads : k \in Int /\ 0 <= k /\ k < n
    OBVIOUS
  <1>4. ASSUME NEW i \in Int, NEW j \in Int, i <= j
        PROVE  Before(reads, i) \subseteq Before(reads, j)
    BY <1>0, <1>4 DEF Before
  <1>5. \A i \in Int : Before(reads, i) \in SUBSET reads
    BY DEF Before
  <1>6. IsFiniteSet(reads) /\ Cardinality(reads) <= n
    BY ZenonT(40), <1>1, <1>a, FS_Subset
  <1>7. Before(reads, 0) = {} /\ Before(reads, n) = reads
    BY <1>0 DEF Before
  <1>8. \A i, j \in Int : i <= j =>
            Cardinality(Before(reads, i)) <= Cardinality(Before(reads, j))
    BY <1>3, <1>4, <1>5
  <1> QED BY <1>2, <1>5, <1>6, <1>7, <1>8

\* Each place of the result is filled by a step whose read works, and by the
\* one that has as many such steps before it.
LEMMA FillerWorks ==
    ASSUME NEW n \in Nat, NEW reads, \A k \in reads : k \in 0 .. n - 1,
           NEW r \in 0 .. Cardinality(reads) - 1
    PROVE  /\ Filler(reads, r) \in reads
           /\ Cardinality(Before(reads, Filler(reads, r))) = r
  <1> DEFINE T == {m \in Nat : Cardinality(Before(reads, m)) > r}
  <1>0. /\ \A k \in reads : k \in Int /\ 0 <= k /\ k < n
        /\ r \in Nat /\ r < Cardinality(reads)
    BY BeforeSize
  <1>1. n \in T /\ T \in SUBSET Nat /\ 0 \notin T
    <2>1. Cardinality(Before(reads, 0)) = 0
      BY BeforeSize, FS_EmptySet
    <2>2. Cardinality(Before(reads, n)) > r
      BY <1>0, BeforeSize
    <2> QED BY <1>0, <2>1, <2>2
  <1>2. PICK m \in T : \A k \in T : m <= k
    BY <1>1, LeastNatural
  <1>3. m - 1 \in Nat /\ m - 1 \notin T
    BY <1>1, <1>2
  <1> DEFINE B == Before(reads, m - 1)
  <1>4. Cardinality(B) \in Nat /\ Cardinality(B) <= r
    <2>1. \A i \in Int : Cardinality(Before(reads, i)) \in Nat
      BY BeforeSize
    <2> QED BY <1>0, <1>3, <2>1
  <1>5. Before(reads, m) = B \union (IF m - 1 \in reads THEN {m - 1} ELSE {})
    BY <1>0, <1>2, <1>3 DEF Before
  <1>6. m - 1 \in reads
    <2>1. Cardinality(Before(reads, m)) > r
      BY <1>2
    <2> QED BY <1>0, <1>4, <1>5, <2>1
  <1>7. Cardinality(Before(reads, m)) = Cardinality(B) + 1
    <2>1. IsFiniteSet(B) /\ m - 1 \notin B
      BY BeforeSize, FS_Subset DEF Before
    <2> QED BY <1>5, <1>6, <2>1, FS_AddElement
  <1>8. Cardinality(B) = r
    BY <1>2, <1>4, <1>7
  <1> QED BY <1>6, <1>8 DEF Filler, Before

\* The places are filled in the order of the steps.
LEMMA FillersAscend ==
    ASSUME NEW n \in Nat, NEW reads, \A k \in reads : k \in 0 .. n - 1,
           NEW q \in 0 .. Cardinality(reads) - 1, NEW r \in 0 .. Cardinality(reads) - 1,
           q < r
    PROVE  Filler(reads, q) < Filler(reads, r)
  <1>1. /\ Filler(reads, q) \in Int /\ Cardinality(Before(reads, Filler(reads, q))) = q
        /\ Filler(reads, r) \in Int /\ Cardinality(Before(reads, Filler(reads, r))) = r
    BY FillerWorks
  <1>2. Filler(reads, r) <= Filler(reads, q) => r <= q
    <2>1. \A i, j \in Int : i <= j =>
              Cardinality(Before(reads, i)) <= Cardinality(Before(reads, j))
      BY BeforeSize
    <2> QED BY <1>1, <2>1
  <1>3. q \in Int /\ r \in Int
    BY BeforeSize
  <1> QED BY <1>1, <1>2, <1>3

\* If every read works, step r fills place r.
LEMMA AllFilled ==
    ASSUME NEW n \in Nat, NEW r \in 0 .. n - 1
    PROVE  Cardinality(0 .. n - 1) = n /\ Filler(0 .. n - 1, r) = r
  <1>1. \A i \in 0 .. n - 1 : Before(0 .. n - 1, i) = 0 .. i - 1
    BY DEF Before
  <1>2. \A i \in 0 .. n : Cardinality(0 .. i - 1) = i
    BY FS_Interval
  <1>3. Cardinality(0 .. n - 1) = n
    BY <1>2
  <1>4. Filler(0 .. n - 1, r) \in 0 .. n - 1
        /\ Cardinality(Before(0 .. n - 1, Filler(0 .. n - 1, r))) = r
    BY <1>3, FillerWorks
  <1> QED BY <1>1, <1>2, <1>3, <1>4

-----------------------------------------------------------------------------
\* The parts of a header.
LEMMA HeaderParts ==
    /\ MaxRecords \in Nat /\ MaxRecords > 0
    /\ \A h \in Header : /\ h.write_idx \in Nat /\ h.write_idx < MaxRecords
                         /\ h.count \in Nat /\ h.count <= MaxRecords
    /\ NewHeader \in Header
  BY StoreAssumption DEF Header, Slot, NewHeader

\* Remainders below twice the capacity.
LEMMA SmallRemainders ==
    \A a \in Nat : /\ a % MaxRecords \in Slot
                   /\ a < MaxRecords => a % MaxRecords = a
                   /\ MaxRecords <= a /\ a < 2 * MaxRecords => a % MaxRecords = a - MaxRecords
  BY HeaderParts DEF Slot

\* The slot of the i-th oldest record.
LEMMA IdxInRing ==
    ASSUME NEW h \in Header, NEW i \in Nat, i < MaxRecords
    PROVE  /\ idx(h, 0, i) \in Slot
           /\ h.count < MaxRecords => idx(h, 0, i) = i
           /\ h.count = MaxRecords => 
                  idx(h, 0, i) = IF h.write_idx + i < MaxRecords THEN h.write_idx + i
                                 ELSE h.write_idx + i - MaxRecords
  <1>1. CASE h.count < MaxRecords
    BY <1>1, HeaderParts, SmallRemainders DEF idx, start_idx
  <1>2. CASE h.count = MaxRecords
    <2>1. start_idx(h, 0) = h.write_idx
      BY <1>2, HeaderParts, SmallRemainders DEF start_idx
    <2> QED BY <1>2, <2>1, HeaderParts, SmallRemainders DEF idx
  <1> QED BY <1>1, <1>2, HeaderParts

-----------------------------------------------------------------------------
\* The records after the oldest one ascend.
Ascends(h, s) ==
    \A i, j \in 1 .. h.count - 1 :
        i < j /\ s[idx(h, 0, i)] # 0 /\ s[idx(h, 0, j)] # 0 =>
            s[idx(h, 0, i)] < s[idx(h, 0, j)]

\* How many of the acknowledged records l an undamaged file holds.
Recent(l) == IF Len(l) < MaxRecords THEN Len(l) ELSE MaxRecords - 1

\* They are the latest ones in the ring, in order.
Kept(h, s, l) ==
    /\ Recent(l) <= h.count
    /\ \A j \in 0 .. Recent(l) - 1 : l[Len(l) - j] = s[idx(h, 0, h.count - 1 - j)]

\* The slots below count hold records, those above it do not.
Filled(h, s) ==
    \A k \in Slot : (k < h.count => s[k] # 0) /\ (k > h.count => s[k] = 0)

\* A full read of a file without gaps returns the ring from its oldest record.
LEMMA ReadFilled ==
    ASSUME NEW h \in Header, NEW s, Filled(h, s)
    PROVE  ReadOut(h, s, 0, MaxRecords) = [r \in 1 .. h.count |-> s[idx(h, 0, r - 1)]]
  <1> DEFINE n == h.count
             reads == {i \in 0 .. n - 1 : s[idx(h, 0, i)] # 0}
  <1>1. n = (IF MaxRecords > h.count - 0 THEN h.count - 0 ELSE MaxRecords) /\ n \in Nat
    BY HeaderParts
  <1>2. ASSUME NEW i \in 0 .. n - 1
        PROVE  s[idx(h, 0, i)] # 0
    <2>1. i \in Nat /\ i < n /\ i < MaxRecords
      BY HeaderParts
    <2>2. idx(h, 0, i) \in Slot
      BY <2>1, IdxInRing
    <2>3. h.count = MaxRecords => idx(h, 0, i) < h.count
      BY <2>2, HeaderParts DEF Slot
    <2>4. idx(h, 0, i) < h.count
      BY <2>1, <2>3, IdxInRing, HeaderParts
    <2> QED BY <2>2, <2>4 DEF Filled
  <1>3. reads = 0 .. n - 1
    BY <1>2
  <1>4. ReadOut(h, s, 0, MaxRecords)
          = [r \in 1 .. Cardinality(reads) |-> s[idx(h, 0, Filler(reads, r - 1))]]
    BY <1>1 DEF ReadOut
  <1>5. Cardinality(0 .. n - 1) = n
    BY <1>1, FS_Interval
  <1>6. \A r \in 1 .. n : Filler(0 .. n - 1, r - 1) = r - 1
    BY <1>1, AllFilled
  <1> HIDE DEF n, reads
  <1>7. ReadOut(h, s, 0, MaxRecords)
          = [r \in 1 .. n |-> s[idx(h, 0, Filler(0 .. n - 1, r - 1))]]
    BY <1>3, <1>4, <1>5
  <1>8. ReadOut(h, s, 0, MaxRecords) = [r \in 1 .. n |-> s[idx(h, 0, r - 1)]]
    BY <1>6, <1>7
  <1> QED BY <1>8 DEF n

\* Whatever slots an fread fails for, a full read keeps the order of the ring.
LEMMA ReadAscends ==
    ASSUME NEW h \in Header, NEW s \in [Slot -> Nat], Ascends(h, s)
    PROVE  LET out == ReadOut(h, s, 0, MaxRecords)
           IN  out \in Seq(Nat) /\ (out # <<>> => InOrder(Tail(out)))
  <1> DEFINE n == h.count
             reads == {i \in 0 .. n - 1 : s[idx(h, 0, i)] # 0}
             c == Cardinality(reads)
             out == ReadOut(h, s, 0, MaxRecords)
             at(r) == Filler(reads, r - 1)
  <1>1. n = (IF MaxRecords > h.count - 0 THEN h.count - 0 ELSE MaxRecords) /\ n \in Nat
    BY HeaderParts
  <1>2. \A i \in reads : i \in 0 .. n - 1
    OBVIOUS
  <1>3. out = [r \in 1 .. c |-> s[idx(h, 0, at(r))]]
    BY <1>1 DEF ReadOut
  <1>4. c \in Nat
    BY <1>1, <1>2, BeforeSize
  <1>5. \A r \in 1 .. c : at(r) \in reads
    <2> HIDE DEF reads
    <2> QED BY <1>1, <1>2, <1>4, FillerWorks
  <1>6. \A q, r \in 1 .. c : q < r => at(q) < at(r)
    <2> HIDE DEF reads
    <2>1. ASSUME NEW q \in 1 .. c, NEW r \in 1 .. c, q < r
          PROVE  at(q) < at(r)
      <3>1. q - 1 \in 0 .. c - 1 /\ r - 1 \in 0 .. c - 1 /\ q - 1 < r - 1
        BY <1>4, <2>1
      <3> QED BY <1>1, <1>2, <3>1, FillersAscend
    <2> QED BY <2>1
  <1>7. ASSUME NEW r \in 1 .. c
        PROVE  idx(h, 0, at(r)) \in Slot /\ at(r) \in 0 .. n - 1 /\ s[idx(h, 0, at(r))] # 0
    <2>1. at(r) \in reads
      BY <1>5
    <2>2. at(r) \in Nat /\ at(r) < n /\ s[idx(h, 0, at(r))] # 0
      BY <1>1, <2>1
    <2> HIDE DEF at
    <2> QED BY <1>1, <2>2, IdxInRing, HeaderParts
  <1>8. out \in Seq(Nat)
    <2> HIDE DEF at, c
    <2> QED BY <1>3, <1>4, <1>7
  <1>9. ASSUME NEW q \in 2 .. c, NEW r \in 2 .. c, q < r
        PROVE  out[q] < out[r]
    <2> HIDE DEF at, c
    <2>1. 1 \in 1 .. c /\ q \in 1 .. c /\ r \in 1 .. c /\ 1 < q
      BY <1>4, <1>9
    <2>2. /\ at(1) \in 0 .. n - 1 /\ at(q) \in 0 .. n - 1 /\ at(r) \in 0 .. n - 1
          /\ at(1) < at(q) /\ at(q) < at(r)
      BY <1>6, <1>7, <1>9, <2>1
    <2>3. at(q) \in 1 .. h.count - 1 /\ at(r) \in 1 .. h.count - 1 /\ at(q) < at(r)
      BY <1>1, <2>2
    <2>4. s[idx(h, 0, at(q))] < s[idx(h, 0, at(r))]
      BY <1>7, <2>1, <2>3 DEF Ascends
    <2> QED BY <1>3, <2>1, <2>4
  <1>10. ASSUME out # <<>> PROVE InOrder(Tail(out))
    <2> HIDE DEF at, c, out
    <2>1. Len(out) = c
      BY <1>3, <1>4
    <2>2. /\ DOMAIN Tail(out) = 1 .. c - 1
          /\ \A i \in 1 .. c - 1 : Tail(out)[i] = out[i + 1]
      BY <1>8, <1>10, <2>1
    <2>3. ASSUME NEW j \in 1 .. c - 1, NEW k \in 1 .. c - 1, j < k
          PROVE  out[j + 1] < out[k + 1]
      <3>1. j + 1 \in 2 .. c /\ k + 1 \in 2 .. c /\ j + 1 < k + 1
        BY <1>4, <2>3
      <3> QED BY <1>9, <3>1
    <2> QED BY <1>4, <2>2, <2>3 DEF InOrder
  <1> QED BY <1>8, <1>10

-----------------------------------------------------------------------------
\* A file's records end at a slot of the ring or at its end.
LEMMA FileLengthInRing ==
    ASSUME NEW id \in Id
    PROVE  /\ FileLength(id) \in 0 .. MaxRecords
           /\ \A k \in Slot : k < FileLength(id) => slot[id][k] # 0
           /\ FileLength(id) < MaxRecords => slot[id][FileLength(id)] = 0
  <1> DEFINE T == {n \in 0 .. MaxRecords : n < MaxRecords => slot[id][n] = 0}
  <1>1. MaxRecords \in T /\ T \subseteq Nat
    BY HeaderParts
  <1>2. PICK m \in T : \A k \in T : m <= k
    BY <1>1, LeastNatural
  <1>3. \A k \in Slot : k < m => slot[id][k] # 0
    BY <1>1, <1>2, HeaderParts DEF Slot
  <1> QED BY <1>1, <1>2, <1>3 DEF FileLength

\* An append goes to a slot of the ring, to write_idx if no record is missing
\* before it.
LEMMA WriteSlotsInRing ==
    ASSUME TypeOK
    PROVE  /\ WriteSlots(cur) \subseteq Slot
           /\ (\A k \in Slot : k < header[cur].write_idx => slot[cur][k] # 0) =>
                  WriteSlots(cur) = {header[cur].write_idx}
  <1>1. header[cur] \in Header /\ cur \in Id
    BY DEF TypeOK
  <1>2. header[cur].write_idx \in Slot
    BY <1>1, HeaderParts DEF Slot
  <1>3. CASE header[cur].write_idx <= FileLength(cur)
    BY <1>2, <1>3 DEF WriteSlots
  <1>4. CASE ~(header[cur].write_idx <= FileLength(cur))
    <2>1. FileLength(cur) \in Slot /\ FileLength(cur) < header[cur].write_idx
      BY <1>1, <1>2, <1>4, FileLengthInRing, HeaderParts DEF Slot
    <2>2. slot[cur][FileLength(cur)] = 0
      BY <1>1, <2>1, FileLengthInRing, HeaderParts DEF Slot
    <2> QED BY <1>2, <1>4, <2>1, <2>2 DEF WriteSlots
  <1> QED BY <1>3, <1>4

\* What the numbers of the records have to do with the calls: the latest is in
\* no file before the append under way has written it, and in the slot at
\* write_idx until its header is written.
NumberInv ==
    /\ TypeOK
    /\ made <= MaxAppends
    /\ \A id \in Id : state[id] # "valid" =>
           header[id] = NewHeader /\ (id \notin damaged => slot[id] = NoRecords)
    /\ \A id \in Id : \A k \in Slot : slot[id][k] <= made
    /\ pc \in {"init", "record"} => \A id \in Id : \A k \in Slot : slot[id][k] < made
    /\ pc \in {"init", "record", "header"} => made > 0
    /\ pc = "header" /\ cur \notin damaged =>
           /\ slot[cur][header[cur].write_idx] = made
           /\ \A k \in Slot \ {header[cur].write_idx} : slot[cur][k] < made
    /\ pc = "init" => state[cur] # "absent"
    /\ pc \in {"record", "header"} /\ cur \notin damaged => state[cur] = "valid"

\* Where a rename is: the new file starts empty, takes over the header and then
\* one record after the other.
RenameInv ==
    /\ pc \in {"new", "copy", "unlink"} =>
           cur # dest /\ state[cur] = "valid" /\ log[dest] = <<>>
    /\ pc = "new" => state[dest] = "blank" /\ next = 0
    /\ pc = "copy" => state[dest] = "valid"
    /\ pc \in {"copy", "unlink"} /\ dest \notin damaged =>
           cur \notin damaged /\ header[dest] = header[cur] /\ state[dest] = "valid"
    /\ pc = "copy" /\ dest \notin damaged =>
           \A k \in Slot : slot[dest][k] = IF k < next THEN slot[cur][k] ELSE 0
    /\ pc = "unlink" /\ dest \notin damaged => slot[dest] = slot[cur]

\* The file that a rename fills.
Filling == IF pc \in {"new", "copy"} THEN {dest} ELSE {}

\* The records acknowledged last are the latest of the ring, and what follows
\* its oldest one ascends.
Sound(h, s, l) ==
    /\ h.count < MaxRecords => h.write_idx = h.count
    /\ Ascends(h, s) /\ Kept(h, s, l)

\* Every file that nothing damaged is sound and has no gaps, unless it is
\* being filled.
FileInv ==
    \A id \in Id \ damaged :
        /\ Sound(header[id], slot[id], log[id])
        /\ id \notin Filling => Filled(header[id], slot[id])

StoreInv == NumberInv /\ RenameInv /\ FileInv

-----------------------------------------------------------------------------
\* No record but the oldest of a full ring lies where the next one goes.
LEMMA IdxNotWritten ==
    ASSUME NEW h \in Header, h.count < MaxRecords => h.write_idx = h.count,
           NEW i \in 0 .. h.count - 1, i > 0 \/ h.count < MaxRecords
    PROVE  idx(h, 0, i) \in Slot \ {h.write_idx}
  <1>1. i \in Nat /\ i < MaxRecords /\ i < h.count
    BY HeaderParts
  <1>2. idx(h, 0, i) # h.write_idx
    BY <1>1, IdxInRing, HeaderParts
  <1> QED BY <1>1, <1>2, IdxInRing

\* The places of the acknowledged records that an undamaged file holds.
LEMMA RecentPlaces ==
    ASSUME NEW h \in Header, h.count < MaxRecords => h.write_idx = h.count,
           NEW l \in Seq(Record), Recent(l) <= h.count
    PROVE  /\ Recent(l) \in Nat /\ Recent(l) < MaxRecords /\ Recent(l) <= Len(l)
           /\ \A j \in 0 .. Recent(l) - 1 :
                  /\ h.count - 1 - j \in 0 .. h.count - 1
                  /\ h.count - 1 - j > 0 \/ h.count < MaxRecords
  <1>1. Recent(l) \in Nat /\ Recent(l) < MaxRecords /\ Recent(l) <= Len(l)
    BY HeaderParts DEF Recent
  <1> QED BY <1>1, HeaderParts

\* A record written at write_idx, without its header, changes the oldest record
\* of a full ring and nothing else that a reader finds.
LEMMA RingAfterRecord ==
    ASSUME NEW h \in Header, h.count < MaxRecords => h.write_idx = h.count,
           NEW s, NEW t, NEW l \in Seq(Record),
           \A k \in Slot \ {h.write_idx} : t[k] = s[k],
           t[h.write_idx] # 0,
           Ascends(h, s), Kept(h, s, l), Filled(h, s)
    PROVE  Ascends(h, t) /\ Kept(h, t, l) /\ Filled(h, t)
  <1>1. Ascends(h, t)
    <2>1. \A i \in 1 .. h.count - 1 : t[idx(h, 0, i)] = s[idx(h, 0, i)]
      BY IdxNotWritten, HeaderParts
    <2> QED BY <2>1 DEF Ascends
  <1>2. Kept(h, t, l)
    <2>1. Recent(l) <= h.count
      BY DEF Kept
    <2>2. \A j \in 0 .. Recent(l) - 1 :
              t[idx(h, 0, h.count - 1 - j)] = s[idx(h, 0, h.count - 1 - j)]
      BY <2>1, RecentPlaces, IdxNotWritten
    <2> QED BY <2>1, <2>2 DEF Kept
  <1>3. Filled(h, t)
    BY HeaderParts DEF Filled, Slot
  <1> QED BY <1>1, <1>2, <1>3

\* Where the ring's records are behind the next header.
LEMMA IdxAfterAppend ==
    ASSUME NEW h \in Header, h.count < MaxRecords => h.write_idx = h.count
    PROVE  LET n == NextHeader(h)
           IN  /\ n \in Header
               /\ n.count < MaxRecords => n.write_idx = n.count
               /\ n.count = IF h.count < MaxRecords THEN h.count + 1 ELSE h.count
               /\ idx(n, 0, n.count - 1) = h.write_idx
               /\ \A i \in 0 .. n.count - 2 :
                      idx(n, 0, i) = idx(h, 0, i + (h.count + 1 - n.count))
  <1> DEFINE n == NextHeader(h)
  <1>1. n.write_idx = (h.write_idx + 1) % MaxRecords
    BY DEF NextHeader
  <1>2. n.count = IF h.count < MaxRecords THEN h.count + 1 ELSE h.count
    BY DEF NextHeader
  <1>3. n.write_idx = IF h.write_idx + 1 < MaxRecords THEN h.write_idx + 1 ELSE 0
    BY <1>1, HeaderParts, SmallRemainders
  <1>4. n \in Header
    BY <1>1, <1>2, HeaderParts, SmallRemainders DEF NextHeader, Header
  <1> HIDE DEF n
  <1>5. n.count < MaxRecords => n.write_idx = n.count
    BY <1>2, <1>3, HeaderParts
  <1>6. idx(n, 0, n.count - 1) = h.write_idx
    <2>1. n.count - 1 \in Nat /\ n.count - 1 < MaxRecords
      BY <1>2, <1>4, HeaderParts
    <2> QED BY <1>2, <1>3, <1>4, <2>1, IdxInRing, HeaderParts
  <1>7. ASSUME NEW i \in 0 .. n.count - 2
        PROVE  idx(n, 0, i) = idx(h, 0, i + (h.count + 1 - n.count))
    <2>1. i \in Nat /\ i < MaxRecords
      BY <1>4, HeaderParts
    <2>2. /\ i + (h.count + 1 - n.count) \in Nat
          /\ i + (h.count + 1 - n.count) < MaxRecords
      BY <1>2, <1>4, <2>1, HeaderParts
    <2>3. CASE h.count < MaxRecords
      <3>1. n.count = h.count + 1 /\ i + (h.count + 1 - n.count) = i
        BY <1>2, <2>1, <2>3, HeaderParts
      <3>2. idx(h, 0, i) = i
        BY <2>1, <2>3, IdxInRing
      <3>3. n.count = MaxRecords => n.write_idx = 0
        BY <1>3, <2>3, <3>1, HeaderParts
      <3>4. idx(n, 0, i) = i
        BY <1>4, <2>1, <3>3, IdxInRing, HeaderParts
      <3> QED BY <3>1, <3>2, <3>4
    <2>4. CASE h.count = MaxRecords
      <3>1. n.count = MaxRecords /\ i + (h.count + 1 - n.count) = i + 1
        BY <1>2, <2>1, <2>4, HeaderParts
      <3>2. idx(h, 0, i + 1) = IF h.write_idx + (i + 1) < MaxRecords
                               THEN h.write_idx + (i + 1)
                               ELSE h.write_idx + (i + 1) - MaxRecords
        BY <2>1, <2>2, <2>4, <3>1, IdxInRing
      <3>3. idx(n, 0, i) = IF n.write_idx + i < MaxRecords THEN n.write_idx + i
                           ELSE n.write_idx + i - MaxRecords
        BY <1>4, <2>1, <3>1, IdxInRing
      <3>4. i + 1 < MaxRecords
        BY <2>2, <3>1
      <3>5. idx(n, 0, i) = idx(h, 0, i + 1)
        BY <1>3, <2>1, <3>2, <3>3, <3>4, HeaderParts
      <3> QED BY <3>1, <3>5
    <2> QED BY <2>3, <2>4, HeaderParts
  <1> QED BY <1>2, <1>4, <1>5, <1>6, <1>7 DEF n

\* The places of the latest a of n records, one of which came last.
LEMMA Shift ==
    ASSUME NEW n \in Nat
    PROVE  \A a, b \in Nat : a <= b + 1 /\ a <= n => \A j \in 0 .. a - 1 : j # 0 =>
               j - 1 \in 0 .. b - 1 /\ n - 1 - j \in 0 .. n - 2
  OBVIOUS

\* The places of the records n counts and of those h counted, d of them gone.
LEMMA ShiftPlaces ==
    ASSUME NEW h \in Header, NEW n \in Header, NEW d \in Nat,
           h.count \in Nat, n.count \in Nat, d = h.count + 1 - n.count
    PROVE  \A i, j \in 1 .. n.count - 1 : i < j =>
               /\ i \in 0 .. n.count - 2 /\ i + d \in 1 .. h.count - 1
               /\ j # n.count - 1 => /\ j \in 0 .. n.count - 2
                                    /\ j + d \in 1 .. h.count - 1 /\ i + d < j + d
  OBVIOUS

\* With the header the record counts: it is the latest of the ring.
LEMMA RingAfterHeader ==
    ASSUME NEW h \in Header, h.count < MaxRecords => h.write_idx = h.count,
           NEW s \in [Slot -> Nat], NEW l \in Seq(Record), NEW r \in Record,
           s[h.write_idx] = r,
           \A k \in Slot \ {h.write_idx} : s[k] < r,
           Ascends(h, s), Kept(h, s, l), Filled(h, s)
    PROVE  /\ Ascends(NextHeader(h), s)
           /\ Kept(NextHeader(h), s, Append(l, r))
           /\ Filled(NextHeader(h), s)
  <1> DEFINE n == NextHeader(h)
             d == h.count + 1 - n.count
  <1>0. /\ n \in Header
        /\ n.count = IF h.count < MaxRecords THEN h.count + 1 ELSE h.count
        /\ idx(n, 0, n.count - 1) = h.write_idx
        /\ \A i \in 0 .. n.count - 2 : idx(n, 0, i) = idx(h, 0, i + d)
        /\ n.count \in Nat /\ h.count \in Nat /\ d \in 0 .. 1 /\ r \in Nat \ {0}
    BY SMTT(30), IdxAfterAppend, HeaderParts DEF Record
  <1>d. /\ n.count \in Nat /\ h.count \in Nat /\ d \in Nat
        /\ d = h.count + 1 - n.count
    BY <1>0
  <1>e. \A i, j \in 1 .. n.count - 1 : i < j =>
            /\ i \in 0 .. n.count - 2 /\ i + d \in 1 .. h.count - 1
            /\ j # n.count - 1 => /\ j \in 0 .. n.count - 2
                                 /\ j + d \in 1 .. h.count - 1 /\ i + d < j + d
    <2> HIDE DEF n, d
    <2> QED BY <1>0, <1>d, ShiftPlaces
  <1> HIDE DEF n, d
  <1>1. Ascends(n, s)
    <2>1. ASSUME NEW i \in 1 .. n.count - 1, NEW j \in 1 .. n.count - 1, i < j,
                 s[idx(n, 0, i)] # 0, s[idx(n, 0, j)] # 0
          PROVE  s[idx(n, 0, i)] < s[idx(n, 0, j)]
      <3>1. i \in 0 .. n.count - 2 /\ i + d \in 1 .. h.count - 1
        BY <1>e, <2>1
      <3>2. idx(n, 0, i) = idx(h, 0, i + d) /\ idx(h, 0, i + d) \in Slot \ {h.write_idx}
        BY SMTT(30), <1>0, <3>1, IdxNotWritten, HeaderParts
      <3>3. CASE j = n.count - 1
        BY <1>0, <3>2, <3>3
      <3>4. CASE j # n.count - 1
        <4>1. j \in 0 .. n.count - 2 /\ j + d \in 1 .. h.count - 1 /\ i + d < j + d
          BY <1>e, <2>1, <3>4
        <4>2. idx(n, 0, j) = idx(h, 0, j + d)
          BY <1>0, <4>1
        <4> QED BY <2>1, <3>1, <3>2, <4>1, <4>2 DEF Ascends
      <3> QED BY <3>3, <3>4
    <2> QED BY <2>1 DEF Ascends
  <1>2. Kept(n, s, Append(l, r))
    <2> DEFINE m == Append(l, r)
    <2>1. m \in Seq(Record) /\ Len(m) = Len(l) + 1 /\ m[Len(m)] = r
          /\ \A k \in 1 .. Len(l) : m[k] = l[k]
      OBVIOUS
    <2>2. /\ Recent(l) <= h.count /\ Recent(l) \in Nat /\ Recent(l) < MaxRecords
          /\ Recent(l) <= Len(l)
      BY RecentPlaces DEF Kept
    <2> HIDE DEF m
    <2>3. /\ Recent(m) <= Recent(l) + 1 /\ Recent(m) <= n.count /\ Recent(m) \in Nat
          /\ Recent(m) < MaxRecords
      BY <1>0, <2>1, <2>2, HeaderParts DEF Recent
    <2>4. ASSUME NEW j \in 0 .. Recent(m) - 1
          PROVE  m[Len(m) - j] = s[idx(n, 0, n.count - 1 - j)]
      <3>1. CASE j = 0
        BY <1>0, <2>1, <3>1
      <3>2. CASE j # 0
        <4>1. j - 1 \in 0 .. Recent(l) - 1 /\ n.count - 1 - j \in 0 .. n.count - 2
          BY <1>d, <2>2, <2>3, <3>2, Shift
        <4>2. l[Len(l) - (j - 1)] = s[idx(h, 0, h.count - 1 - (j - 1))]
          BY <4>1 DEF Kept
        <4>3. m[Len(m) - j] = l[Len(l) - (j - 1)]
          <5>1. Len(m) - j = Len(l) - (j - 1) /\ Len(l) - (j - 1) \in 1 .. Len(l)
            BY <2>1, <2>2, <4>1
          <5> QED BY <2>1, <5>1
        <4>4. n.count - 1 - j + d = h.count - 1 - (j - 1)
          BY SMTT(30), <1>d, <4>1
        <4> QED BY <1>0, <4>1, <4>2, <4>3, <4>4
      <3> QED BY <3>1, <3>2
    <2> QED BY <2>3, <2>4 DEF Kept, m
  <1>3. Filled(n, s)
    BY <1>0, HeaderParts DEF Filled, Slot
  <1> QED BY <1>1, <1>2, <1>3 DEF n

-----------------------------------------------------------------------------
\* What a step finds: the types of its parts.
LEMMA StoreParts ==
    ASSUME TypeOK
    PROVE  /\ cur \in Id /\ dest \in Id /\ made \in Nat
           /\ \A id \in Id : /\ header[id] \in Header /\ slot[id] \in [Slot -> Nat]
                             /\ slot[id] \in [Slot -> Record \union {0}]
                             /\ log[id] \in Seq(Record)
                             /\ state[id] \in {"absent", "blank", "valid"}
           /\ NewHeader \in Header /\ NoRecords \in [Slot -> Record \union {0}]
           /\ <<>> \in Seq(Record) /\ MaxRecords \in Nat /\ MaxRecords > 0
  <1>1. \A id \in Id : slot[id] \in [Slot -> Nat]
    BY DEF TypeOK, Record
  <1> QED BY <1>1, HeaderParts DEF TypeOK, NoRecords

\* An empty file is sound, and a sound one stays so when its log is given up.
LEMMA SoundFiles ==
    /\ Sound(NewHeader, NoRecords, <<>>) /\ Filled(NewHeader, NoRecords)
    /\ \A h \in Header : \A s, l : Sound(h, s, l) => Sound(h, s, <<>>)
  <1>1. NewHeader.count = 0 /\ NewHeader.write_idx = 0
    BY DEF NewHeader
  <1>2. Recent(<<>>) = 0
    BY HeaderParts DEF Recent
  <1>3. \A h \in Header : \A s : Kept(h, s, <<>>)
    BY <1>2, HeaderParts DEF Kept
  <1>4. Ascends(NewHeader, NoRecords)
    BY <1>1 DEF Ascends
  <1>5. Filled(NewHeader, NoRecords)
    BY <1>1 DEF Filled, NoRecords, Slot
  <1> QED BY <1>1, <1>3, <1>4, <1>5, HeaderParts DEF Sound

\* Emptying or removing a file.
LEMMA ResetFacts ==
    ASSUME TypeOK, NEW id \in Id, NEW st \in {"absent", "blank"}, Reset(id, st)
    PROVE  /\ state' \in [Id -> {"absent", "blank", "valid"}]
           /\ header' \in [Id -> Header]
           /\ slot' \in [Id -> [Slot -> Record \union {0}]]
           /\ state'[id] = st /\ header'[id] = NewHeader /\ slot'[id] = NoRecords
           /\ \A other \in Id \ {id} : /\ state'[other] = state[other]
                                       /\ header'[other] = header[other]
                                       /\ slot'[other] = slot[other]
  BY StoreParts DEF Reset, TypeOK

\* The record of an append to an undamaged file goes to write_idx.
LEMMA WriteSlotOfSound ==
    ASSUME NumberInv, FileInv, pc = "record", cur \notin damaged
    PROVE  WriteSlots(cur) = {header[cur].write_idx}
  <1>0. TypeOK /\ cur \in Id /\ header[cur] \in Header
    BY StoreParts DEF NumberInv
  <1>1. cur \notin Filling
    BY DEF Filling
  <1>2. /\ header[cur].count < MaxRecords => header[cur].write_idx = header[cur].count
        /\ \A j \in Slot : j < header[cur].count => slot[cur][j] # 0
    BY <1>0, <1>1 DEF FileInv, Sound, Filled
  <1>3. header[cur].write_idx <= header[cur].count
    BY <1>0, <1>2, HeaderParts
  <1>4. \A j \in Slot : j < header[cur].write_idx => slot[cur][j] # 0
    BY <1>0, <1>2, <1>3, HeaderParts DEF Slot
  <1> QED BY <1>0, <1>4, WriteSlotsInRing

\* A step keeps what the records' numbers have to do with the calls.
LEMMA NumberStep ==
    ASSUME NumberInv, RenameInv, FileInv, [Next]_vars
    PROVE  NumberInv'
  <1> USE DEF call, file
  <1>0. /\ TypeOK /\ cur \in Id /\ dest \in Id /\ made \in Nat /\ MaxAppends \in Nat
        /\ \A id \in Id : /\ header[id] \in Header /\ slot[id] \in [Slot -> Nat]
                          /\ log[id] \in Seq(Record)
    BY StoreParts, StoreAssumption DEF NumberInv
  <1>z. \A k \in Slot : NoRecords[k] = 0
    BY DEF NoRecords
  <1>r. ASSUME NEW id \in Id, NEW st \in {"absent", "blank"}, Reset(id, st),
               made' = made, log' \in [Id -> Seq(Record)], damaged' \subseteq Id,
               cur' \in Id, dest' \in Id, next' \in 0 .. MaxRecords,
               crashes' \in 0 .. MaxCrashes, faulted' \in BOOLEAN,
               pc' \in {"idle", "new"}, damaged \ {id} \subseteq damaged'
        PROVE  NumberInv'
    <2>1. TypeOK'
      BY <1>r, <1>0, ResetFacts DEF TypeOK
    <2>2. \A other \in Id : state'[other] # "valid" =>
              /\ header'[other] = NewHeader
              /\ other \notin damaged' => slot'[other] = NoRecords
      <3>1. \A other \in Id \ {id} : other \notin damaged' => other \notin damaged
        BY <1>r
      <3> QED BY ZenonT(40), <1>r, <1>0, <3>1, ResetFacts DEF NumberInv
    <2>3. \A other \in Id : \A k \in Slot : slot'[other][k] <= made'
      <3>1. \A other \in Id : \A k \in Slot :
                slot'[other][k] = 0 \/ slot'[other][k] = slot[other][k]
        BY ZenonT(40), <1>r, <1>0, <1>z, ResetFacts
      <3>2. \A other \in Id : \A k \in Slot : slot[other][k] \in Nat /\ slot[other][k] <= made
        BY <1>0 DEF NumberInv
      <3>3. made' = made /\ made \in Nat
        BY <1>0, <1>r
      <3> QED BY <3>1, <3>2, <3>3
    <2> QED BY <1>0, <1>r, <2>1, <2>2, <2>3 DEF NumberInv
  <1>1. ASSUME NEW id \in Id, AppendOpen(id)
        PROVE  NumberInv'
    <2>1. /\ made' = made + 1 /\ made < MaxAppends /\ cur' = id /\ pc' = "init"
          /\ UNCHANGED <<dest, next, log, crashes>>
      BY <1>1 DEF AppendOpen
    <2>2. CASE UNCHANGED <<state, header, slot, damaged>> /\ state[id] # "absent"
               /\ faulted' \in BOOLEAN
      <3>1. TypeOK'
        BY <1>0, <2>1, <2>2 DEF TypeOK
      <3> QED BY <1>0, <2>1, <2>2, <3>1 DEF NumberInv
    <2>3. CASE /\ Reset(id, "blank") /\ damaged' \subseteq Id /\ faulted' \in BOOLEAN
               /\ damaged \subseteq damaged'
      <3>1. TypeOK'
        BY <1>0, <2>1, <2>3, ResetFacts DEF TypeOK
      <3>2. \A other \in Id : state'[other] # "valid" =>
                /\ header'[other] = NewHeader
                /\ other \notin damaged' => slot'[other] = NoRecords
        BY ZenonT(40), <2>3, <1>0, ResetFacts DEF NumberInv
      <3>3. \A other \in Id : \A k \in Slot : slot'[other][k] < made'
        <4>1. \A other \in Id : \A k \in Slot :
                  slot'[other][k] = 0 \/ slot'[other][k] = slot[other][k]
          BY ZenonT(40), <2>3, <1>0, <1>z, ResetFacts
        <4>2. \A other \in Id : \A k \in Slot : slot[other][k] \in Nat /\ slot[other][k] <= made
          BY <1>0 DEF NumberInv
        <4> QED BY <1>0, <2>1, <4>1, <4>2
      <3>4. state'[id] = "blank"
        BY <1>0, <2>3, ResetFacts
      <3>5. \A other \in Id : \A k \in Slot : slot'[other][k] \in Nat
        BY <3>1 DEF TypeOK, Record
      <3>6. \A other \in Id : \A k \in Slot : slot'[other][k] <= made'
        BY <1>0, <2>1, <3>3, <3>5
      <3>7. made' <= MaxAppends /\ made' > 0 /\ pc' = "init" /\ state'[cur'] # "absent"
        BY <1>0, <2>1, <3>4
      <3> QED BY <3>1, <3>2, <3>3, <3>6, <3>7 DEF NumberInv
    <2>4. faulted \in BOOLEAN /\ damaged \subseteq Id
      BY <1>0 DEF TypeOK
    <2> QED BY <1>1, <2>2, <2>3, <2>4 DEF AppendOpen, Works, Fails
  <1>2. CASE AppendInit
    <2>1. /\ pc = "init" /\ pc' = "record"
          /\ UNCHANGED <<cur, dest, next, slot, made, log, crashes>>
          /\ state' = [state EXCEPT ![cur] = "valid"]
          /\ header' \in {header, [header EXCEPT ![cur] = NewHeader]}
          /\ damaged' \subseteq Id /\ faulted' \in BOOLEAN /\ damaged \subseteq damaged'
      BY <1>0, <1>2 DEF AppendInit, Works, Fails, TypeOK
    <2>2. header' \in [Id -> Header]
      BY <1>0, <2>1, HeaderParts DEF TypeOK
    <2>3. TypeOK'
      BY <1>0, <2>1, <2>2 DEF TypeOK
    <2> QED BY <1>0, <2>1, <2>3 DEF NumberInv, TypeOK
  <1>3. CASE AppendRecord
    <2>1. PICK k \in WriteSlots(cur) : slot' = [slot EXCEPT ![cur][k] = made]
      BY <1>3 DEF AppendRecord
    <2>2. /\ pc = "record" /\ pc' = "header"
          /\ UNCHANGED <<cur, dest, next, state, header, made, log, damaged, crashes, faulted>>
      BY <1>3 DEF AppendRecord
    <2>3. k \in Slot /\ made \in Record
      BY <1>0, <2>1, <2>2, WriteSlotsInRing DEF NumberInv, Record
    <2>4. TypeOK'
      BY <1>0, <2>1, <2>2, <2>3 DEF TypeOK
    <2>5. \A id \in Id : \A j \in Slot :
              slot'[id][j] = IF id = cur /\ j = k THEN made ELSE slot[id][j]
      BY <1>0, <2>1, <2>3 DEF TypeOK
    <2>6. \A id \in Id : \A j \in Slot : slot[id][j] < made
      BY <2>2 DEF NumberInv
    <2>7. \A id \in Id : \A j \in Slot : slot'[id][j] <= made'
      BY <1>0, <2>2, <2>5, <2>6
    <2>8. cur \notin damaged => k = header[cur].write_idx
      BY <2>1, <2>2, WriteSlotOfSound
    <2>9. (cur \notin damaged => state[cur] = "valid") /\ made > 0
      BY <2>2 DEF NumberInv
    <2>10. \A id \in Id : state'[id] # "valid" =>
              header'[id] = NewHeader /\ (id \notin damaged' => slot'[id] = NoRecords)
      BY <1>0, <2>1, <2>2, <2>9 DEF NumberInv, TypeOK
    <2> QED BY <1>0, <2>2, <2>3, <2>4, <2>5, <2>6, <2>7, <2>8, <2>9, <2>10 DEF NumberInv
  <1>4. CASE AppendHeader
    <2>1. /\ pc = "header" /\ pc' = "idle"
          /\ state' = [state EXCEPT ![cur] = "valid"]
          /\ header' = [header EXCEPT ![cur] = NextHeader(header[cur])]
          /\ log' = [log EXCEPT ![cur] = Append(log[cur], made)]
          /\ UNCHANGED <<cur, dest, next, slot, made, damaged, crashes, faulted>>
      BY <1>4 DEF AppendHeader
    <2>2. NextHeader(header[cur]) \in Header
      BY <1>0, HeaderParts, SmallRemainders DEF NextHeader, Header
    <2>3. made \in Record
      BY <1>0, <2>1 DEF NumberInv, Record
    <2>4. header' \in [Id -> Header] /\ log' \in [Id -> Seq(Record)]
      BY <1>0, <2>1, <2>2, <2>3 DEF TypeOK
    <2>5. TypeOK'
      BY <1>0, <2>1, <2>4 DEF TypeOK
    <2> QED BY <1>0, <2>1, <2>3, <2>5 DEF NumberInv, TypeOK
  <1>5. CASE AppendFails
    <2>1. TypeOK'
      BY <1>0, <1>5 DEF AppendFails, Fails, TypeOK
    <2> QED BY <1>5, <2>1 DEF AppendFails, NumberInv
  <1>6. ASSUME NEW old \in Id, NEW new \in Id, RenameOpen(old, new)
        PROVE  NumberInv'
    <2>1. log' \in [Id -> Seq(Record)]
      BY <1>0, <1>6 DEF RenameOpen, TypeOK
    <2>2. /\ Reset(new, "blank") /\ made' = made /\ damaged' \subseteq Id
          /\ cur' \in Id /\ dest' \in Id /\ next' \in 0 .. MaxRecords
          /\ crashes' \in 0 .. MaxCrashes /\ faulted' \in BOOLEAN /\ pc' = "new"
          /\ damaged \ {new} \subseteq damaged'
      BY <1>0, <1>6, HeaderParts DEF RenameOpen, TypeOK
    <2> QED BY <1>r, <2>1, <2>2
  <1>7. CASE RenameHeader
    <2>1. TypeOK'
      BY <1>0, <1>7 DEF RenameHeader, TypeOK
    <2> QED BY <1>0, <1>7, <2>1 DEF RenameHeader, NumberInv, TypeOK
  <1>8. CASE RenameCopy
    <2>1. /\ pc = "copy" /\ next < MaxRecords /\ slot[cur][next] # 0
          /\ slot' = [slot EXCEPT ![dest][next] = slot[cur][next]] /\ next' = next + 1
          /\ UNCHANGED <<pc, cur, dest, state, header, made, log, damaged, crashes, faulted>>
      BY <1>8 DEF RenameCopy, CopyMore
    <2>2. next \in Slot /\ next + 1 \in 0 .. MaxRecords
      BY <1>0, <2>1, HeaderParts DEF TypeOK, Slot
    <2>3. TypeOK'
      BY <1>0, <2>1, <2>2 DEF TypeOK
    <2>4. \A id \in Id : \A j \in Slot : slot'[id][j] \in {slot[id][j], slot[cur][next]}
      BY <1>0, <2>1, <2>2 DEF TypeOK
    <2>5. \A id \in Id : \A j \in Slot : slot'[id][j] <= made'
      BY <1>0, <2>1, <2>2, <2>4 DEF NumberInv
    <2>6. state[dest] = "valid"
      BY <2>1 DEF RenameInv
    <2>7. \A id \in Id : state'[id] # "valid" =>
              header'[id] = NewHeader /\ (id \notin damaged' => slot'[id] = NoRecords)
      BY <1>0, <2>1, <2>6 DEF NumberInv, TypeOK
    <2> QED BY <1>0, <2>1, <2>3, <2>5, <2>7 DEF NumberInv
  <1>9. CASE RenameCopied
    <2>1. TypeOK'
      BY <1>0, <1>9 DEF RenameCopied, Works, Fails, TypeOK
    <2> QED BY <1>9, <2>1 DEF RenameCopied, NumberInv
  <1>10. CASE RenameFails
    <2>1. CASE UNCHANGED <<state, header, slot>> /\ damaged' = damaged \union {dest}
      <3>1. TypeOK'
        BY <1>0, <1>10, <2>1 DEF RenameFails, Fails, TypeOK
      <3> QED BY <1>10, <2>1, <3>1 DEF RenameFails, NumberInv
    <2>2. CASE Reset(dest, "absent") /\ damaged' = damaged \ {dest}
      BY <1>0, <1>10, <1>r, <2>2 DEF RenameFails, Fails, TypeOK
    <2> QED BY <1>10, <2>1, <2>2 DEF RenameFails
  <1>11. CASE RenameUnlink
    <2>1. log' \in [Id -> Seq(Record)]
      <3>1. log' = [log EXCEPT ![dest] = log[cur], ![cur] = <<>>]
        BY <1>11 DEF RenameUnlink
      <3>2. log \in [Id -> Seq(Record)] /\ <<>> \in Seq(Record) /\ log[cur] \in Seq(Record)
        BY <1>0 DEF TypeOK
      <3> QED BY <1>0, <3>1, <3>2
    <2>2. CASE Reset(cur, "absent") /\ Works
      BY <1>0, <1>11, <1>r, <2>1, <2>2 DEF RenameUnlink, Works, TypeOK
    <2>3. CASE UNCHANGED <<state, header, slot, damaged>> /\ Fails
      <3>1. TypeOK'
        BY <1>0, <1>11, <2>1, <2>3 DEF RenameUnlink, Fails, TypeOK
      <3> QED BY <1>11, <2>3, <3>1 DEF RenameUnlink, NumberInv
    <2> QED BY <1>11, <2>2, <2>3 DEF RenameUnlink
  <1>12. ASSUME NEW id \in Id, Delete(id)
         PROVE  NumberInv'
    <2>1. log' \in [Id -> Seq(Record)]
      BY <1>0, <1>12 DEF Delete, TypeOK
    <2> QED BY <1>0, <1>12, <1>r, <2>1 DEF Delete, TypeOK
  <1>13. CASE Crash
    <2>1. TypeOK'
      BY <1>0, <1>13, StoreAssumption DEF Crash, TypeOK
    <2> QED BY <1>13, <2>1 DEF Crash, NumberInv
  <1>14. CASE UNCHANGED vars
    BY <1>14 DEF vars, NumberInv, TypeOK
  <1>15. CASE AppendInitLost \/ AppendRecordLost \/ AppendHeaderLost
    <2>1. /\ UNCHANGED <<cur, dest, next, state, header, slot, made, crashes>>
          /\ damaged' = damaged \union {cur} /\ faulted' \in BOOLEAN
          /\ <<pc, pc'>> \in {<<"init", "record">>, <<"record", "header">>,
                              <<"header", "idle">>}
          /\ log' = log \/ log' = [log EXCEPT ![cur] = Append(log[cur], made)]
      BY <1>15 DEF AppendInitLost, AppendRecordLost, AppendHeaderLost, Fails
    <2>2. pc = "init" \/ pc = "record" \/ pc = "header"
      BY <2>1
    <2>3. made \in Record
      BY <1>0, <2>2 DEF NumberInv, Record
    <2>4. log' \in [Id -> Seq(Record)]
      <3>1. log \in [Id -> Seq(Record)] /\ Append(log[cur], made) \in Seq(Record)
        BY <1>0, <2>3 DEF TypeOK
      <3> QED BY <1>0, <2>1, <3>1
    <2>5. TypeOK'
      BY <1>0, <2>1, <2>4 DEF TypeOK
    <2> QED BY <1>0, <2>1, <2>2, <2>5 DEF NumberInv
  <1>16. CASE RenameCutOff
    <2>1. CASE UNCHANGED <<state, header, slot>>
      <3>1. TypeOK'
        BY <1>0, <1>16, <2>1 DEF RenameCutOff, Fails, TypeOK
      <3> QED BY <1>16, <2>1, <3>1 DEF RenameCutOff, NumberInv
    <2>2. CASE Reset(dest, "blank")
      <3>1. /\ UNCHANGED <<cur, dest, next, made, log, crashes>> /\ pc' = "unlink"
            /\ damaged' = damaged \union {dest} /\ faulted' \in BOOLEAN
        BY <1>16 DEF RenameCutOff, Fails
      <3>2. TypeOK'
        BY <1>0, <2>2, <3>1, ResetFacts DEF TypeOK
      <3>3. \A other \in Id : state'[other] # "valid" =>
                /\ header'[other] = NewHeader
                /\ other \notin damaged' => slot'[other] = NoRecords
        BY ZenonT(40), <2>2, <1>0, <3>1, ResetFacts DEF NumberInv
      <3>4. \A other \in Id : \A k \in Slot : slot'[other][k] <= made'
        <4>1. \A other \in Id : \A k \in Slot :
                  slot'[other][k] = 0 \/ slot'[other][k] = slot[other][k]
          BY ZenonT(40), <2>2, <1>0, <1>z, ResetFacts
        <4>2. \A other \in Id : \A k \in Slot : slot[other][k] <= made
          BY DEF NumberInv
        <4> QED BY <1>0, <3>1, <4>1, <4>2
      <3> QED BY <3>1, <3>2, <3>3, <3>4 DEF NumberInv
    <2> QED BY <1>16, <2>1, <2>2 DEF RenameCutOff
  <1> QED
    BY <1>1, <1>2, <1>3, <1>4, <1>5, <1>6, <1>7, <1>8, <1>9, <1>10, <1>11,
       <1>12, <1>13, <1>14, <1>15, <1>16 DEF Next, AppendCall, RenameCall

\* A rename's new file follows the old one, whatever else happens.
LEMMA RenameStep ==
    ASSUME NumberInv, RenameInv, FileInv, [Next]_vars
    PROVE  RenameInv'
  <1> USE DEF call, file
  <1>0. /\ TypeOK /\ cur \in Id /\ dest \in Id
        /\ \A id \in Id : /\ header[id] \in Header /\ slot[id] \in [Slot -> Nat]
                          /\ log[id] \in Seq(Record)
    BY StoreParts DEF NumberInv
  <1>1. ASSUME pc' \in {"idle", "init", "record", "header"}
        PROVE  RenameInv'
    BY <1>1 DEF RenameInv
  <1>2. ASSUME NEW id \in Id, AppendOpen(id)
        PROVE  RenameInv'
    BY <1>1, <1>2 DEF AppendOpen
  <1>3. CASE \/ AppendInit \/ AppendRecord \/ AppendHeader \/ AppendFails
             \/ AppendInitLost \/ AppendRecordLost \/ AppendHeaderLost
    BY <1>1, <1>3 DEF AppendInit, AppendRecord, AppendHeader, AppendFails,
                      AppendInitLost, AppendRecordLost, AppendHeaderLost
  <1>4. ASSUME NEW old \in Id, NEW new \in Id, RenameOpen(old, new)
        PROVE  RenameInv'
    <2>1. /\ cur' = old /\ dest' = new /\ next' = 0 /\ old # new /\ pc' = "new"
          /\ state[old] = "valid" /\ log' = [log EXCEPT ![new] = <<>>]
          /\ Reset(new, "blank")
      BY <1>4 DEF RenameOpen
    <2>2. state'[new] = "blank" /\ state'[old] = "valid"
      BY <1>0, <2>1, ResetFacts
    <2>3. log'[new] = <<>>
      BY <1>0, <2>1 DEF TypeOK
    <2> QED BY <2>1, <2>2, <2>3 DEF RenameInv
  <1>5. CASE RenameHeader
    <2>1. /\ pc = "new" /\ pc' = "copy" /\ UNCHANGED <<cur, dest, next, slot, log>>
          /\ state' = [state EXCEPT ![dest] = "valid"]
          /\ header' = [header EXCEPT ![dest] = header[cur]]
          /\ damaged' = IF cur \in damaged THEN damaged \union {dest} ELSE damaged
      BY <1>5 DEF RenameHeader
    <2>2. /\ cur # dest /\ state[cur] = "valid" /\ log[dest] = <<>>
          /\ state[dest] = "blank" /\ next = 0
      BY <2>1 DEF RenameInv
    <2>3. state'[dest] = "valid" /\ state'[cur] = "valid" /\ header'[dest] = header'[cur]
      BY <1>0, <2>1, <2>2 DEF TypeOK
    <2>4. ASSUME dest \notin damaged' PROVE \A k \in Slot : slot'[dest][k] = 0 /\ ~(k < next')
      <3>1. slot[dest] = NoRecords
        BY <1>0, <2>1, <2>2, <2>4 DEF NumberInv
      <3> QED BY <2>1, <2>2, <3>1 DEF NoRecords, Slot
    <2>5. dest \notin damaged' => cur \notin damaged'
      BY <2>1
    <2> QED BY <2>1, <2>2, <2>3, <2>4, <2>5 DEF RenameInv
  <1>6. CASE RenameCopy
    <2>1. /\ pc = "copy" /\ next < MaxRecords /\ slot[cur][next] # 0
          /\ slot' = [slot EXCEPT ![dest][next] = slot[cur][next]] /\ next' = next + 1
          /\ UNCHANGED <<pc, cur, dest, state, header, log, damaged>>
      BY <1>6 DEF RenameCopy, CopyMore
    <2>2. cur # dest /\ next \in Nat
      BY <1>0, <2>1 DEF RenameInv, TypeOK
    <2>3. \A k \in Slot : slot'[cur][k] = slot[cur][k]
      BY <1>0, <2>1, <2>2 DEF TypeOK
    <2>4. \A k \in Slot : slot'[dest][k] = IF k = next THEN slot[cur][next] ELSE slot[dest][k]
      BY <1>0, <2>1, <2>2 DEF TypeOK
    <2>5. ASSUME dest \notin damaged, NEW k \in Slot
          PROVE  slot'[dest][k] = IF k < next' THEN slot'[cur][k] ELSE 0
      <3>1. slot[dest][k] = IF k < next THEN slot[cur][k] ELSE 0
        BY <2>1, <2>5 DEF RenameInv
      <3>2. k < next + 1 <=> k < next \/ k = next
        BY <2>2 DEF Slot
      <3> QED BY <2>1, <2>3, <2>4, <3>1, <3>2
    <2> QED BY <2>1, <2>5 DEF RenameInv
  <1>7. CASE RenameCopied
    <2>1. /\ pc = "copy" /\ pc' = "unlink"
          /\ UNCHANGED <<cur, dest, state, header, slot, log, damaged>>
          /\ ~CopyMore
      BY <1>7 DEF RenameCopied
    <2>2. ASSUME dest \notin damaged'
          PROVE  /\ cur \notin damaged' /\ header'[dest] = header'[cur]
                 /\ slot'[dest] = slot'[cur] /\ state'[dest] = "valid"
      <3>1. damaged' = damaged /\ ~CopyMore /\ dest \notin damaged
        BY <2>1, <2>2
      <3>2. cur \notin damaged /\ header[dest] = header[cur] /\ state[dest] = "valid"
        BY <2>1, <3>1 DEF RenameInv
      <3>3. Filled(header[cur], slot[cur])
        <4>1. cur \notin Filling
          BY <2>1 DEF Filling, RenameInv
        <4> QED BY <1>0, <3>2, <4>1 DEF FileInv
      <3>4. ASSUME NEW k \in Slot
            PROVE  slot[dest][k] = slot[cur][k]
        <4>1. slot[dest][k] = IF k < next THEN slot[cur][k] ELSE 0
          BY <2>1, <3>1 DEF RenameInv
        <4>2. ~(k < next) => next \in Slot /\ slot[cur][next] = 0
          BY <1>0, <3>1, HeaderParts DEF CopyMore, TypeOK, Slot
        <4>3. ~(k < next) => next >= header[cur].count
          BY <1>0, <3>3, <4>2, HeaderParts DEF Filled, Slot
        <4>4. ~(k < next) /\ k # next => k > header[cur].count
          BY <1>0, <4>2, <4>3, HeaderParts DEF Slot
        <4>5. ~(k < next) => slot[cur][k] = 0
          BY <3>3, <4>2, <4>4 DEF Filled
        <4> QED BY <4>1, <4>5
      <3>5. slot[dest] = slot[cur]
        BY <1>0, <3>4
      <3> QED BY <2>1, <3>1, <3>2, <3>5
    <2> QED BY <2>1, <2>2 DEF RenameInv
  <1>8. CASE RenameFails \/ RenameUnlink
    BY <1>1, <1>8 DEF RenameFails, RenameUnlink
  <1>9. ASSUME NEW id \in Id, Delete(id)
        PROVE  RenameInv'
    BY <1>1, <1>9 DEF Delete
  <1>10. CASE Crash
    BY <1>1, <1>10 DEF Crash
  <1>11. CASE UNCHANGED vars
    BY <1>11 DEF vars, RenameInv
  <1>12. CASE RenameCutOff
    <2>1. /\ pc = "copy" /\ pc' = "unlink" /\ UNCHANGED <<cur, dest, log>>
          /\ UNCHANGED <<state, header, slot>> \/ Reset(dest, "blank")
          /\ dest \in damaged'
      BY <1>12 DEF RenameCutOff
    <2>2. cur # dest /\ state[cur] = "valid" /\ log[dest] = <<>>
      BY <2>1 DEF RenameInv
    <2>3. state'[cur] = "valid"
      BY <1>0, <2>1, <2>2, ResetFacts
    <2> QED BY <2>1, <2>2, <2>3 DEF RenameInv
  <1> QED
    BY <1>2, <1>3, <1>4, <1>5, <1>6, <1>7, <1>8, <1>9, <1>10, <1>11, <1>12
       DEF Next, AppendCall, RenameCall

\* A step leaves every undamaged file sound.
LEMMA FileStep ==
    ASSUME NumberInv, RenameInv, FileInv, [Next]_vars
    PROVE  FileInv'
  <1> USE DEF call, file
  <1>0. /\ TypeOK /\ cur \in Id /\ dest \in Id /\ made \in Nat
        /\ \A id \in Id : /\ header[id] \in Header /\ slot[id] \in [Slot -> Nat]
                          /\ log[id] \in Seq(Record)
    BY StoreParts DEF NumberInv
  <1>1. ASSUME NEW id \in Id, AppendOpen(id)
        PROVE  FileInv'
    <2>1. pc = "idle" /\ pc' = "init" /\ log' = log
      BY <1>1 DEF AppendOpen
    <2>2. Filling = {} /\ Filling' = {}
      BY <2>1 DEF Filling
    <2>3. CASE UNCHANGED <<state, header, slot, damaged>>
      BY <2>1, <2>2, <2>3 DEF FileInv
    <2>4. CASE Reset(id, "blank") /\ state[id] # "absent" /\ damaged' = damaged \union {id}
      <3>1. \A other \in Id \ {id} : /\ header'[other] = header[other]
                                     /\ slot'[other] = slot[other]
        BY <1>0, <2>4, ResetFacts
      <3> QED BY <2>1, <2>2, <2>4, <3>1 DEF FileInv
    <2>5. CASE Reset(id, "blank") /\ state[id] = "absent" /\ damaged' = damaged
      <3>1. \A other \in Id \ {id} : /\ header'[other] = header[other]
                                     /\ slot'[other] = slot[other]
        BY <1>0, <2>5, ResetFacts
      <3>2. /\ header'[id] = NewHeader /\ slot'[id] = NoRecords
            /\ id \notin damaged => header[id] = NewHeader /\ slot[id] = NoRecords
        BY <1>0, <2>5, ResetFacts DEF NumberInv
      <3> QED BY <2>1, <2>2, <2>5, <3>1, <3>2 DEF FileInv
    <2> QED BY <1>1, <2>3, <2>4, <2>5 DEF AppendOpen, Works, Fails
  <1>2. CASE AppendInit
    <2>1. /\ UNCHANGED <<slot, log>> /\ pc = "init" /\ pc' = "record"
          /\ \/ UNCHANGED <<header, damaged>>
             \/ /\ header' = [header EXCEPT ![cur] = NewHeader]
                /\ damaged' = damaged \union {cur}
      BY <1>2 DEF AppendInit
    <2>2. Filling = {} /\ Filling' = {}
      BY <2>1 DEF Filling
    <2>3. damaged \subseteq damaged'
          /\ \A id \in Id \ damaged' : header'[id] = header[id]
      BY <1>0, <2>1 DEF TypeOK
    <2> QED BY <2>1, <2>2, <2>3 DEF FileInv
  <1>3. CASE AppendRecord
    <2>1. PICK k \in WriteSlots(cur) : slot' = [slot EXCEPT ![cur][k] = made]
      BY <1>3 DEF AppendRecord
    <2>2. /\ pc = "record" /\ pc' = "header" /\ UNCHANGED <<cur, header, log, damaged>>
      BY <1>3 DEF AppendRecord
    <2>3. Filling = {} /\ Filling' = {}
      BY <2>2 DEF Filling
    <2>4. \A id \in Id \ {cur} : slot'[id] = slot[id]
      BY <1>0, <2>1 DEF TypeOK
    <2>5. ASSUME cur \notin damaged
          PROVE  /\ Sound(header'[cur], slot'[cur], log'[cur])
                 /\ Filled(header'[cur], slot'[cur])
      <3> DEFINE h == header[cur]
      <3>1. h \in Header /\ Sound(h, slot[cur], log[cur]) /\ Filled(h, slot[cur])
        BY <1>0, <2>3, <2>5 DEF FileInv
      <3>2. /\ slot'[cur][h.write_idx] = made /\ made # 0
            /\ \A j \in Slot \ {h.write_idx} : slot'[cur][j] = slot[cur][j]
        <4>1. k = h.write_idx /\ k \in Slot
          BY <1>0, <2>1, <2>2, <2>5, WriteSlotOfSound, WriteSlotsInRing DEF NumberInv
        <4>2. made # 0
          BY <1>0, <2>2 DEF NumberInv
        <4> QED BY <1>0, <2>1, <4>1, <4>2 DEF TypeOK
      <3> QED BY <1>0, <2>2, <3>1, <3>2, RingAfterRecord DEF Sound
    <2> QED BY <1>0, <2>2, <2>3, <2>4, <2>5 DEF FileInv
  <1>4. CASE AppendHeader
    <2>1. /\ pc = "header" /\ pc' = "idle"
          /\ header' = [header EXCEPT ![cur] = NextHeader(header[cur])]
          /\ log' = [log EXCEPT ![cur] = Append(log[cur], made)]
          /\ UNCHANGED <<cur, slot, made, damaged>>
      BY <1>4 DEF AppendHeader
    <2>2. Filling = {} /\ Filling' = {}
      BY <2>1 DEF Filling
    <2>3. /\ header'[cur] = NextHeader(header[cur])
          /\ log'[cur] = Append(log[cur], made)
          /\ \A id \in Id \ {cur} : header'[id] = header[id] /\ log'[id] = log[id]
      BY <1>0, <2>1 DEF TypeOK
    <2>4. ASSUME cur \notin damaged
          PROVE  /\ Sound(header'[cur], slot'[cur], log'[cur])
                 /\ Filled(header'[cur], slot'[cur])
      <3> DEFINE h == header[cur]
      <3>1. h \in Header /\ Sound(h, slot[cur], log[cur]) /\ Filled(h, slot[cur])
        BY <1>0, <2>2, <2>4 DEF FileInv
      <3>2. /\ made \in Record /\ slot[cur][h.write_idx] = made
            /\ \A k \in Slot \ {h.write_idx} : slot[cur][k] < made
        BY <1>0, <2>1, <2>4 DEF NumberInv, Record
      <3>3. NextHeader(h).count < MaxRecords => NextHeader(h).write_idx = NextHeader(h).count
        BY <3>1, IdxAfterAppend DEF Sound
      <3>4. /\ Ascends(NextHeader(h), slot[cur])
            /\ Kept(NextHeader(h), slot[cur], Append(log[cur], made))
            /\ Filled(NextHeader(h), slot[cur])
        BY <1>0, <3>1, <3>2, RingAfterHeader DEF Sound
      <3> QED BY <2>1, <2>3, <3>3, <3>4 DEF Sound
    <2> QED BY <1>0, <2>1, <2>2, <2>3, <2>4 DEF FileInv
  <1>5. CASE AppendFails
    BY <1>5 DEF AppendFails, FileInv, Filling
  <1>6. ASSUME NEW old \in Id, NEW new \in Id, RenameOpen(old, new)
        PROVE  FileInv'
    <2>1. /\ pc = "idle" /\ pc' = "new" /\ dest' = new /\ Reset(new, "blank")
          /\ damaged' = damaged \ {new} /\ log' = [log EXCEPT ![new] = <<>>]
      BY <1>6 DEF RenameOpen
    <2>2. Filling = {}
      BY <2>1 DEF Filling
    <2>3. /\ header'[new] = NewHeader /\ slot'[new] = NoRecords /\ log'[new] = <<>>
          /\ \A id \in Id \ {new} : /\ header'[id] = header[id] /\ slot'[id] = slot[id]
                                    /\ log'[id] = log[id]
      BY <1>0, <2>1, ResetFacts DEF TypeOK
    <2> QED BY <2>1, <2>2, <2>3, SoundFiles DEF FileInv
  <1>7. CASE RenameHeader
    <2>1. /\ pc = "new" /\ pc' = "copy" /\ UNCHANGED <<cur, dest, slot, log>>
          /\ header' = [header EXCEPT ![dest] = header[cur]]
          /\ damaged' = IF cur \in damaged THEN damaged \union {dest} ELSE damaged
      BY <1>7 DEF RenameHeader
    <2>2. /\ Filling = {dest} /\ Filling' = {dest} /\ cur # dest /\ log[dest] = <<>>
          /\ state[dest] = "blank"
      BY <2>1 DEF Filling, RenameInv
    <2>3. /\ header'[dest] = header[cur]
          /\ \A id \in Id \ {dest} : header'[id] = header[id]
      BY <1>0, <2>1 DEF TypeOK
    <2>4. ASSUME dest \notin damaged'
          PROVE  Sound(header'[dest], slot'[dest], log'[dest])
      <3>1. Sound(header[cur], slot[cur], log[cur])
        BY <1>0, <2>1, <2>4 DEF FileInv
      <3>2. slot[dest] = NoRecords
        BY <1>0, <2>1, <2>2, <2>4 DEF NumberInv
      <3>3. Ascends(header[cur], NoRecords)
        <4>1. \A i \in 1 .. header[cur].count - 1 : NoRecords[idx(header[cur], 0, i)] = 0
          <5>1. ASSUME NEW i \in 1 .. header[cur].count - 1
                PROVE  idx(header[cur], 0, i) \in Slot
            <6>1. i \in Nat /\ i < MaxRecords
              BY <1>0, HeaderParts
            <6> QED BY <1>0, <6>1, IdxInRing
          <5> QED BY <5>1 DEF NoRecords
        <4> QED BY <4>1 DEF Ascends
      <3>4. Kept(header[cur], NoRecords, <<>>)
        <4>1. Recent(<<>>) = 0
          BY HeaderParts DEF Recent
        <4> QED BY <1>0, <4>1, HeaderParts DEF Kept
      <3> QED BY <2>1, <2>2, <2>3, <3>1, <3>2, <3>3, <3>4 DEF Sound
    <2>5. damaged \subseteq damaged'
      BY <2>1
    <2> QED BY <1>0, <2>1, <2>2, <2>3, <2>4, <2>5 DEF FileInv
  <1>8. CASE RenameCopy
    <2>1. /\ pc = "copy" /\ next < MaxRecords
          /\ slot' = [slot EXCEPT ![dest][next] = slot[cur][next]]
          /\ UNCHANGED <<pc, cur, dest, header, log, damaged>>
      BY <1>8 DEF RenameCopy, CopyMore
    <2>2. Filling = {dest} /\ Filling' = {dest} /\ cur # dest /\ log[dest] = <<>>
      BY <2>1 DEF Filling, RenameInv
    <2>3. \A id \in Id \ {dest} : slot'[id] = slot[id]
      BY <1>0, <2>1 DEF TypeOK
    <2>4. ASSUME dest \notin damaged
          PROVE  Sound(header'[dest], slot'[dest], log'[dest])
      <3>1. /\ cur \notin damaged /\ header[dest] = header[cur]
            /\ \A k \in Slot : slot'[dest][k] \in {0, slot[cur][k]}
        <4>1. RenameInv'
          BY RenameStep
        <4> QED BY <1>0, <2>1, <2>2, <2>3, <2>4, <4>1 DEF RenameInv
      <3>2. Sound(header[cur], slot[cur], log[cur])
        BY <1>0, <3>1 DEF FileInv
      <3>3. Ascends(header[cur], slot'[dest])
        <4>1. ASSUME NEW i \in 1 .. header[cur].count - 1,
                     slot'[dest][idx(header[cur], 0, i)] # 0
              PROVE  slot'[dest][idx(header[cur], 0, i)] = slot[cur][idx(header[cur], 0, i)]
          <5>1. i \in Nat /\ i < MaxRecords
            BY <1>0, HeaderParts
          <5>2. idx(header[cur], 0, i) \in Slot
            BY <1>0, <5>1, IdxInRing
          <5> QED BY <3>1, <4>1, <5>2
        <4>2. Ascends(header[cur], slot[cur])
          BY <3>2 DEF Sound
        <4> QED BY <4>1, <4>2 DEF Ascends
      <3>4. Kept(header[cur], slot'[dest], <<>>)
        <4>1. Recent(<<>>) = 0
          BY HeaderParts DEF Recent
        <4> QED BY <1>0, <4>1, HeaderParts DEF Kept
      <3> QED BY <2>1, <2>2, <3>1, <3>2, <3>3, <3>4 DEF Sound
    <2> QED BY <1>0, <2>1, <2>2, <2>3, <2>4 DEF FileInv
  <1>9. CASE RenameCopied
    <2>1. /\ pc = "copy" /\ pc' = "unlink"
          /\ UNCHANGED <<cur, dest, header, slot, log, damaged>>
      BY <1>9 DEF RenameCopied
    <2>2. Filling = {dest} /\ Filling' = {} /\ cur # dest /\ log[dest] = <<>>
      BY <2>1 DEF Filling, RenameInv
    <2>3. ASSUME dest \notin damaged'
          PROVE  /\ Sound(header'[dest], slot'[dest], log'[dest])
                 /\ Filled(header'[dest], slot'[dest])
      <3>1. cur \notin damaged' /\ header'[dest] = header'[cur] /\ slot'[dest] = slot'[cur]
        <4>1. RenameInv'
          BY RenameStep
        <4> QED BY <2>1, <2>3, <4>1 DEF RenameInv
      <3>2. Sound(header[cur], slot[cur], log[cur]) /\ Filled(header[cur], slot[cur])
        BY <1>0, <2>1, <2>2, <3>1 DEF FileInv
      <3> QED BY <1>0, <2>1, <2>2, <3>1, <3>2, SoundFiles
    <2>4. \A id \in Id \ {dest} : id \in damaged => id \in damaged'
      BY <2>1
    <2> QED BY <1>0, <2>1, <2>2, <2>3, <2>4 DEF FileInv
  <1>10. CASE RenameFails
    <2>1. /\ pc \in {"new", "copy"} /\ pc' = "idle" /\ UNCHANGED <<cur, dest, log>>
          /\ \/ Reset(dest, "absent") /\ damaged' = damaged \ {dest}
             \/ UNCHANGED <<header, slot>> /\ damaged' = damaged \union {dest}
      BY <1>10 DEF RenameFails
    <2>2. Filling = {dest} /\ Filling' = {} /\ log[dest] = <<>>
      BY <2>1 DEF Filling, RenameInv
    <2>3. CASE Reset(dest, "absent") /\ damaged' = damaged \ {dest}
      <3>1. /\ header'[dest] = NewHeader /\ slot'[dest] = NoRecords
            /\ \A id \in Id \ {dest} : header'[id] = header[id] /\ slot'[id] = slot[id]
        BY <1>0, <2>3, ResetFacts
      <3> QED BY <1>0, <2>1, <2>2, <2>3, <3>1, SoundFiles DEF FileInv
    <2>4. CASE UNCHANGED <<header, slot>> /\ damaged' = damaged \union {dest}
      BY <2>1, <2>2, <2>4 DEF FileInv
    <2> QED BY <2>1, <2>3, <2>4
  <1>11. CASE RenameUnlink
    <2>1. /\ pc = "unlink" /\ pc' = "idle" /\ UNCHANGED <<cur, dest>>
          /\ log' = [log EXCEPT ![dest] = log[cur], ![cur] = <<>>]
          /\ \/ Reset(cur, "absent") /\ damaged' = damaged \ {cur}
             \/ UNCHANGED <<header, slot, damaged>>
      BY <1>11 DEF RenameUnlink
    <2>2. Filling = {} /\ Filling' = {} /\ cur # dest
      BY <2>1 DEF Filling, RenameInv
    <2>3. /\ log'[dest] = log[cur] /\ log'[cur] = <<>>
          /\ \A id \in Id \ {cur, dest} : log'[id] = log[id]
      BY <1>0, <2>1, <2>2 DEF TypeOK
    <2>4. \A id \in Id \ {cur} : header'[id] = header[id] /\ slot'[id] = slot[id]
      BY <1>0, <2>1, ResetFacts
    <2>5. ASSUME cur \notin damaged'
          PROVE  /\ Sound(header'[cur], slot'[cur], <<>>)
                 /\ Filled(header'[cur], slot'[cur])
      <3>1. CASE Reset(cur, "absent")
        BY <1>0, <3>1, ResetFacts, SoundFiles
      <3>2. CASE UNCHANGED <<header, slot, damaged>>
        <4>1. Sound(header[cur], slot[cur], log[cur]) /\ Filled(header[cur], slot[cur])
          BY <1>0, <2>2, <2>5, <3>2 DEF FileInv
        <4> QED BY <1>0, <3>2, <4>1, SoundFiles
      <3> QED BY <2>1, <3>1, <3>2
    <2>6. ASSUME dest \notin damaged'
          PROVE  /\ Sound(header'[dest], slot'[dest], log[cur])
                 /\ Filled(header'[dest], slot'[dest])
      <3>1. /\ cur \notin damaged /\ header[dest] = header[cur] /\ slot[dest] = slot[cur]
        BY <2>1, <2>2, <2>6 DEF RenameInv
      <3>2. Sound(header[cur], slot[cur], log[cur]) /\ Filled(header[cur], slot[cur])
        BY <1>0, <2>2, <3>1 DEF FileInv
      <3> QED BY <1>0, <2>2, <2>4, <3>1, <3>2
    <2>7. \A id \in Id \ {cur, dest} : id \in damaged => id \in damaged'
      BY <2>1
    <2>8. \A id \in Id \ {cur, dest} : header'[id] = header[id] /\ slot'[id] = slot[id]
      BY <2>4
    <2> QED BY <1>0, <2>2, <2>3, <2>5, <2>6, <2>7, <2>8 DEF FileInv
  <1>12. ASSUME NEW id \in Id, Delete(id)
         PROVE  FileInv'
    <2>1. /\ pc = "idle" /\ pc' = pc /\ Reset(id, "absent") /\ damaged' = damaged \ {id}
          /\ log' = [log EXCEPT ![id] = <<>>]
      BY <1>12 DEF Delete
    <2>2. Filling = {} /\ Filling' = {}
      BY <2>1 DEF Filling
    <2>3. /\ header'[id] = NewHeader /\ slot'[id] = NoRecords /\ log'[id] = <<>>
          /\ \A other \in Id \ {id} : /\ header'[other] = header[other]
                                       /\ slot'[other] = slot[other]
                                       /\ log'[other] = log[other]
      BY <1>0, <2>1, ResetFacts DEF TypeOK
    <2> QED BY <2>1, <2>2, <2>3, SoundFiles DEF FileInv
  <1>13. CASE Crash
    <2>1. /\ UNCHANGED <<header, slot, log, dest>> /\ pc' = "idle"
          /\ damaged' = IF pc \in {"new", "copy"} THEN damaged \union {dest} ELSE damaged
      BY <1>13 DEF Crash
    <2>2. damaged \union Filling = damaged'
      BY <2>1 DEF Filling
    <2> QED BY <2>1, <2>2 DEF FileInv
  <1>14. CASE UNCHANGED vars
    BY <1>14 DEF vars, FileInv, Filling
  <1>15. CASE AppendInitLost \/ AppendRecordLost \/ AppendHeaderLost
    <2>1. /\ UNCHANGED <<header, slot>> /\ damaged' = damaged \union {cur}
          /\ pc \in {"init", "record", "header"} /\ pc' \in {"record", "header", "idle"}
          /\ log' = log \/ log' = [log EXCEPT ![cur] = Append(log[cur], made)]
      BY <1>15 DEF AppendInitLost, AppendRecordLost, AppendHeaderLost
    <2>2. Filling = {} /\ Filling' = {}
      BY <2>1 DEF Filling
    <2>3. \A id \in Id \ {cur} : log'[id] = log[id]
      BY <1>0, <2>1 DEF TypeOK
    <2> QED BY <2>1, <2>2, <2>3 DEF FileInv
  <1>16. CASE RenameCutOff
    <2>1. /\ pc = "copy" /\ pc' = "unlink" /\ UNCHANGED <<dest, log>>
          /\ UNCHANGED <<state, header, slot>> \/ Reset(dest, "blank")
          /\ damaged' = damaged \union {dest}
      BY <1>16 DEF RenameCutOff
    <2>2. Filling = {dest} /\ Filling' = {}
      BY <2>1 DEF Filling
    <2>3. \A id \in Id \ {dest} : header'[id] = header[id] /\ slot'[id] = slot[id]
      BY <1>0, <2>1, ResetFacts
    <2> QED BY <2>1, <2>2, <2>3 DEF FileInv
  <1> QED
    BY <1>1, <1>2, <1>3, <1>4, <1>5, <1>6, <1>7, <1>8, <1>9, <1>10, <1>11,
       <1>12, <1>13, <1>14, <1>15, <1>16 DEF Next, AppendCall, RenameCall

-----------------------------------------------------------------------------
\* The three invariants hold in every reachable state.
THEOREM StoreInvariant == Spec => []StoreInv
  <1>1. Init => StoreInv
    <2> SUFFICES ASSUME Init PROVE StoreInv
      OBVIOUS
    <2>1. TypeOK
      <3>1. /\ MaxCrashes \in Nat /\ 0 \in 0 .. MaxRecords /\ 0 \in 0 .. MaxCrashes
            /\ NoRecords \in [Slot -> Record \union {0}] /\ NewHeader \in Header
        BY HeaderParts, StoreAssumption DEF NoRecords
      <3>2. /\ state \in [Id -> {"absent", "blank", "valid"}] /\ header \in [Id -> Header]
            /\ slot \in [Id -> [Slot -> Record \union {0}]]
        BY <3>1 DEF Init
      <3>3. log \in [Id -> Seq(Record)]
        BY DEF Init
      <3> QED BY <3>1, <3>2, <3>3 DEF Init, TypeOK
    <2>2. NumberInv
      BY <2>1, StoreAssumption DEF Init, NumberInv, NoRecords
    <2>3. RenameInv
      BY DEF Init, RenameInv
    <2>4. FileInv
      BY SoundFiles DEF Init, FileInv
    <2> QED BY <2>2, <2>3, <2>4 DEF StoreInv
  <1>2. StoreInv /\ [Next]_vars => StoreInv'
    BY NumberStep, RenameStep, FileStep DEF StoreInv
  <1> QED BY <1>1, <1>2, PTL DEF Spec

\* The headers and slots of every file stay in range, whatever fails.
THEOREM StoreTypeOK == Spec => []TypeOK
  <1>1. StoreInv => TypeOK
    BY DEF StoreInv, NumberInv
  <1> QED BY <1>1, StoreInvariant, PTL

\* A full read of an undamaged file returns records in order, all but the
\* oldest, wherever a reset or a reported error fell.
THEOREM StoreTailInOrder == Spec => []TailInOrder
  <1>1. StoreInv => TailInOrder
    <2> SUFFICES ASSUME StoreInv, NEW id \in Id \ damaged, Contents(id) # <<>>
                 PROVE  InOrder(Tail(Contents(id)))
      BY DEF TailInOrder
    <2>1. header[id] \in Header /\ slot[id] \in [Slot -> Nat]
      BY StoreParts DEF StoreInv, NumberInv
    <2>2. Ascends(header[id], slot[id])
      BY DEF StoreInv, FileInv, Sound
    <2>3. Contents(id) = ReadOut(header[id], slot[id], 0, MaxRecords)
      BY DEF Contents, ReadRange
    <2> QED BY <2>1, <2>2, <2>3, ReadAscends
  <1> QED BY <1>1, StoreInvariant, PTL

\* What a full read of an undamaged file returns that is not being filled.
LEMMA ContentsFilled ==
    ASSUME StoreInv, NEW id \in Id \ (damaged \union Filling)
    PROVE  Contents(id) = [r \in 1 .. header[id].count |-> slot[id][idx(header[id], 0, r - 1)]]
  <1>0. header[id] \in Header /\ Filled(header[id], slot[id])
    BY StoreParts DEF StoreInv, NumberInv, FileInv
  <1>1. CASE state[id] # "valid" \/ 0 >= header[id].count
    <2>1. header[id].count = 0
      BY <1>0, <1>1, HeaderParts DEF StoreInv, NumberInv, NewHeader
    <2>2. Contents(id) = <<>>
      BY <1>1 DEF Contents, ReadRange
    <2> QED BY <2>1, <2>2
  <1>2. CASE ~(state[id] # "valid" \/ 0 >= header[id].count)
    BY <1>0, <1>2, ReadFilled DEF Contents, ReadRange
  <1> QED BY <1>1, <1>2

\* Of an undamaged file a full read returns the last MaxRecords - 1
\* acknowledged records at its end and in order, under whatever id its file was
\* renamed to, wherever a reset or a reported error fell.
THEOREM StoreRecentKept == Spec => []RecentKept
  <1>1. StoreInv => RecentKept
    <2> SUFFICES ASSUME StoreInv, NEW id \in Id \ damaged
                 PROVE  LET n == Recent(log[id])
                            got == Contents(id)
                        IN /\ Len(got) >= n
                           /\ SubSeq(got, Len(got) - n + 1, Len(got))
                                = SubSeq(log[id], Len(log[id]) - n + 1, Len(log[id]))
      BY DEF RecentKept, Recent
    <2> DEFINE h == header[id]
               l == log[id]
               n == Recent(l)
               got == Contents(id)
               newest == SubSeq(l, Len(l) - n + 1, Len(l))
               tail == SubSeq(got, Len(got) - n + 1, Len(got))
    <2> SUFFICES Len(got) >= n /\ tail = newest
      OBVIOUS
    <2>0. h \in Header /\ slot[id] \in [Slot -> Nat] /\ l \in Seq(Record) /\ Sound(h, slot[id], l)
      BY StoreParts DEF StoreInv, NumberInv, FileInv
    <2>1. n \in Nat /\ n <= Len(l) /\ n <= h.count /\ Len(l) \in Nat
      BY <2>0, RecentPlaces DEF Sound, Kept
    <2>2. CASE id \in Filling
      <3>1. l = <<>>
        BY <2>2 DEF Filling, StoreInv, RenameInv
      <3>2. n = 0
        BY <2>1, <3>1
      <3>3. got \in Seq(Nat)
        <4>1. got = <<>> \/ got = ReadOut(h, slot[id], 0, MaxRecords)
          BY DEF Contents, ReadRange
        <4>2. Ascends(h, slot[id]) /\ <<>> \in Seq(Nat)
          BY <2>0 DEF Sound
        <4> QED BY <2>0, <4>1, <4>2, ReadAscends
      <3> HIDE DEF n, got, l
      <3>4. Len(got) \in Nat /\ Len(l) = 0
        BY <3>1, <3>3
      <3>5. tail = <<>> /\ newest = <<>>
        BY <3>1, <3>2, <3>3, <3>4
      <3> QED BY <3>2, <3>4, <3>5
    <2>3. CASE id \notin Filling
      <3>1. got = [r \in 1 .. h.count |-> slot[id][idx(h, 0, r - 1)]]
        BY <2>3, ContentsFilled
      <3>2. \A r \in 1 .. h.count : slot[id][idx(h, 0, r - 1)] \in Nat
        <4>1. \A r \in 1 .. h.count : r - 1 \in Nat /\ r - 1 < MaxRecords
          BY <2>0, HeaderParts
        <4> QED BY <2>0, <4>1, IdxInRing
      <3>3. h.count \in Nat
        BY <2>0, HeaderParts
      <3>4. ASSUME NEW j \in 1 .. n
            PROVE  got[h.count - n + j] = l[Len(l) - n + j]
        <4>1. n - j \in 0 .. n - 1 /\ h.count - n + j \in 1 .. h.count
          BY <2>1, <3>3
        <4>2. l[Len(l) - (n - j)] = slot[id][idx(h, 0, h.count - 1 - (n - j))]
          BY <2>0, <4>1 DEF Sound, Kept
        <4>3. /\ Len(l) - (n - j) = Len(l) - n + j
              /\ h.count - 1 - (n - j) = (h.count - n + j) - 1
          BY <2>1, <3>3
        <4> QED BY <3>1, <4>1, <4>2, <4>3
      <3>5. got \in Seq(Nat) /\ Len(got) = h.count
        <4> HIDE DEF h, got
        <4> QED BY <3>1, <3>2, <3>3
      <3> HIDE DEF n, got, l, h
      <3>6. tail = [j \in 1 .. n |-> got[h.count - n + j]]
        <4>1. got \in Seq(Nat) /\ n \in Nat /\ n <= Len(got) /\ Len(got) \in Nat
          BY <2>1, <3>3, <3>5
        <4>2. tail = [j \in 1 .. n |-> got[Len(got) - n + j]]
          BY SMTT(30), <4>1
        <4> QED BY <3>5, <4>2
      <3>7. newest = [j \in 1 .. n |-> l[Len(l) - n + j]]
        BY <2>0, <2>1
      <3> QED BY <2>1, <3>4, <3>5, <3>6, <3>7
    <2> QED BY <2>2, <2>3
  <1> QED BY <1>1, StoreInvariant, PTL

-----------------------------------------------------------------------------
\* What a full read returns of a file, and of one without gaps.
FullRead(st, h, s) ==
    IF st # "valid" \/ 0 >= h.count THEN <<>> ELSE ReadOut(h, s, 0, MaxRecords)

Listing(h, s) == [r \in 1 .. h.count |-> s[idx(h, 0, r - 1)]]

\* Until something fails no file is damaged.
Clean == ~faulted => damaged = {}

\* A full read of a file without gaps lists its ring.
LEMMA FullReadFilled ==
    ASSUME NEW h \in Header, NEW s, NEW st, st # "valid" => h = NewHeader, Filled(h, s)
    PROVE  FullRead(st, h, s) = Listing(h, s)
  <1>1. CASE st # "valid" \/ 0 >= h.count
    <2>1. h.count = 0
      BY <1>1, HeaderParts DEF NewHeader
    <2> QED BY <1>1, <2>1 DEF FullRead, Listing
  <1>2. CASE ~(st # "valid" \/ 0 >= h.count)
    BY <1>2, ReadFilled DEF FullRead, Listing
  <1> QED BY <1>1, <1>2

\* A listing has as many records as the header counts.
LEMMA ListingIsSeq ==
    ASSUME NEW h \in Header, NEW s \in [Slot -> Nat]
    PROVE  Listing(h, s) \in Seq(Nat) /\ Len(Listing(h, s)) = h.count
  <1>1. h.count \in Nat
    BY HeaderParts
  <1>2. \A r \in 1 .. h.count : s[idx(h, 0, r - 1)] \in Nat
    <2>1. \A r \in 1 .. h.count : r - 1 \in Nat /\ r - 1 < MaxRecords
      BY HeaderParts
    <2> QED BY <2>1, IdxInRing
  <1> QED BY <1>1, <1>2 DEF Listing

\* A record written over the oldest of a full ring leaves the rest of the
\* listing as it was; below a full ring it leaves all of it.
LEMMA ListingAfterRecord ==
    ASSUME NEW h \in Header, h.count < MaxRecords => h.write_idx = h.count,
           NEW s \in [Slot -> Nat], NEW t \in [Slot -> Nat],
           \A k \in Slot \ {h.write_idx} : t[k] = s[k]
    PROVE  /\ h.count < MaxRecords => Listing(h, t) = Listing(h, s)
           /\ h.count = MaxRecords => Tail(Listing(h, t)) = Tail(Listing(h, s))
  <1>1. h.count \in Nat
    BY HeaderParts
  <1>2. \A r \in 1 .. h.count : r > 1 \/ h.count < MaxRecords =>
            t[idx(h, 0, r - 1)] = s[idx(h, 0, r - 1)]
    <2>1. \A r \in 1 .. h.count : /\ r - 1 \in 0 .. h.count - 1
                                  /\ r > 1 => r - 1 > 0
      BY <1>1
    <2> QED BY <2>1, IdxNotWritten
  <1>3. CASE h.count < MaxRecords
    BY <1>2, <1>3, HeaderParts DEF Listing
  <1>4. CASE h.count = MaxRecords
    <2> DEFINE a == Listing(h, t)
               b == Listing(h, s)
    <2>1. /\ a \in Seq(Nat) /\ b \in Seq(Nat) /\ Len(a) = h.count /\ Len(b) = h.count
      BY ListingIsSeq
    <2>2. \A r \in 2 .. h.count : a[r] = b[r]
      BY <1>1, <1>2 DEF Listing
    <2>3. h.count > 0
      BY <1>4, HeaderParts
    <2> HIDE DEF a, b
    <2>4. /\ DOMAIN Tail(a) = 1 .. h.count - 1 /\ DOMAIN Tail(b) = 1 .. h.count - 1
          /\ \A i \in 1 .. h.count - 1 : Tail(a)[i] = a[i + 1] /\ Tail(b)[i] = b[i + 1]
          /\ Tail(a) \in Seq(Nat) /\ Tail(b) \in Seq(Nat)
      BY <1>1, <2>1, <2>3
    <2>5. \A i \in 1 .. h.count - 1 : i + 1 \in 2 .. h.count
      BY <1>1
    <2>6. Tail(a) = Tail(b)
      <3>1. \A i \in 1 .. h.count - 1 : Tail(a)[i] = Tail(b)[i]
        BY ZenonT(40), <2>2, <2>4, <2>5
      <3>2. Len(Tail(a)) = Len(Tail(b)) /\ Len(Tail(a)) = h.count - 1
        BY <1>1, <2>1, <2>3
      <3> QED BY <2>4, <3>1, <3>2, SeqEqual
    <2> QED BY SMTT(30), <2>6, <1>4 DEF a, b
  <1> QED BY <1>3, <1>4, HeaderParts

\* The next header appends that record to what is listed.
LEMMA ListingAfterHeader ==
    ASSUME NEW h \in Header, h.count < MaxRecords => h.write_idx = h.count,
           NEW s \in [Slot -> Nat]
    PROVE  /\ h.count < MaxRecords =>
                  Listing(NextHeader(h), s) = Append(Listing(h, s), s[h.write_idx])
           /\ h.count = MaxRecords =>
                  Listing(NextHeader(h), s) = Append(Tail(Listing(h, s)), s[h.write_idx])
  <1> DEFINE n == NextHeader(h)
             a == Listing(n, s)
             b == Listing(h, s)
             r == s[h.write_idx]
  <1>0. /\ n \in Header
        /\ n.count = IF h.count < MaxRecords THEN h.count + 1 ELSE h.count
        /\ idx(n, 0, n.count - 1) = h.write_idx
        /\ \A i \in 0 .. n.count - 2 : idx(n, 0, i) = idx(h, 0, i + (h.count + 1 - n.count))
        /\ n.count \in Nat /\ h.count \in Nat
    BY IdxAfterAppend, HeaderParts
  <1>1. /\ a \in Seq(Nat) /\ b \in Seq(Nat) /\ Len(a) = n.count /\ Len(b) = h.count
        /\ r \in Nat
    BY SMTT(30), <1>0, ListingIsSeq, HeaderParts DEF Slot
  <1>2. \A i \in 1 .. n.count : a[i] = s[idx(n, 0, i - 1)]
    BY DEF Listing
  <1>3. \A i \in 1 .. h.count : b[i] = s[idx(h, 0, i - 1)]
    BY DEF Listing
  <1> HIDE DEF n, a, b, r
  <1>4. CASE h.count < MaxRecords
    <2>1. n.count = h.count + 1
      BY <1>0, <1>4
    <2>2. a[h.count + 1] = r
      BY <1>0, <1>2, <2>1 DEF r
    <2>3. ASSUME NEW i \in 1 .. h.count PROVE a[i] = b[i]
      <3>1. i - 1 \in 0 .. n.count - 2 /\ i \in 1 .. n.count
            /\ (i - 1) + (h.count + 1 - n.count) = i - 1
        BY <1>0, <2>1
      <3> QED BY <1>0, <1>2, <1>3, <3>1
    <2>4. a = Append(b, r)
      <3>1. Append(b, r) \in Seq(Nat) /\ Len(Append(b, r)) = h.count + 1
            /\ Append(b, r)[h.count + 1] = r
            /\ \A i \in 1 .. h.count : Append(b, r)[i] = b[i]
        BY <1>0, <1>1
      <3>2. \A i \in 1 .. h.count + 1 : a[i] = Append(b, r)[i]
        BY <1>0, <2>2, <2>3, <3>1
      <3>3. Len(a) = Len(Append(b, r)) /\ Len(a) = h.count + 1
        BY <1>1, <2>1, <3>1
      <3> QED BY <1>1, <3>1, <3>2, <3>3, SeqEqual
    <2>5. h.count # MaxRecords
      BY <1>0, <1>4, HeaderParts
    <2> QED BY <2>4, <2>5 DEF n, a, b, r
  <1>5. CASE h.count = MaxRecords
    <2>1. n.count = h.count /\ h.count > 0
      BY <1>0, <1>5, HeaderParts
    <2>2. a[h.count] = r
      BY <1>0, <1>2, <2>1 DEF r
    <2>3. ASSUME NEW i \in 1 .. h.count - 1 PROVE a[i] = b[i + 1]
      <3>1. i - 1 \in 0 .. n.count - 2 /\ i \in 1 .. n.count /\ i + 1 \in 1 .. h.count
            /\ (i - 1) + (h.count + 1 - n.count) = (i + 1) - 1
        BY <1>0, <2>1
      <3> QED BY <1>0, <1>2, <1>3, <3>1
    <2> DEFINE t == Tail(b)
    <2>4. /\ t \in Seq(Nat) /\ Len(t) = h.count - 1
          /\ \A i \in 1 .. h.count - 1 : t[i] = b[i + 1]
      BY <1>0, <1>1, <2>1
    <2> HIDE DEF t
    <2>5. a = Append(t, r)
      <3>1. Append(t, r) \in Seq(Nat) /\ Len(Append(t, r)) = h.count
            /\ Append(t, r)[h.count] = r
            /\ \A i \in 1 .. h.count - 1 : Append(t, r)[i] = t[i]
        BY <1>0, <1>1, <2>4
      <3>2. \A i \in 1 .. h.count : a[i] = Append(t, r)[i]
        BY <1>0, <2>2, <2>3, <2>4, <3>1
      <3>3. Len(a) = Len(Append(t, r)) /\ Len(a) = h.count
        BY <1>1, <2>1, <3>1
      <3> QED BY <1>1, <3>1, <3>2, <3>3, SeqEqual
    <2>6. ~(h.count < MaxRecords)
      BY <1>0, <1>5
    <2> QED BY <2>5, <2>6 DEF n, a, b, r, t
  <1> QED BY <1>4, <1>5, HeaderParts

\* Each file's log, by what the calls under way have done.
LogSeen(p, c, d, id, st, h, s) ==
    IF p = "header" /\ id = c /\ h.count = MaxRecords THEN Tail(FullRead(st, h, s))
    ELSE IF p \in {"new", "copy", "unlink"} /\ id = d THEN <<>>
    ELSE FullRead(st, h, s)

\* The logs, before and after a step.
LEMMA LogsSeen ==
    /\ LogsNow = [id \in Id |-> LogSeen(pc, cur, dest, id, state[id], header[id], slot[id])]
    /\ LogsNow' = [id \in Id |->
                      LogSeen(pc', cur', dest', id, state'[id], header'[id], slot'[id])]
  BY DEF LogsNow, LogOf, LogSeen, Contents, ReadRange, FullRead

\* What a step of the logs looks like, one client at a time.
LEMMA AbstractSteps ==
    ASSUME NEW x \in Id, NEW v,
           \A id \in Id : LogsNow'[id] = IF id = x THEN v ELSE LogsNow[id]
    PROVE  /\ v = LogsNow[x] => LogsNow' = LogsNow
           /\ Len(LogsNow[x]) = MaxRecords /\ v = Tail(LogsNow[x]) => Logs!Next
           /\ \A r \in Record :
                  Len(LogsNow[x]) < MaxRecords /\ v = Append(LogsNow[x], r) => Logs!Next
           /\ v = <<>> => Logs!Next
  <1> DEFINE L(id) == LogSeen(pc, cur, dest, id, state[id], header[id], slot[id])
             M(id) == LogSeen(pc', cur', dest', id, state'[id], header'[id], slot'[id])
  <1>1. LogsNow = [id \in Id |-> L(id)] /\ LogsNow' = [id \in Id |-> M(id)]
    BY LogsSeen
  <1> HIDE DEF L, M
  <1>2. LogsNow' = [LogsNow EXCEPT ![x] = v]
    BY <1>1
  <1>3. v = LogsNow[x] => LogsNow' = LogsNow
    BY <1>1
  <1> QED BY <1>2, <1>3 DEF Logs!Next, Logs!MakeRoom, Logs!Add, Logs!Clear

\* A step in which nothing fails is one of the logs, or leaves them alone.
LEMMA RefinementStep ==
    ASSUME StoreInv, StoreInv', Clean, Clean', [Next]_vars, ~faulted'
    PROVE  Logs!Next \/ LogsNow' = LogsNow
  <1> USE DEF call, file
  <1>0. /\ TypeOK /\ cur \in Id /\ dest \in Id
        /\ \A id \in Id : /\ header[id] \in Header /\ slot[id] \in [Slot -> Nat]
                          /\ state[id] # "valid" => header[id] = NewHeader
        /\ TypeOK' /\ \A id \in Id : slot'[id] \in [Slot -> Nat]
    <2>1. TypeOK /\ TypeOK'
      BY DEF StoreInv, NumberInv
    <2>2. \A id \in Id : slot'[id] \in [Slot -> Nat]
      BY SMTT(30), <2>1 DEF TypeOK, Record
    <2> QED BY <2>1, <2>2, StoreParts DEF StoreInv, NumberInv
  <1>d. ~faulted => damaged = {} /\ damaged' = {}
    BY DEF Clean
  <1> DEFINE L(id) == LogSeen(pc, cur, dest, id, state[id], header[id], slot[id])
             M(id) == LogSeen(pc', cur', dest', id, state'[id], header'[id], slot'[id])
  <1>s. /\ LogsNow = [id \in Id |-> L(id)] /\ LogsNow' = [id \in Id |-> M(id)]
        /\ \A id \in Id : LogsNow[id] = L(id) /\ LogsNow'[id] = M(id)
    BY LogsSeen
  <1>e. FullRead("absent", NewHeader, NoRecords) = <<>>
        /\ FullRead("blank", NewHeader, NoRecords) = <<>>
        /\ \A s : FullRead("valid", NewHeader, s) = <<>>
    BY DEF FullRead, NewHeader
  <1>1. ASSUME NEW id \in Id, AppendOpen(id)
        PROVE  Logs!Next \/ LogsNow' = LogsNow
    <2>1. /\ pc = "idle" /\ pc' = "init"
          /\ \/ UNCHANGED <<state, header, slot>>
             \/ state[id] = "absent" /\ Reset(id, "blank")
      BY <1>1 DEF AppendOpen, Fails, Works
    <2>2. \A other \in Id : L(other) = FullRead(state[other], header[other], slot[other])
                           /\ M(other) = FullRead(state'[other], header'[other], slot'[other])
      BY <2>1 DEF LogSeen
    <2>3. ASSUME NEW other \in Id PROVE M(other) = L(other)
      <3>1. CASE UNCHANGED <<state, header, slot>>
        BY <2>2, <3>1
      <3>2. CASE state[id] = "absent" /\ Reset(id, "blank")
        <4>1. header[id] = NewHeader
          BY <1>0, <3>2
        <4>2. other # id => M(other) = L(other)
          BY <1>0, <2>2, <3>2, ResetFacts
        <4>3. M(id) = <<>> /\ L(id) = <<>>
          BY <1>0, <2>2, <3>2, <4>1, ResetFacts DEF FullRead
        <4> QED BY <4>2, <4>3
      <3> QED BY <2>1, <3>1, <3>2
    <2> HIDE DEF L, M
    <2> QED BY <1>s, <2>3
  <1>2. CASE AppendInit
    <2>1. /\ pc = "init" /\ pc' = "record" /\ UNCHANGED <<cur, dest, header, slot>>
          /\ state' = [state EXCEPT ![cur] = "valid"]
      BY <1>2 DEF AppendInit, Fails, Works
    <2>2. ASSUME NEW id \in Id PROVE M(id) = L(id)
      <3>1. /\ L(id) = FullRead(state[id], header[id], slot[id])
            /\ M(id) = FullRead(state'[id], header[id], slot[id])
        BY <2>1 DEF LogSeen
      <3>2. state'[id] = IF id = cur THEN "valid" ELSE state[id]
        BY <1>0, <2>1 DEF TypeOK
      <3>3. state[id] # "valid" => header[id].count = 0
        BY <1>0 DEF NewHeader
      <3> QED BY <3>1, <3>2, <3>3 DEF FullRead
    <2> HIDE DEF L, M
    <2> QED BY <1>s, <2>2
  <1>3. CASE AppendRecord
    <2>1. PICK k \in WriteSlots(cur) : slot' = [slot EXCEPT ![cur][k] = made]
      BY <1>3 DEF AppendRecord
    <2>2. /\ pc = "record" /\ pc' = "header"
          /\ UNCHANGED <<cur, dest, state, header, faulted>>
      BY <1>3 DEF AppendRecord
    <2> DEFINE h == header[cur]
               old == Listing(h, slot[cur])
               new == Listing(h, slot'[cur])
    <2>3. /\ h \in Header /\ cur \notin damaged /\ cur \notin damaged'
          /\ h.count < MaxRecords => h.write_idx = h.count
          /\ Filled(h, slot[cur]) /\ Filled(h, slot'[cur]) /\ state[cur] = "valid"
      <3>1. damaged = {} /\ damaged' = {} /\ Filling = {} /\ Filling' = {}
        BY <1>d, <2>2 DEF Filling
      <3>2. Sound(h, slot[cur], log[cur]) /\ Filled(h, slot[cur]) /\ Filled(h, slot'[cur])
        BY <1>0, <2>2, <3>1 DEF StoreInv, FileInv
      <3> QED BY <1>0, <2>2, <3>1, <3>2 DEF StoreInv, NumberInv, Sound
    <2>4. k = h.write_idx
      BY <2>1, <2>2, <2>3, WriteSlotOfSound DEF StoreInv
    <2>5. \A j \in Slot \ {h.write_idx} : slot'[cur][j] = slot[cur][j]
      BY ZenonT(40), <1>0, <2>1, <2>4 DEF TypeOK
    <2>6. /\ h.count < MaxRecords => new = old
          /\ h.count = MaxRecords => Tail(new) = Tail(old)
      BY ZenonT(40), <1>0, <2>3, <2>5, ListingAfterRecord
    <2>7. FullRead(state[cur], h, slot[cur]) = old /\ FullRead(state[cur], h, slot'[cur]) = new
      BY <2>3, FullReadFilled
    <2>8. Len(old) = h.count /\ old \in Seq(Nat)
      BY <1>0, <2>3, ListingIsSeq
    <2>9. L(cur) = old /\ M(cur) = IF h.count = MaxRecords THEN Tail(old) ELSE old
      <3>1. L(cur) = old
        BY <2>2, <2>7 DEF LogSeen
      <3>2. M(cur) = IF h.count = MaxRecords THEN Tail(new) ELSE new
        BY <2>2, <2>7 DEF LogSeen
      <3>3. h.count = MaxRecords \/ h.count < MaxRecords
        BY <2>3, HeaderParts
      <3> QED BY <2>6, <3>1, <3>2, <3>3
    <2>10. \A id \in Id : id # cur => M(id) = L(id)
      <3>1. \A id \in Id : id # cur => slot'[id] = slot[id]
        BY <1>0, <2>1 DEF TypeOK
      <3> QED BY <2>2, <3>1 DEF LogSeen
    <2> HIDE DEF L, M, old, new
    <2>11. \A id \in Id : LogsNow'[id] = IF id = cur THEN M(cur) ELSE LogsNow[id]
      BY <1>s, <2>10
    <2> QED BY <1>0, <1>s, <2>8, <2>9, <2>11, AbstractSteps
  <1>4. CASE AppendHeader
    <2>1. /\ pc = "header" /\ pc' = "idle"
          /\ UNCHANGED <<cur, dest, slot, faulted>>
          /\ state' = [state EXCEPT ![cur] = "valid"]
          /\ header' = [header EXCEPT ![cur] = NextHeader(header[cur])]
      BY <1>4 DEF AppendHeader
    <2> DEFINE h == header[cur]
               old == Listing(h, slot[cur])
               new == Listing(NextHeader(h), slot[cur])
    <2>2. /\ h \in Header /\ cur \notin damaged /\ cur \notin damaged'
          /\ h.count < MaxRecords => h.write_idx = h.count
          /\ Filled(h, slot[cur]) /\ state[cur] = "valid"
          /\ slot[cur][h.write_idx] = made /\ made \in Record
      <3>1. damaged = {} /\ damaged' = {} /\ Filling = {}
        BY <1>d, <2>1 DEF Filling
      <3>2. Sound(h, slot[cur], log[cur]) /\ Filled(h, slot[cur])
        BY <1>0, <3>1 DEF StoreInv, FileInv
      <3>3. slot[cur][h.write_idx] = made /\ made \in Record /\ state[cur] = "valid"
        BY <1>0, <2>1, <3>1 DEF StoreInv, NumberInv, TypeOK, Record
      <3> QED BY <1>0, <3>1, <3>2, <3>3 DEF Sound
    <2>3. header'[cur] = NextHeader(h) /\ NextHeader(h) \in Header /\ state' = state
      BY <1>0, <2>1, <2>2, IdxAfterAppend DEF TypeOK
    <2>4. Filled(NextHeader(h), slot[cur])
      BY <1>0, <2>1, <2>2, <2>3 DEF StoreInv, FileInv, Filling
    <2>5. /\ FullRead(state[cur], h, slot[cur]) = old
          /\ FullRead(state[cur], NextHeader(h), slot[cur]) = new
      BY <2>2, <2>3, <2>4, FullReadFilled
    <2>6. /\ h.count < MaxRecords => new = Append(old, made)
          /\ h.count = MaxRecords => new = Append(Tail(old), made)
      BY <1>0, <2>2, ListingAfterHeader
    <2>7. L(cur) = (IF h.count = MaxRecords THEN Tail(old) ELSE old) /\ M(cur) = new
      <3>1. L(cur) = IF h.count = MaxRecords THEN Tail(old) ELSE old
        BY <2>1, <2>5 DEF LogSeen
      <3>2. M(cur) = new
        BY <2>1, <2>3, <2>5 DEF LogSeen
      <3> QED BY <3>1, <3>2
    <2>8. \A id \in Id : id # cur => M(id) = L(id)
      <3>1. \A id \in Id : id # cur => header'[id] = header[id]
        BY <1>0, <2>1 DEF TypeOK
      <3> QED BY <2>1, <2>3, <3>1 DEF LogSeen
    <2>9. Len(old) = h.count /\ old \in Seq(Nat)
      BY <1>0, <2>2, ListingIsSeq
    <2> HIDE DEF L, M, old, new
    <2>10. Len(L(cur)) < MaxRecords /\ M(cur) = Append(L(cur), made)
      <3>1. CASE h.count < MaxRecords
        BY <2>2, <2>6, <2>7, <2>9, <3>1, HeaderParts
      <3>2. CASE h.count = MaxRecords
        <4>1. Len(Tail(old)) = MaxRecords - 1
          BY <2>9, <3>2, HeaderParts
        <4>2. ~(h.count < MaxRecords)
          BY <3>2, HeaderParts
        <4> QED BY <2>6, <2>7, <3>2, <4>1, HeaderParts
      <3> QED BY <2>2, <3>1, <3>2, HeaderParts
    <2>11. \A id \in Id : LogsNow'[id] = IF id = cur THEN M(cur) ELSE LogsNow[id]
      BY <1>s, <2>8
    <2> QED BY <1>0, <1>s, <2>2, <2>10, <2>11, AbstractSteps
  <1>5. CASE \/ AppendFails \/ AppendInitLost \/ AppendRecordLost \/ AppendHeaderLost
             \/ RenameFails \/ RenameCutOff \/ Crash
    BY <1>5 DEF AppendFails, AppendInitLost, AppendRecordLost, AppendHeaderLost,
                RenameFails, RenameCutOff, Crash, Fails
  <1>6. ASSUME NEW old \in Id, NEW new \in Id, RenameOpen(old, new)
        PROVE  Logs!Next \/ LogsNow' = LogsNow
    <2>1. pc = "idle" /\ pc' = "new" /\ dest' = new /\ Reset(new, "blank")
      BY <1>6 DEF RenameOpen
    <2>2. \A id \in Id : id # new =>
              state'[id] = state[id] /\ header'[id] = header[id] /\ slot'[id] = slot[id]
      BY <1>0, <2>1, ResetFacts
    <2>3. M(new) = <<>> /\ \A id \in Id : id # new => M(id) = L(id)
      BY <2>1, <2>2 DEF LogSeen
    <2> HIDE DEF L, M
    <2>4. \A id \in Id : LogsNow'[id] = IF id = new THEN <<>> ELSE LogsNow[id]
      BY <1>s, <2>3
    <2> QED BY <2>4, AbstractSteps
  <1>7. CASE RenameHeader
    <2>1. /\ pc = "new" /\ pc' = "copy" /\ UNCHANGED <<cur, dest, slot>>
          /\ state' = [state EXCEPT ![dest] = "valid"]
          /\ header' = [header EXCEPT ![dest] = header[cur]]
      BY <1>7 DEF RenameHeader
    <2>2. \A id \in Id : id # dest =>
              state'[id] = state[id] /\ header'[id] = header[id] /\ slot'[id] = slot[id]
      BY <1>0, <2>1 DEF TypeOK
    <2>3. \A id \in Id : M(id) = L(id)
      BY <2>1, <2>2 DEF LogSeen
    <2> HIDE DEF L, M
    <2> QED BY <1>s, <2>3
  <1>8. CASE RenameCopy
    <2>1. /\ pc = "copy" /\ pc' = "copy" /\ UNCHANGED <<cur, dest, state, header>>
          /\ slot' = [slot EXCEPT ![dest][next] = slot[cur][next]]
      BY <1>8 DEF RenameCopy
    <2>2. \A id \in Id : id # dest => slot'[id] = slot[id]
      BY <1>0, <2>1 DEF TypeOK
    <2>3. \A id \in Id : M(id) = L(id)
      BY <2>1, <2>2 DEF LogSeen
    <2> HIDE DEF L, M
    <2> QED BY <1>s, <2>3
  <1>9. CASE RenameCopied
    <2>1. /\ pc = "copy" /\ pc' = "unlink"
          /\ UNCHANGED <<cur, dest, state, header, slot>>
      BY <1>9 DEF RenameCopied
    <2>2. \A id \in Id : M(id) = L(id)
      BY <2>1 DEF LogSeen
    <2> HIDE DEF L, M
    <2> QED BY <1>s, <2>2
  <1>10. CASE RenameUnlink
    <2>1. /\ pc = "unlink" /\ pc' = "idle" /\ UNCHANGED <<cur, dest>>
          /\ Reset(cur, "absent") /\ faulted' = faulted
      BY <1>10 DEF RenameUnlink, Fails, Works
    <2>2. /\ cur # dest /\ header[dest] = header[cur] /\ slot[dest] = slot[cur]
          /\ state[dest] = "valid" /\ state[cur] = "valid"
      BY <1>0, <1>d, <2>1 DEF StoreInv, RenameInv
    <2>3. /\ state'[cur] = "absent" /\ header'[cur] = NewHeader /\ slot'[cur] = NoRecords
          /\ \A id \in Id : id # cur =>
              state'[id] = state[id] /\ header'[id] = header[id] /\ slot'[id] = slot[id]
      BY <1>0, <2>1, ResetFacts
    <2>4. M(cur) = <<>> /\ M(dest) = L(cur)
          /\ \A id \in Id : id # cur /\ id # dest => M(id) = L(id)
      <3>1. M(cur) = <<>>
        BY <1>e, <2>1, <2>3 DEF LogSeen
      <3>2. M(dest) = FullRead(state[dest], header[dest], slot[dest])
        BY <1>0, <2>1, <2>2, <2>3 DEF LogSeen
      <3>3. L(cur) = FullRead(state[cur], header[cur], slot[cur])
        BY <2>1, <2>2 DEF LogSeen
      <3>4. \A id \in Id : id # cur /\ id # dest => M(id) = L(id)
        BY <2>1, <2>3 DEF LogSeen
      <3> QED BY <2>2, <3>1, <3>2, <3>3, <3>4
    <2> HIDE DEF L, M
    <2>5. LogsNow' = [LogsNow EXCEPT ![dest] = LogsNow[cur], ![cur] = <<>>]
      BY <1>0, <1>s, <2>2, <2>4
    <2> QED BY <1>0, <2>2, <2>5 DEF Logs!Next, Logs!Move
  <1>11. ASSUME NEW id \in Id, Delete(id)
         PROVE  Logs!Next \/ LogsNow' = LogsNow
    <2>1. pc = "idle" /\ pc' = pc /\ Reset(id, "absent")
      BY <1>11 DEF Delete
    <2>2. /\ state'[id] = "absent" /\ header'[id] = NewHeader /\ slot'[id] = NoRecords
          /\ \A other \in Id : other # id =>
              /\ state'[other] = state[other] /\ header'[other] = header[other]
              /\ slot'[other] = slot[other]
      BY <1>0, <2>1, ResetFacts
    <2>3. M(id) = <<>> /\ \A other \in Id : other # id => M(other) = L(other)
      BY <1>e, <2>1, <2>2 DEF LogSeen
    <2> HIDE DEF L, M
    <2>4. \A other \in Id : LogsNow'[other] = IF other = id THEN <<>> ELSE LogsNow[other]
      BY <1>s, <2>3
    <2> QED BY <2>4, AbstractSteps
  <1>12. CASE UNCHANGED vars
    BY <1>12 DEF vars, LogsNow, LogOf, Contents, ReadRange
  <1> QED
    BY <1>1, <1>2, <1>3, <1>4, <1>5, <1>6, <1>7, <1>8, <1>9, <1>10, <1>11, <1>12
       DEF Next, AppendCall, RenameCall

\* Until something fails or the board is reset, the files are bounded logs: the
\* store implements BoundedLog, for every capacity and set of clients.
THEOREM StoreImplementsBoundedLog == Spec => ImplementsBoundedLog
  <1>1. Init => Clean /\ Logs!Init
    <2> SUFFICES ASSUME Init PROVE Clean /\ Logs!Init
      OBVIOUS
    <2>1. \A id \in Id : LogOf(id) = <<>>
      BY DEF Init, LogOf, Contents, ReadRange
    <2> QED BY <2>1 DEF Init, Clean, Logs!Init, LogsNow
  <1>2. StoreInv /\ Clean /\ [Next]_vars => Clean'
    <2> SUFFICES ASSUME StoreInv, Clean, [Next]_vars, ~faulted' PROVE damaged' = {}
      BY DEF Clean
    <2> USE DEF Clean, Works, Fails
    <2>1. ASSUME NEW id \in Id, AppendOpen(id) \/ Delete(id) PROVE damaged' = {}
      BY <2>1 DEF AppendOpen, Delete
    <2>2. CASE \/ AppendInit \/ AppendRecord \/ AppendHeader \/ AppendFails
               \/ AppendInitLost \/ AppendRecordLost \/ AppendHeaderLost
      BY <2>2 DEF AppendInit, AppendRecord, AppendHeader, AppendFails,
                  AppendInitLost, AppendRecordLost, AppendHeaderLost
    <2>3. ASSUME NEW old \in Id, NEW new \in Id, RenameOpen(old, new) PROVE damaged' = {}
      BY <2>3 DEF RenameOpen
    <2>4. CASE \/ RenameHeader \/ RenameCopy \/ RenameCopied \/ RenameCutOff
               \/ RenameFails \/ RenameUnlink
      BY <2>4 DEF RenameHeader, RenameCopy, RenameCopied, RenameCutOff, RenameFails,
                  RenameUnlink
    <2>5. CASE Crash \/ UNCHANGED vars
      BY <2>5 DEF Crash, vars
    <2> QED BY <2>1, <2>2, <2>3, <2>4, <2>5 DEF Next, AppendCall, RenameCall
  <1>3. StoreInv /\ StoreInv' /\ Clean /\ Clean' /\ [Next]_vars =>
            [faulted' \/ Logs!Next]_LogsNow
    BY RefinementStep
  <1> QED
    BY <1>1, <1>2, <1>3, StoreInvariant, PTL DEF Spec, ImplementsBoundedLog
=============================================================================
