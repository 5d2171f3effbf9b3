------------------------ MODULE ServerQueriesProofs ------------------------
(***************************************************************************)
(* What a query of the web page finds in a client's log, for every size of *)
(* the ring, every limit and every order of the times.                     *)
(***************************************************************************)
EXTENDS ServerQueries, FiniteSetTheorems, TLAPS

\* The records below the search are older at its lower end, and those above
\* it are not at its upper end, whether or not the log is in order.
Bracket ==
    /\ lo <= hi /\ hi <= Count
    /\ lo > 0 => log[lo] < since
    /\ hi < Count => log[hi + 1] >= since

Page(from, n) == {k \in Position : from < k /\ k <= from + n}

SearchInv ==
    /\ pc \in {"search", "found"} => limit > 0
    /\ pc \in {"search", "found"} /\ ~failed => Bracket
    /\ pc = "found" /\ ~failed => lo = hi /\ answer = Page(lo, limit)

InWindow(b) ==
    /\ b.records # {}
    /\ \A k \in b.records : b.timestamp <= log[k] /\ log[k] < b.timestamp + BucketSec

Split ==
    /\ Bucketed \union rest = answer
    /\ Len(buckets) <= MaxBuckets
    /\ pc = "done" => rest = {} \/ Len(buckets) = MaxBuckets
    /\ \A b \in DOMAIN buckets :
          /\ InWindow(buckets[b])
          /\ \A k \in buckets[b].records, j \in rest : k < j
          /\ \A c \in DOMAIN buckets :
                b < c => \A j \in buckets[b].records, k \in buckets[c].records : j < k

AnswerInv == OldOnlyForWant /\ (pc = "bucket" => kind = "aggregated")

\* The buckets made so far split what is not left, in order.
BucketInv ==
    /\ pc \notin {"bucket", "done"} => buckets = <<>>
    /\ pc = "bucket" \/ (pc = "done" /\ kind = "aggregated") => Split

-----------------------------------------------------------------------------
\* The window of a time holds the time: what integer division gives for it.
LEMMA DivWindow ==
    \A t \in Nat : /\ (t \div BucketSec) * BucketSec \in Nat
                  /\ (t \div BucketSec) * BucketSec <= t
                  /\ t < (t \div BucketSec) * BucketSec + BucketSec
<1> TAKE t \in Nat
<1> DEFINE q == t \div BucketSec
<1>1. q \in Nat /\ t = BucketSec * q + (t % BucketSec)
  BY QueryAssumption, SMTT(30)
<1>2. t % BucketSec \in 0 .. BucketSec - 1
  BY QueryAssumption, SMTT(30)
<1>3. q * BucketSec = BucketSec * q /\ q * BucketSec \in Nat
  BY <1>1, QueryAssumption, SMTT(30)
<1> QED BY <1>1, <1>2, <1>3, QueryAssumption

\* Type correctness: a ring never holds more than its capacity, and a search
\* stays inside it (data_store.c).
THEOREM TypeCorrect == Spec => []TypeOK
<1>1. Init => TypeOK
  <2> SUFFICES ASSUME Init PROVE TypeOK
    OBVIOUS
  <2>1. log \in Seq(Time) /\ Len(log) = 0 /\ buckets \in Seq(Bucket)
    BY DEF Init
  <2>2. kind \in Kind /\ since \in Time
    BY QueryAssumption DEF Init, Kind, Time
  <2>3. Count <= MaxRecords /\ answer \subseteq Position
    BY <2>1, QueryAssumption DEF Init, Count
  <2>4. /\ pc = "idle" /\ limit \in Nat /\ offset \in Nat
        /\ lo \in 0 .. MaxRecords /\ hi \in 0 .. MaxRecords
    BY QueryAssumption DEF Init
  <2>5. answer = {} /\ rest = {} /\ failed \in BOOLEAN
    BY DEF Init
  <2> QED BY <2>1, <2>2, <2>3, <2>4, <2>5 DEF TypeOK
<1>2. TypeOK /\ [Next]_vars => TypeOK'
  <2> SUFFICES ASSUME TypeOK, [Next]_vars PROVE TypeOK'
    OBVIOUS
  <2> USE QueryAssumption
  <2>1. ASSUME NEW ts \in Time, Upload(ts) PROVE TypeOK'
    <3>1. log' \in Seq(Time) /\ Len(log') <= MaxRecords
      <4>1. CASE Count = MaxRecords
        <5>1. log # <<>> BY <4>1 DEF Count, Position, TypeOK
        <5>2. Tail(log) \in Seq(Time) /\ Len(Tail(log)) = MaxRecords - 1
          BY <4>1, <5>1 DEF Count, Position, TypeOK
        <5> QED BY <2>1, <4>1, <5>2 DEF Upload
      <4>2. CASE Count # MaxRecords
        BY <2>1, <4>2 DEF Upload, Count, Position, TypeOK
      <4> QED BY <4>1, <4>2
    <3>2. answer' = {} /\ rest' = {}
      BY <2>1 DEF Upload, result, TypeOK
    <3> QED BY <2>1, <3>1, <3>2 DEF Upload, TypeOK, Count, Position, query, result
  <2>2. ASSUME NEW k \in Kind, NEW ts \in Time, NEW n \in Nat, NEW from \in Nat,
               Search(k, ts, n, from)
        PROVE TypeOK'
    <3>1. buckets' \in Seq(Bucket)
      BY <2>2 DEF Search, Begin
    <3>2. /\ log' = log /\ Count' = Count /\ lo' = 0 /\ hi' = Count
          /\ kind' \in Kind /\ since' \in Time /\ limit' \in Nat /\ offset' \in Nat
      BY <2>2 DEF Search, Begin, Count
    <3>3. /\ pc' = "search" /\ answer' = {} /\ rest' = {} /\ failed' \in BOOLEAN
      BY <2>2 DEF Search, Begin
    <3>4. Count \in 0 .. MaxRecords
      BY DEF TypeOK, Count
    <3> QED BY <3>1, <3>2, <3>3, <3>4 DEF TypeOK
  <2>3. ASSUME NEW k \in Kind, NEW from \in Int, NEW n \in Int, ReadAtOnce(k, from, n)
        PROVE TypeOK'
    <3>1. answer' \subseteq Position /\ failed' \in BOOLEAN
      BY <2>3 DEF ReadAtOnce, ReadRange, TypeOK, Position, Count
    <3>2. buckets' \in Seq(Bucket)
      BY <2>3 DEF ReadAtOnce, Begin
    <3> QED BY <2>3, <3>1, <3>2 DEF ReadAtOnce, Begin, TypeOK, Count, Position
  <2>4. CASE Probe
    <3>1. lo' \in 0 .. MaxRecords /\ hi' \in 0 .. MaxRecords
      BY <2>4 DEF Probe, LowHalf, Mid, TypeOK
    <3> QED BY <2>4, <3>1 DEF Probe, TypeOK, query, result, Count, Position
  <2>5. CASE ProbeFails
    BY <2>5 DEF ProbeFails, TypeOK, query, result, Count, Position
  <2>6. CASE Collect
    <3>1. answer' \subseteq Position /\ failed' \in BOOLEAN
      BY <2>6 DEF Collect, ReadRange, TypeOK, Position, Count
    <3> QED BY <2>6, <3>1 DEF Collect, TypeOK, query, Count, Position
  <2>7. CASE AnswerPage
    <3>1. answer' \subseteq Position /\ failed' \in BOOLEAN
      BY <2>7 DEF AnswerPage, ReadRange, TypeOK, Position, Count
    <3> QED BY <2>7, <3>1 DEF AnswerPage, TypeOK, query, Count, Position
  <2>8. CASE BeginBuckets
    BY <2>8 DEF BeginBuckets, TypeOK, query, Count, Position
  <2>9. CASE MakeBucket
    <3>1. PICK first \in rest :
            /\ buckets' = Append(buckets, [timestamp |-> Window(first),
                                           records   |-> Run(first)])
            /\ rest' = rest \ Run(first)
      BY <2>9 DEF MakeBucket
    <3>2. Run(first) \subseteq 1 .. MaxRecords
      <4>1. Position \subseteq 1 .. MaxRecords /\ rest \subseteq Position
        BY DEF TypeOK, Position, Count
      <4> QED BY <4>1 DEF Run
    <3>3. Window(first) \in Nat
      BY DivWindow DEF Window, TypeOK, Position, Count, Time
    <3>4. buckets' \in Seq(Bucket)
      BY <3>1, <3>2, <3>3 DEF TypeOK, Bucket
    <3>5. rest' \subseteq answer'
      BY <2>9, <3>1 DEF MakeBucket, TypeOK
    <3> QED BY <2>9, <3>4, <3>5 DEF MakeBucket, TypeOK, query, Count, Position
  <2>10. CASE EndBuckets
    BY <2>10 DEF EndBuckets, TypeOK, query, result, Count, Position
  <2>11. CASE Sent
    <3>1. buckets' \in Seq(Bucket)
      BY <2>11 DEF Sent
    <3>2. kind' \in Kind /\ since' \in Time
      BY <2>11 DEF Sent, Kind, Time
    <3>3. Count' <= MaxRecords /\ log' \in Seq(Time)
      BY <2>11 DEF Sent, Count, TypeOK
    <3>4. /\ pc' = "idle" /\ limit' \in Nat /\ offset' \in Nat
          /\ lo' \in 0 .. MaxRecords /\ hi' \in 0 .. MaxRecords
      BY <2>11 DEF Sent
    <3>5. answer' = {} /\ rest' = {} /\ failed' \in BOOLEAN
      BY <2>11 DEF Sent
    <3> QED BY <3>1, <3>2, <3>3, <3>4, <3>5 DEF TypeOK
  <2>12. CASE UNCHANGED vars
    BY <2>12 DEF vars, query, result, TypeOK, Count, Position
  <2> QED
    BY SMTT(30), <2>1, <2>2, <2>3, <2>4, <2>5, <2>6, <2>7, <2>8, <2>9, <2>10, <2>11,
       <2>12
    DEF Next, Request, Handle, DataGet, DataGetPage, DataAggregatedGet, ClientGet, CsvExport,
        Kind, TypeOK, Count, Position
<1> QED BY <1>1, <1>2, PTL DEF Spec

-----------------------------------------------------------------------------
\* What the bracket says where the search has ended: nothing recent is below.
LEMMA NothingRecentBelow ==
    ASSUME TypeOK, Bracket, lo = hi
    PROVE  /\ Recent \subseteq {k \in Position : lo < k}
           /\ Ascending => {k \in Position : lo < k} \subseteq Recent
<1> USE DEF Position, Count
<1>0. /\ \A k \in Position : log[k] \in Int
      /\ since \in Int /\ lo \in Nat /\ Count \in Nat
  BY QueryAssumption DEF TypeOK, Time
<1>1. ASSUME NEW k \in Recent PROVE k \in Position /\ lo < k
  <2>1. SUFFICES ASSUME k <= lo PROVE FALSE
    BY <1>0 DEF Recent
  <2>2. k \in Position /\ lo \in k .. Count
    BY <1>0, <2>1 DEF Recent, Bracket
  <2>3. log[lo] >= since
    BY <2>2 DEF Recent
  <2>4. log[lo] < since /\ log[lo] \in Int
    BY <1>0, <2>2 DEF Bracket
  <2> QED BY <1>0, <2>3, <2>4
<1>2. ASSUME Ascending, NEW k \in Position, lo < k PROVE k \in Recent
  <2>1. hi < Count /\ lo + 1 \in Position /\ log[lo + 1] >= since
    BY <1>0, <1>2 DEF Bracket
  <2>2. ASSUME NEW j \in k .. Count PROVE log[j] >= since
    <3>1. j \in Position /\ lo + 1 <= j
      BY <1>0, <1>2
    <3>2. lo + 1 < j => log[lo + 1] <= log[j]
      BY <1>2, <2>1, <3>1 DEF Ascending
    <3>3. log[lo + 1] \in Int /\ log[j] \in Int
      BY <1>0, <2>1, <3>1
    <3> QED BY <1>0, <2>1, <3>1, <3>2, <3>3
  <2> QED BY <2>2 DEF Recent
<1> QED BY <1>1, <1>2

\* Every step keeps the bracket of the search.
LEMMA SearchStep ==
    ASSUME TypeOK, TypeOK', SearchInv, [Next]_vars PROVE SearchInv'
<1> USE QueryAssumption
<1>1. ASSUME NEW ts \in Time, Upload(ts) PROVE SearchInv'
  BY <1>1 DEF Upload, SearchInv
<1>2. ASSUME NEW k \in Kind, NEW ts \in Time, NEW n \in Nat, NEW from \in Nat,
             n > 0, Search(k, ts, n, from)
      PROVE SearchInv'
  <2>1. pc' = "search" /\ limit' = n /\ lo' = 0 /\ hi' = Count /\ log' = log
    BY <1>2 DEF Search, Begin
  <2>2. Count \in Nat /\ Count' = Count
    BY <2>1 DEF Count, TypeOK
  <2> QED BY <1>2, <2>1, <2>2 DEF SearchInv, Bracket
<1>3. ASSUME NEW k \in Kind, NEW from \in Int, NEW n \in Int, ReadAtOnce(k, from, n)
      PROVE SearchInv'
  BY <1>3 DEF ReadAtOnce, Begin, SearchInv
<1>4. CASE Probe
  <2>1. /\ pc = "search" /\ lo < hi /\ log' = log /\ pc' = pc /\ since' = since
        /\ limit' = limit /\ failed' = failed /\ Count' = Count
    BY <1>4 DEF Probe, query, Count
  <2>2. CASE failed
    BY <2>1, <2>2 DEF SearchInv
  <2>3. CASE ~failed
    <3>1. Bracket /\ lo \in Nat /\ hi \in Nat /\ Count \in Nat
      BY <2>1, <2>3 DEF SearchInv, TypeOK, Count
    <3>2. Mid \in Nat /\ lo <= Mid /\ Mid < hi /\ Mid + 1 \in 1 .. Count
      BY <2>1, <3>1 DEF Mid, Bracket
    <3>3. log[Mid + 1] \in Int /\ since \in Int
      <4>1. log \in Seq(Time) /\ since \in Time /\ Mid + 1 \in 1 .. Len(log)
        BY <3>2 DEF TypeOK, Count
      <4>2. log[Mid + 1] \in Time
        BY <4>1
      <4> QED BY <4>1, <4>2 DEF Time
    <3>4. CASE Older /\ LowHalf
      BY <2>1, <3>1, <3>2, <3>3, <3>4 DEF Older, LowHalf, Bracket, SearchInv
    <3>5. CASE ~Older /\ hi' = Mid /\ lo' = lo
      <4>1. log[hi' + 1] >= since
        BY <3>3, <3>5 DEF Older
      <4>2. Bracket'
        BY <2>1, <3>1, <3>2, <3>5, <4>1 DEF Bracket
      <4> QED BY <2>1, <4>2 DEF SearchInv
    <3> QED BY <1>4, <3>4, <3>5 DEF Probe
  <2> QED BY <2>2, <2>3
<1>5. CASE ProbeFails
  BY <1>5 DEF ProbeFails, SearchInv, query
<1>6. CASE Collect
  <2>1. /\ pc = "search" /\ lo >= hi /\ pc' = "found" /\ log' = log
        /\ since' = since /\ limit' = limit /\ lo' = lo /\ hi' = hi
        /\ Count' = Count /\ Position' = Position
    BY <1>6 DEF Collect, query, Count, Position
  <2>2. CASE failed'
    BY <2>1, <2>2 DEF SearchInv
  <2>3. CASE ~failed'
    <3>1. ~failed /\ answer' = Page(lo, limit)
      BY <1>6, <2>3 DEF Collect, ReadRange, Page, TypeOK
    <3>2. Bracket /\ lo = hi
      BY <2>1, <3>1 DEF SearchInv, Bracket, TypeOK
    <3> QED BY <2>1, <3>1, <3>2 DEF SearchInv, Bracket, Page
  <2> QED BY <2>2, <2>3
<1>7. CASE AnswerPage
  BY <1>7 DEF AnswerPage, SearchInv
<1>8. CASE BeginBuckets
  BY <1>8 DEF BeginBuckets, SearchInv
<1>9. CASE MakeBucket
  BY <1>9 DEF MakeBucket, SearchInv
<1>10. CASE EndBuckets
  BY <1>10 DEF EndBuckets, SearchInv
<1>11. CASE Sent
  BY <1>11 DEF Sent, SearchInv
<1>12. CASE UNCHANGED vars
  BY <1>12 DEF vars, query, result, SearchInv, Bracket, Page, Count, Position
<1> QED
  BY <1>1, <1>2, <1>3, <1>4, <1>5, <1>6, <1>7, <1>8, <1>9, <1>10, <1>11, <1>12
  DEF Next, Request, Handle, DataGet, DataGetPage, DataAggregatedGet, ClientGet, CsvExport,
      Kind, TypeOK, Count

\* In whatever order the times are, the search keeps the place it looks for
\* between its bounds (data_store_read_since).
THEOREM SearchCorrect == Spec => []SearchInv
<1>1. Init => SearchInv
  BY DEF Init, SearchInv
<1>2. TypeOK /\ TypeOK' /\ SearchInv /\ [Next]_vars => SearchInv'
  BY SearchStep
<1> QED BY <1>1, <1>2, TypeCorrect, PTL DEF Spec

\* However a logger's clock jumps, a record uploaded since the last one older
\* than the time asked for is missing in a full answer only, and an answer has
\* no hole (data_store_read_since).
THEOREM RecentIsFound == Spec => []RecentFound
<1>1. TypeOK /\ SearchInv => RecentFound
  <2> SUFFICES ASSUME TypeOK, SearchInv, Searched
               PROVE  /\ Recent \subseteq answer \/ Cardinality(answer) = limit
                      /\ \A j, k \in answer : j .. k \subseteq answer
    BY DEF RecentFound
  <2>1. Bracket /\ lo = hi /\ answer = Page(lo, limit) /\ limit > 0
    BY DEF SearchInv, Searched
  <2>2. lo \in Nat /\ limit \in Nat /\ Count \in Nat
    BY DEF TypeOK, Count
  <2>3. Recent \subseteq {k \in Position : lo < k}
    BY <2>1, NothingRecentBelow
  <2>4. CASE Count <= lo + limit
    <3>1. Recent \subseteq answer
      BY <2>1, <2>2, <2>3, <2>4 DEF Page, Position
    <3>2. \A j, k \in answer : j .. k \subseteq answer
      BY <2>1, <2>2 DEF Page, Position
    <3> QED BY <3>1, <3>2
  <2>5. CASE lo + limit < Count
    <3>1. answer = lo + 1 .. lo + limit
      BY <2>1, <2>2, <2>5 DEF Page, Position
    <3>2. Cardinality(lo + 1 .. lo + limit) = limit
      BY <2>2, FS_Interval
    <3>3. \A j, k \in answer : j .. k \subseteq answer
      BY <2>2, <3>1
    <3> QED BY <3>1, <3>2, <3>3
  <2> QED BY <2>2, <2>4, <2>5
<1> QED BY <1>1, TypeCorrect, SearchCorrect, PTL

\* In a log in order of time nothing older is answered.
THEOREM FoundExactlyInOrder == Spec => []FoundExactly
<1>1. TypeOK /\ SearchInv => FoundExactly
  <2> SUFFICES ASSUME TypeOK, SearchInv, Searched, Ascending
               PROVE answer \subseteq Recent
    BY DEF FoundExactly
  <2>1. Bracket /\ lo = hi /\ answer = Page(lo, limit)
    BY DEF SearchInv, Searched
  <2>2. {k \in Position : lo < k} \subseteq Recent
    BY <2>1, NothingRecentBelow
  <2> QED BY <2>1, <2>2 DEF Page
<1> QED BY <1>1, TypeCorrect, SearchCorrect, PTL

-----------------------------------------------------------------------------
\* Every step keeps what is known of an answer.
LEMMA AnswerStep ==
    ASSUME TypeOK, TypeOK', SearchInv, AnswerInv, [Next]_vars PROVE AnswerInv'
<1> USE DEF AnswerInv, OldOnlyForWant
<1>1. ASSUME NEW ts \in Time, Upload(ts) PROVE AnswerInv'
  BY <1>1 DEF Upload
<1>2. ASSUME NEW k \in Kind, NEW ts \in Time, NEW n \in Nat, NEW from \in Nat,
             Search(k, ts, n, from)
      PROVE AnswerInv'
  BY <1>2 DEF Search, Begin
<1>3. ASSUME NEW k \in {"page", "latest", "csv"}, NEW from \in Int, NEW n \in Int,
             ReadAtOnce(k, from, n)
      PROVE AnswerInv'
  BY <1>3 DEF ReadAtOnce, Begin
<1>4. CASE Probe
  BY <1>4 DEF Probe
<1>5. CASE ProbeFails
  BY <1>5 DEF ProbeFails
<1>6. CASE Collect
  BY <1>6 DEF Collect
<1>7. CASE AnswerPage
  <2>1. /\ pc = "found" /\ pc' = "done" /\ log' = log /\ since' = since
        /\ kind' = kind /\ Count' = Count /\ lo \in Nat /\ Count \in Nat
    BY <1>7 DEF AnswerPage, query, TypeOK, Count
  <2>2. CASE failed
    <3>1. failed'
      BY <1>7, <2>2 DEF AnswerPage, ReadRange, NothingFound
    <3> QED BY <2>1, <3>1
  <2>3. CASE ~failed /\ lo < Count
    <3>1. lo + 1 \in answer /\ log[lo + 1] >= since /\ \A k \in answer : lo + 1 <= k
      BY SMTT(30), <2>1, <2>3 DEF SearchInv, Bracket, Page, Position, TypeOK
    <3>2. answer' = answer
      BY <1>7, <3>1 DEF AnswerPage, NothingFound
    <3> QED BY <2>1, <3>1, <3>2
  <2>4. CASE ~failed /\ ~(lo < Count)
    <3>1. lo = Count /\ (lo > 0 => log[lo] < since)
      BY <2>1, <2>4 DEF SearchInv, Bracket, TypeOK
    <3>2. Count > 0 => log[Count] \in Time /\ since \in Time
      BY <2>1 DEF TypeOK, Count
    <3>3. ~(Count > 0 /\ log[Count] >= since)
      BY <2>1, <3>1, <3>2 DEF Time
    <3> QED BY <2>1, <3>3
  <2> QED BY <2>2, <2>3, <2>4
<1>8. CASE BeginBuckets
  BY <1>8 DEF BeginBuckets, query
<1>9. CASE MakeBucket
  BY <1>9 DEF MakeBucket, query
<1>10. CASE EndBuckets
  BY <1>10 DEF EndBuckets, query
<1>11. CASE Sent
  BY <1>11 DEF Sent
<1>12. CASE UNCHANGED vars
  BY <1>12 DEF vars, query, result, Count
<1> QED
  BY SMTT(30), <1>1, <1>2, <1>3, <1>4, <1>5, <1>6, <1>7, <1>8, <1>9, <1>10, <1>11,
     <1>12,
     QueryAssumption
  DEF Next, Request, Handle, DataGet, DataGetPage, DataAggregatedGet, ClientGet, CsvExport,
      Kind, TypeOK, Count

\* A page asked for the last hours is answered with old records only when the
\* log ends in an old one (data_get_handler), for every limit and offset.
THEOREM NoOldWhenNew == Spec => []OldOnlyForWant
<1>1. Init => AnswerInv
  BY DEF Init, AnswerInv, OldOnlyForWant
<1>2. TypeOK /\ TypeOK' /\ SearchInv /\ AnswerInv /\ [Next]_vars => AnswerInv'
  BY AnswerStep
<1>3. AnswerInv => OldOnlyForWant
  BY DEF AnswerInv
<1> QED BY <1>1, <1>2, <1>3, TypeCorrect, SearchCorrect, PTL DEF Spec

-----------------------------------------------------------------------------
\* A run ends before what is left, is not empty and lies in its window.
LEMMA RunSplits ==
    ASSUME TypeOK, NEW first \in rest, \A k \in rest : first <= k
    PROVE  /\ first \in Run(first) /\ Run(first) \subseteq rest
           /\ \A k \in Run(first), j \in rest \ Run(first) : k < j
           /\ \A k \in Run(first) : /\ Window(first) <= log[k]
                                    /\ log[k] < Window(first) + BucketSec
<1>1. \A k \in rest : k \in Nat /\ log[k] \in Nat
  BY QueryAssumption DEF TypeOK, Position, Count, Time
<1>2. first \in Run(first)
  <2>1. \A j \in rest : j <= first => j = first
    BY <1>1
  <2> QED BY <2>1 DEF Run
<1>3. ASSUME NEW k \in Run(first), NEW j \in rest \ Run(first) PROVE k < j
  <2>1. PICK i \in rest : i <= j /\ Window(i) # Window(first)
    BY <1>3 DEF Run
  <2>2. ~(i <= k) /\ k \in rest
    BY <2>1 DEF Run
  <2> QED BY <1>1, <2>1, <2>2
<1>4. ASSUME NEW k \in Run(first)
      PROVE Window(first) <= log[k] /\ log[k] < Window(first) + BucketSec
  <2>1. Window(k) = Window(first) /\ log[k] \in Nat
    BY <1>1 DEF Run
  <2> QED BY <2>1, DivWindow DEF Window
<1> QED BY <1>2, <1>3, <1>4 DEF Run

\* A new bucket takes its run out of what is left.
LEMMA MakeBucketSplits ==
    ASSUME TypeOK, TypeOK', Split, MakeBucket PROVE Split'
<1>1. PICK first \in rest :
        /\ \A k \in rest : first <= k
        /\ buckets' = Append(buckets, [timestamp |-> Window(first),
                                       records   |-> Run(first)])
        /\ rest' = rest \ Run(first)
  BY DEF MakeBucket
<1> DEFINE n == Len(buckets)
<1>2. /\ n \in Nat /\ DOMAIN buckets = 1 .. n /\ DOMAIN buckets' = 1 .. n + 1
      /\ Len(buckets') = n + 1 /\ n < MaxBuckets
      /\ \A b \in 1 .. n : buckets'[b] = buckets[b]
      /\ buckets'[n + 1] = [timestamp |-> Window(first), records |-> Run(first)]
  BY <1>1, QueryAssumption DEF MakeBucket, TypeOK
<1>3. log' = log /\ answer' = answer /\ pc' = pc /\ pc = "bucket"
  BY DEF MakeBucket
<1>4. /\ first \in Run(first) /\ Run(first) \subseteq rest
      /\ \A k \in Run(first), j \in rest \ Run(first) : k < j
      /\ \A k \in Run(first) : /\ Window(first) <= log[k]
                               /\ log[k] < Window(first) + BucketSec
  BY <1>1, RunSplits
<1> HIDE DEF n
<1>5. buckets'[n + 1].records = Run(first) /\ buckets'[n + 1].timestamp = Window(first)
  BY <1>2
<1>6. (Bucketed \union rest)' = answer'
  <2>1. Bucketed' = Bucketed \union Run(first)
    <3>1. ASSUME NEW x \in Bucketed' PROVE x \in Bucketed \union Run(first)
      <4>1. PICK b \in 1 .. n + 1 : x \in buckets'[b].records
        BY <1>2 DEF Bucketed
      <4>2. CASE b = n + 1
        BY <1>5, <4>1, <4>2
      <4>3. CASE b # n + 1
        <5>1. b \in 1 .. n
          BY <1>2, <4>3
        <5> QED BY <1>2, <4>1, <5>1 DEF Bucketed
      <4> QED BY <4>2, <4>3
    <3>2. ASSUME NEW x \in Bucketed \union Run(first) PROVE x \in Bucketed'
      <4>1. CASE x \in Run(first)
        <5>1. n + 1 \in DOMAIN buckets' /\ x \in buckets'[n + 1].records
          BY <1>2, <1>5, <4>1
        <5> QED BY <5>1 DEF Bucketed
      <4>2. CASE x \in Bucketed
        <5>1. PICK b \in 1 .. n : x \in buckets[b].records
          BY <1>2, <4>2 DEF Bucketed
        <5>2. b \in DOMAIN buckets' /\ x \in buckets'[b].records
          BY <1>2, <5>1
        <5> QED BY <5>2 DEF Bucketed
      <4> QED BY <4>1, <4>2
    <3> QED BY <3>1, <3>2
  <2> QED BY <1>1, <1>3, <1>4, <2>1 DEF Split
<1>7. ASSUME NEW b \in 1 .. n
      PROVE /\ InWindow(buckets[b])
            /\ \A k \in buckets[b].records, j \in rest : k < j
            /\ \A c \in 1 .. n :
                  b < c => \A j \in buckets[b].records, k \in buckets[c].records : j < k
  BY <1>2 DEF Split
<1>8. ASSUME NEW b \in 1 .. n + 1
      PROVE /\ InWindow(buckets[b])'
            /\ \A k \in buckets'[b].records, j \in rest' : k < j
  <2>1. CASE b = n + 1
    BY <1>1, <1>3, <1>4, <1>5, <2>1 DEF InWindow
  <2>2. CASE b # n + 1
    <3>1. b \in 1 .. n
      BY <1>2, <2>2
    <3>2. buckets'[b] = buckets[b] /\ rest' \subseteq rest
      BY <1>1, <1>2, <3>1
    <3> QED BY <1>3, <1>7, <3>1, <3>2 DEF InWindow
  <2> QED BY <2>1, <2>2
<1>9. ASSUME NEW b \in 1 .. n + 1, NEW c \in 1 .. n + 1, b < c
      PROVE \A j \in buckets'[b].records, k \in buckets'[c].records : j < k
  <2>1. b \in 1 .. n /\ buckets'[b] = buckets[b]
    BY <1>2, <1>9
  <2>2. CASE c = n + 1
    BY <1>4, <1>5, <1>7, <2>1, <2>2
  <2>3. CASE c # n + 1
    <3>1. c \in 1 .. n /\ buckets'[c] = buckets[c]
      BY <1>2, <2>3
    <3> QED BY <1>7, <1>9, <2>1, <3>1
  <2> QED BY <2>2, <2>3
<1>10. Len(buckets') <= MaxBuckets
  BY <1>2, QueryAssumption
<1> QED BY <1>2, <1>3, <1>6, <1>8, <1>9, <1>10 DEF Split

\* Every step keeps the buckets a split.
LEMMA BucketStep ==
    ASSUME TypeOK, TypeOK', AnswerInv, BucketInv, [Next]_vars PROVE BucketInv'
<1>1. ASSUME NEW ts \in Time, Upload(ts) PROVE BucketInv'
  BY <1>1 DEF Upload, BucketInv, result
<1>2. ASSUME NEW k \in Kind, NEW ts \in Time, NEW n \in Nat, NEW from \in Nat,
             Search(k, ts, n, from)
      PROVE BucketInv'
  BY <1>2 DEF Search, Begin, BucketInv
<1>3. ASSUME NEW k \in {"page", "latest", "csv"}, NEW from \in Int, NEW n \in Int,
             ReadAtOnce(k, from, n)
      PROVE BucketInv'
  BY <1>3 DEF ReadAtOnce, Begin, BucketInv
<1>4. CASE Probe
  BY <1>4 DEF Probe, BucketInv, result
<1>5. CASE ProbeFails
  BY <1>5 DEF ProbeFails, BucketInv, result
<1>6. CASE Collect
  BY <1>6 DEF Collect, BucketInv
<1>7. CASE AnswerPage
  BY <1>7 DEF AnswerPage, BucketInv, query
<1>8. CASE BeginBuckets
  <2>1. /\ pc' = "bucket" /\ buckets' = <<>> /\ rest' = answer /\ answer' = answer
    BY <1>8 DEF BeginBuckets, BucketInv
  <2>2. DOMAIN buckets' = {} /\ Len(buckets') = 0
    BY <2>1
  <2>3. Bucketed' = {}
    BY <2>2 DEF Bucketed
  <2> QED BY <2>1, <2>2, <2>3, QueryAssumption DEF BucketInv, Split
<1>9. CASE MakeBucket
  <2>1. pc = "bucket" /\ pc' = "bucket"
    BY <1>9 DEF MakeBucket
  <2>2. Split'
    BY <1>9, <2>1, MakeBucketSplits DEF BucketInv
  <2> QED BY <2>1, <2>2 DEF BucketInv
<1>10. CASE EndBuckets
  <2>1. /\ pc = "bucket" /\ pc' = "done" /\ UNCHANGED <<log, answer, rest, buckets>>
        /\ rest = {} \/ Len(buckets) >= MaxBuckets
    BY <1>10 DEF EndBuckets, result
  <2>2. Split /\ Len(buckets) \in Nat
    BY <2>1 DEF BucketInv, TypeOK
  <2>3. Bucketed' = Bucketed
    BY <2>1 DEF Bucketed
  <2> QED BY <2>1, <2>2, <2>3, QueryAssumption DEF BucketInv, Split, InWindow
<1>11. CASE Sent
  BY <1>11 DEF Sent, BucketInv
<1>12. CASE UNCHANGED vars
  BY <1>12 DEF vars, query, result, BucketInv, Split, InWindow, Bucketed
<1> QED
  BY <1>1, <1>2, <1>3, <1>4, <1>5, <1>6, <1>7, <1>8, <1>9, <1>10, <1>11, <1>12,
     QueryAssumption
  DEF Next, Request, Handle, DataGet, DataGetPage, DataAggregatedGet, ClientGet, CsvExport,
      Kind, TypeOK, Count

\* Whatever order the times are in, the averages of data_store_read_aggregated
\* are over runs that split what was read, each inside the window it names.
THEOREM BucketsAreASplit == Spec => []BucketsSplit
<1>1. Init => BucketInv
  BY DEF Init, BucketInv
<1>2. TypeOK /\ TypeOK' /\ AnswerInv /\ BucketInv /\ [Next]_vars => BucketInv'
  BY BucketStep
<1>3. BucketInv => BucketsSplit
  BY DEF BucketInv, BucketsSplit, Split, InWindow
<1>4. Spec => []AnswerInv
  <2>1. Init => AnswerInv
    BY DEF Init, AnswerInv, OldOnlyForWant
  <2>2. TypeOK /\ TypeOK' /\ SearchInv /\ AnswerInv /\ [Next]_vars => AnswerInv'
    BY AnswerStep
  <2> QED BY <2>1, <2>2, TypeCorrect, SearchCorrect, PTL DEF Spec
<1> QED BY <1>1, <1>2, <1>3, <1>4, TypeCorrect, PTL DEF Spec
=============================================================================
