--------------------------- MODULE ServerQueries ---------------------------
(***************************************************************************)
(* What the web page gets to see of a client's records: the read side of   *)
(* apps/server/main/data_store.c (read_since, get_count, read_aggregated)  *)
(* and the handlers of http_server.c that answer from it.                  *)
(*                                                                         *)
(* Uploads and queries are requests of one task, so the log stands still   *)
(* while it is searched, one probe per step.  Its times need not ascend: a *)
(* logger's clock may be set back, and the server stamps records of a      *)
(* logger without a clock with its own.  A record is its time; an answer   *)
(* is the set of the positions in the log whose records it lists, in the   *)
(* order of the log (csv_export_handler: in the order of the file).        *)
(***************************************************************************)
EXTENDS Integers, Sequences, FiniteSets

CONSTANTS
    MaxTime,     \* bound: times are 0 .. MaxTime
    MaxRecords,  \* capacity of a client's ring
    MaxLimit,    \* the most records data_get_handler answers with (2000)
    MaxRaw,      \* max_raw of data_store_read_aggregated (2000)
    MaxBuckets,  \* capacity of data_aggregated_get_handler (480)
    Latest,      \* records in client_get_handler's answer (24)
    BucketSec,   \* bucket_sec
    Faults       \* {} or {"read_error"}: an fread of a record may fail

ASSUME QueryAssumption ==
    /\ MaxTime \in Nat /\ MaxRecords \in Nat \ {0}
    /\ MaxLimit \in Nat \ {0} /\ MaxRaw \in Nat \ {0} /\ MaxBuckets \in Nat \ {0}
    /\ Latest \in Nat \ {0} /\ BucketSec \in Nat \ {0}
    /\ Faults \subseteq {"read_error"}

Time == 0 .. MaxTime
Kind == {"data", "page", "aggregated", "latest", "csv"}
Bucket == [timestamp : Nat, records : SUBSET (1 .. MaxRecords)]

VARIABLES
    log,      \* the times of the client's records, oldest first
    pc,       \* where the request under way is
    kind,     \* the handler that runs
    since,    \* since_ts
    limit,    \* the capacity of the records asked for
    offset,   \* the offset of data_get_handler
    lo, hi,   \* the bounds of the search in read_since
    answer,   \* the positions of the records read
    rest,     \* read_aggregated: those not in a bucket yet
    buckets,  \* read_aggregated: the buckets made
    failed    \* an fread of this request has failed

query == <<kind, since, limit, offset>>
result == <<answer, rest, buckets>>
vars == <<log, pc, query, lo, hi, result, failed>>

Count == Len(log)
Position == 1 .. Count

TypeOK ==
    /\ log \in Seq(Time) /\ Count <= MaxRecords
    /\ pc \in {"idle", "search", "found", "bucket", "done"}
    /\ kind \in Kind /\ since \in Time
    /\ limit \in Nat /\ offset \in Nat
    /\ lo \in 0 .. MaxRecords /\ hi \in 0 .. MaxRecords
    /\ answer \subseteq Position /\ rest \subseteq answer
    /\ pc = "idle" => answer = {}
    /\ pc \notin {"bucket", "done"} => rest = {}
    /\ buckets \in Seq(Bucket)
    /\ failed \in BOOLEAN

Init ==
    /\ log = <<>>
    /\ pc = "idle" /\ kind = "data" /\ since = 0 /\ limit = 0 /\ offset = 0
    /\ lo = 0 /\ hi = 0
    /\ answer = {} /\ rest = {} /\ buckets = <<>>
    /\ failed = FALSE

-----------------------------------------------------------------------------
\* Mutant: the ring has no end.
MutUpload(ts) ==
    /\ pc = "idle" /\ Count <= MaxRecords
    /\ log' = Append(log, ts)
    /\ UNCHANGED <<pc, query, lo, hi, result, failed>>

\* An uploaded record goes to the end of the ring.
Upload(ts) ==
    /\ pc = "idle"
    /\ log' = Append(IF Count = MaxRecords THEN Tail(log) ELSE log, ts)
    /\ UNCHANGED <<pc, query, lo, hi, result, failed>>

\* data_store_read_range: the positions from the offset on; a record that
\* cannot be read is left out.  before: whether a read has failed before.
ReadRange(from, n, before) ==
    LET range == {k \in Position : from < k /\ k <= from + n}
    IN \/ answer' = range /\ failed' = before
       \/ /\ "read_error" \in Faults
          /\ answer' \in (SUBSET range) \ {range}
          /\ failed' = TRUE

Begin(k, next) ==
    /\ pc = "idle"
    /\ kind' = k
    /\ pc' = next
    /\ rest' = {} /\ buckets' = <<>>

\* A search begins with what data_store_get_count finds in the header.
Search(k, ts, n, from) ==
    /\ Begin(k, "search")
    /\ since' = ts /\ limit' = n /\ offset' = from
    /\ lo' = 0 /\ hi' = Count
    /\ answer' = {} /\ failed' = FALSE
    /\ UNCHANGED log

\* data_get_handler and data_aggregated_get_handler.
DataGet(ts, n, from) == Search("data", ts, n, from)
DataAggregatedGet(ts) == Search("aggregated", ts, MaxRaw, 0)

\* data_get_handler without a time answers with a page of the log,
\* client_get_handler with the last records, csv_export_handler with all.
ReadAtOnce(k, from, n) ==
    /\ Begin(k, "done")
    /\ ReadRange(from, n, FALSE)
    /\ UNCHANGED <<log, since, limit, offset, lo, hi>>

DataGetPage(n, from) == ReadAtOnce("page", from, n)

ClientGet ==
    ReadAtOnce("latest", IF Count > Latest THEN Count - Latest ELSE 0, Latest)

CsvExport == ReadAtOnce("csv", 0, MaxRecords)
-----------------------------------------------------------------------------
Mid == (lo + hi) \div 2

\* Mutants: the search does not get past the middle; it stops a second
\* early.
MutLowHalf == lo' = Mid /\ hi' = hi
MutNearly == log[Mid + 1] + 1 < since

\* read_since: whether the probed record is older than what is asked for,
\* and what the search then goes on in.
Older == log[Mid + 1] < since
LowHalf == lo' = Mid + 1 /\ hi' = hi

Probe ==
    /\ pc = "search" /\ lo < hi
    /\ \/ Older /\ LowHalf
       \/ ~Older /\ hi' = Mid /\ lo' = lo
    /\ UNCHANGED <<log, pc, query, result, failed>>

\* A probe that fails ends the search where it is.
ProbeFails ==
    /\ pc = "search" /\ lo < hi
    /\ "read_error" \in Faults
    /\ hi' = lo /\ failed' = TRUE
    /\ UNCHANGED <<log, pc, query, lo, result>>

\* Mutant: the record that the search ends at is passed over.
MutCollect ==
    /\ pc = "search" /\ lo >= hi
    /\ pc' = "found"
    /\ ReadRange(lo + 1, limit, failed)
    /\ UNCHANGED <<log, query, lo, hi, rest, buckets>>

\* What was found is read, up to the capacity.
Collect ==
    /\ pc = "search" /\ lo >= hi
    /\ pc' = "found"
    /\ ReadRange(lo, limit, failed)
    /\ UNCHANGED <<log, query, lo, hi, rest, buckets>>

\* data_get_handler: when there is nothing to answer, the page at the offset
\* is, whether a time was asked for or not.
NothingFound == answer = {}

AnswerPage ==
    /\ pc = "found" /\ kind = "data"
    /\ pc' = "done"
    /\ \/ NothingFound /\ ReadRange(offset, limit, failed)
       \/ ~NothingFound /\ UNCHANGED <<answer, failed>>
    /\ UNCHANGED <<log, query, lo, hi, rest, buckets>>

-----------------------------------------------------------------------------
BeginBuckets ==
    /\ pc = "found" /\ kind = "aggregated"
    /\ pc' = "bucket" /\ rest' = answer
    /\ UNCHANGED <<log, query, lo, hi, answer, buckets, failed>>

Window(k) == (log[k] \div BucketSec) * BucketSec

\* Mutant: records of the same window are put together wherever they are.
MutRun(first) == {k \in rest : Window(k) = Window(first)}

\* read_aggregated, inner loop: the records from the first one on as long as
\* they are of its window.
Run(first) == {k \in rest : \A j \in rest : j <= k => Window(j) = Window(first)}

MakeBucket ==
    /\ pc = "bucket" /\ rest # {} /\ Len(buckets) < MaxBuckets
    /\ \E first \in rest :
           /\ \A k \in rest : first <= k
           /\ buckets' = Append(buckets, [timestamp |-> Window(first),
                                          records   |-> Run(first)])
           /\ rest' = rest \ Run(first)
    /\ UNCHANGED <<log, pc, query, lo, hi, answer, failed>>

EndBuckets ==
    /\ pc = "bucket" /\ (rest = {} \/ Len(buckets) >= MaxBuckets)
    /\ pc' = "done"
    /\ UNCHANGED <<log, query, lo, hi, result, failed>>

\* The answer is sent and its memory freed; the task takes the next request.
Sent ==
    /\ pc = "done"
    /\ pc' = "idle" /\ kind' = "data" /\ since' = 0 /\ limit' = 0 /\ offset' = 0
    /\ lo' = 0 /\ hi' = 0
    /\ answer' = {} /\ rest' = {} /\ buckets' = <<>>
    /\ failed' = FALSE
    /\ UNCHANGED log

Request ==
    \/ \E ts \in Time : Upload(ts) \/ DataAggregatedGet(ts)
    \/ \E n \in 1 .. MaxLimit, from \in 0 .. MaxRecords :
          DataGetPage(n, from) \/ \E ts \in Time : DataGet(ts, n, from)
    \/ ClientGet \/ CsvExport

Handle == \/ Probe \/ Collect \/ AnswerPage
          \/ BeginBuckets \/ MakeBucket \/ EndBuckets \/ Sent

Next == Request \/ Handle \/ ProbeFails

Spec == Init /\ [][Next]_vars

\* The task goes on with its request; no read has to fail.
FairSpec == Spec /\ WF_vars(Handle)

-----------------------------------------------------------------------------
\* The positions from which on no record is older than what was asked for.
Recent == {k \in Position : \A j \in k .. Count : log[j] >= since}

Ascending == \A j, k \in Position : j < k => log[j] <= log[k]

Searched == pc = "found" /\ ~failed

\* However the times jump, the search never lands behind a record that is not
\* followed by an old one: such a record is left out only of an answer that is
\* full, and an answer is a run of the log without a hole.  Which end of the
\* log a full answer leaves out is not part of this: data_store.h:67 says that
\* read_since answers "newest-first", the code reads on from the oldest.
RecentFound ==
    Searched => /\ Recent \subseteq answer \/ Cardinality(answer) = limit
                /\ \A j, k \in answer : j .. k \subseteq answer

\* In a log whose times ascend exactly the records asked for are read.
FoundExactly ==
    Searched /\ Ascending => answer \subseteq Recent

\* data_get_handler falls back to a page of old records only when the newest
\* record is older than what was asked for: a page that shows the last hours
\* is never answered with old records while there is a new one.
OldOnlyForWant ==
    /\ pc = "done" /\ kind = "data" /\ ~failed
    /\ Count > 0 /\ log[Count] >= since
    =>  \E k \in answer : /\ log[k] >= since
                          /\ \A j \in answer : k <= j

Bucketed == UNION {buckets[b].records : b \in DOMAIN buckets}

\* The buckets split the records read into consecutive runs, each inside the
\* window it is labelled with, and none is in two buckets or in none, unless
\* the buckets run out.
BucketsSplit ==
    pc = "done" /\ kind = "aggregated" =>
        /\ Bucketed \subseteq answer
        /\ Bucketed = answer \/ Len(buckets) = MaxBuckets
        /\ \A b, c \in DOMAIN buckets :
              b < c => \A j \in buckets[b].records, k \in buckets[c].records : j < k
        /\ \A b \in DOMAIN buckets :
              /\ buckets[b].records # {}
              /\ \A k \in buckets[b].records :
                    /\ buckets[b].timestamp <= log[k]
                    /\ log[k] < buckets[b].timestamp + BucketSec

\* The search ends, and so does the making of buckets: a request that has
\* begun is answered.
Answered == pc = "search" ~> pc = "done"
=============================================================================
