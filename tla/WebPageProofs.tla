--------------------------- MODULE WebPageProofs ----------------------------
(***************************************************************************)
(* Theorems about WebPage, for every set of clients, ranges, names and     *)
(* settings, every bound on clicks and every number of failures.           *)
(***************************************************************************)
EXTENDS WebPage, TLAPS

\* The arguments and the answers of calls.
Args == Id \union Hours \union Mode \union Name \union Value \union {NoId}
Answers == BOOLEAN \union Client \union Args

\* A call that the server has answered, whether or not the body has come.
Has(c) == c.state \in {"answered", "stalled"}

\* What a call of each function asks for, and what it is answered with.
Formed(c) ==
    /\ c.fn = "save" => c.id \in Setting
    /\ c.fn \notin {"save", "later"} => c.id \in Id
    /\ c.fn \in {"data", "range"} => c.arg \in Hours
    /\ c.fn = "toggle" => c.arg \in Mode
    /\ c.fn = "id" => c.arg \in Id
    /\ c.fn = "name" => c.arg \in Name
    /\ c.fn = "later" => c.state = "answered"
    /\ c.fn \notin {"client", "id"} => c.ok
    /\ Has(c) /\ c.ok =>
          /\ c.fn \in {"data", "range"} => c.answer \in BOOLEAN
          /\ c.fn = "client" => c.answer \in Client
          /\ c.fn \in {"toggle", "id", "name"} => c.answer = c.arg

\* The calls there can be.
CallSet ==
    {c \in [fn : Function, id : Id \union Setting \union {NoId}, arg : Args,
            state : {"sent", "answered", "stalled", "lost", "orphan"}, ok : BOOLEAN,
            answer : Answers] : Formed(c)}

\* Those there are.
CallsOK == calls \in Seq(CallSet)

\* Until a client has been opened there are no calls but those of settings.
Opened ==
    currentClientId = NoId =>
        title.id = NoId /\ \A k \in DOMAIN calls : calls[k].fn = "save"

\* A call is given up only when something fails.
Orphans == trouble \/ \A k \in DOMAIN calls : calls[k].state # "orphan"

\* A call that will end in the page showing the numbers of a client, or that
\* they could not be had.
Loads(c) == c.state # "orphan" /\ c.fn \in {"data", "client", "later"}

\* As long as the user waits for the page there is one call at a time.
OneWaits(s) ==
    \A j, k \in DOMAIN s : s[j].state # "orphan" /\ s[k].state # "orphan" => j = k

LoadsCurrent(s, id) ==
    \A k \in DOMAIN s : Loads(s[k]) /\ s[k].fn # "later" => s[k].id = id

WillShow(s, id, m) ==
    \/ id = NoId
    \/ \E k \in DOMAIN s : Loads(s[k])
    \/ m.id = id /\ m.says # "loading"

Alone ==
    ~hurried =>
        /\ OneWaits(calls)
        /\ LoadsCurrent(calls, currentClientId)
        /\ WillShow(calls, currentClientId, metrics)
        /\ reordered => trouble

\* Nothing is on the way that replaces the client or its mode, and nothing
\* has got lost.
Steady(s) ==
    \A k \in DOMAIN s : s[k].fn \notin {"toggle", "id", "later"} /\ s[k].state # "lost"

\* Call k is one of F, and none of G comes after it.
LastOf(s, F, G, k) ==
    /\ k \in DOMAIN s /\ s[k].fn \in F
    /\ \A j \in DOMAIN s : j > k => s[j].fn \notin G

Without(s, F) == \A k \in DOMAIN s : s[k].fn \notin F

\* The last data asked for, or the data there are, are those of the client
\* that is shown...
DataFollow(s, id, data) ==
    /\ \A k \in DOMAIN s : LastOf(s, {"data", "range"}, {"data"}, k) => s[k].id = id
    /\ Without(s, {"data"}) => data.id = id

\* ... and of the range that was chosen.
RangeFollows(s, range, data) ==
    /\ \A k \in DOMAIN s :
          LastOf(s, {"data", "range"}, {"data", "range"}, k) => s[k].arg = range
    /\ Without(s, {"data", "range"}) => data.range = range

\* The last client asked for is the one that is shown, and the answer is true.
Current(c, id, cs) ==
    /\ c.id = id
    /\ Has(c) /\ c.ok => id \in DOMAIN cs /\ c.answer.mode = cs[id].mode

ClientFollows(s, id, cs) ==
    Without(s, {"data"}) =>
        \A k \in DOMAIN s : LastOf(s, {"client"}, {"client"}, k) => Current(s[k], id, cs)

\* The page as it is when neither is on the way.
ShowsCurrent(id, cs, mode, data, t, m, ch) ==
    /\ t.id = id
    /\ m.id = id /\ m.says \notin {"loading", "failed"}
    /\ id \in DOMAIN cs /\ mode = cs[id].mode
    /\ data.some => ch.id \in {NoId, id}

ShownFollow(s, id, cs, mode, data, t, m, ch) ==
    Without(s, {"data", "client"}) => ShowsCurrent(id, cs, mode, data, t, m, ch)

\* Calls that are answered in their order leave the page with the client that
\* was opened last.
Guarded == ~reordered /\ ~trouble /\ currentClientId # NoId /\ Steady(calls)

Follows ==
    /\ DataFollow(calls, currentClientId, currentData)
    /\ RangeFollows(calls, currentTimeRange, currentData)
    /\ ClientFollows(calls, currentClientId, clients)
    /\ ShownFollow(calls, currentClientId, clients, currentBasicMode, currentData,
                   title, metrics, charts)

Following == Guarded => Follows

-----------------------------------------------------------------------------
\* What taking a call out of the calls leaves.
Leaves(s, k, t) ==
    /\ Len(t) = Len(s) - 1 /\ DOMAIN t = 1 .. Len(s) - 1
    /\ \A i \in DOMAIN t : /\ i < k => i \in DOMAIN s /\ t[i] = s[i]
                           /\ i >= k => i + 1 \in DOMAIN s /\ t[i] = s[i + 1]

\* RemoveAt takes out the call at one place.
LEMMA RemoveLeaves ==
    ASSUME NEW S, NEW s \in Seq(S), NEW k \in DOMAIN s
    PROVE  RemoveAt(s, k) \in Seq(S) /\ Leaves(s, k, RemoveAt(s, k))
  <1>1. k \in Nat /\ 1 <= k /\ k <= Len(s) /\ Len(s) \in Nat
    OBVIOUS
  <1> DEFINE a == SubSeq(s, 1, k - 1)
             b == SubSeq(s, k + 1, Len(s))
  <1>2. a \in Seq(S) /\ Len(a) = k - 1 /\ \A i \in 1 .. k - 1 : a[i] = s[i]
    BY <1>1
  <1>3. b \in Seq(S) /\ Len(b) = Len(s) - k /\ \A i \in 1 .. Len(s) - k : b[i] = s[k + i]
    BY <1>1
  <1> HIDE DEF a, b
  <1>4. a \o b \in Seq(S) /\ Len(a \o b) = Len(s) - 1
    BY <1>1, <1>2, <1>3
  <1>5. \A i \in 1 .. Len(s) - 1 : i < k => (a \o b)[i] = s[i]
    BY <1>1, <1>2, <1>3
  <1>6. ASSUME NEW i \in 1 .. Len(s) - 1, i >= k
        PROVE  (a \o b)[i] = s[i + 1]
    <2>1. (a \o b)[i] = b[i - (k - 1)]
      BY SMTT(30), <1>1, <1>2, <1>3, <1>6
    <2>2. i - (k - 1) \in 1 .. Len(s) - k /\ k + (i - (k - 1)) = i + 1
      BY <1>1, <1>6
    <2> QED BY <1>3, <2>1, <2>2
  <1>7. RemoveAt(s, k) = a \o b
    BY DEF RemoveAt, a, b
  <1>8. DOMAIN (a \o b) = 1 .. Len(s) - 1
    BY <1>4
  <1>a. \A i \in 1 .. Len(s) - 1 : i \in DOMAIN s /\ i + 1 \in DOMAIN s
    BY <1>1
  <1> HIDE DEF a, b
  <1>c. PICK t : t = a \o b
    OBVIOUS
  <1>b. \A i \in 1 .. Len(s) - 1 : (i < k => t[i] = s[i]) /\ (i >= k => t[i] = s[i + 1])
    BY <1>5, <1>6, <1>c
  <1>d. Len(t) = Len(s) - 1 /\ DOMAIN t = 1 .. Len(s) - 1
    BY <1>4, <1>8, <1>c
  <1>9. Leaves(s, k, a \o b)
    <2>1. Leaves(s, k, t)
      BY <1>a, <1>b, <1>d DEF Leaves
    <2> QED BY <2>1, <1>c
  <1> QED BY <1>4, <1>7, <1>9

\* What putting one more at their end makes of them.
Adds(s, e, t) ==
    /\ Len(t) = Len(s) + 1 /\ DOMAIN t = 1 .. Len(s) + 1
    /\ \A i \in DOMAIN s : i \in DOMAIN t /\ t[i] = s[i]
    /\ t[Len(t)] = e

\* Append puts it there.
LEMMA AppendAdds ==
    ASSUME NEW S, NEW s \in Seq(S), NEW e \in S
    PROVE  Append(s, e) \in Seq(S) /\ Adds(s, e, Append(s, e))
  BY DEF Adds

\* The calls are as before but for the state and the answer of call k.
Changes(s, k, t) ==
    /\ DOMAIN t = DOMAIN s /\ \A i \in DOMAIN s : i # k => t[i] = s[i]
    /\ t[k].fn = s[k].fn /\ t[k].id = s[k].id /\ t[k].arg = s[k].arg

-----------------------------------------------------------------------------
\* The calls after the first one.
SecondOf(s, t, F, G) ==
    \A i \in DOMAIN t :
       LastOf(t, F, G, i) => i + 1 \in DOMAIN s /\ LastOf(s, F, G, i + 1) /\ t[i] = s[i + 1]

\* When the first call is taken out the last ones stay the last ones, and if
\* none of a kind is left it was itself the last.
LEMMA FirstOut ==
    ASSUME NEW s \in Seq(CallSet), 1 \in DOMAIN s, NEW t \in Seq(CallSet), Leaves(s, 1, t)
    PROVE  /\ \A F, G : SecondOf(s, t, F, G)
           /\ \A F : Without(t, F) /\ s[1].fn \notin F => Without(s, F)
           /\ \A F, G : Without(t, G) /\ s[1].fn \in F => LastOf(s, F, G, 1)
  <1>1. /\ Len(s) \in Nat \ {0} /\ DOMAIN s = 1 .. Len(s) /\ DOMAIN t = 1 .. Len(s) - 1
        /\ \A i \in 1 .. Len(s) - 1 : t[i] = s[i + 1]
    BY DEF Leaves
  <1>2. \A j \in DOMAIN s : j # 1 => j - 1 \in DOMAIN t /\ t[j - 1] = s[j]
    BY <1>1
  <1>3. \A i \in DOMAIN t : i + 1 \in DOMAIN s /\ t[i] = s[i + 1]
    BY <1>1
  <1>4. ASSUME NEW F, NEW G
        PROVE  SecondOf(s, t, F, G)
    <2> SUFFICES ASSUME NEW i \in DOMAIN t, LastOf(t, F, G, i)
                 PROVE  LastOf(s, F, G, i + 1)
      BY <1>3 DEF SecondOf
    <2>1. \A j \in DOMAIN s : j > i + 1 => j # 1 /\ j - 1 > i
      BY <1>1
    <2>2. \A j \in DOMAIN s : j > i + 1 => s[j].fn \notin G
      BY <1>2, <2>1 DEF LastOf
    <2> QED BY <1>3, <2>2 DEF LastOf
  <1>5. ASSUME NEW F
        PROVE  Without(t, F) /\ s[1].fn \notin F => Without(s, F)
    BY <1>2 DEF Without
  <1>6. ASSUME NEW F, NEW G
        PROVE  Without(t, G) /\ s[1].fn \in F => LastOf(s, F, G, 1)
    <2>1. \A j \in DOMAIN s : j > 1 => j # 1
      BY <1>1
    <2> QED BY <1>2, <2>1 DEF LastOf, Without
  <1> QED BY <1>4, <1>5, <1>6

\* The calls with one more.
LastBut(s, e, t, F, G) ==
    \A i \in DOMAIN t :
       LastOf(t, F, G, i) => \/ t[i] = e /\ e.fn \in F
                             \/ i \in DOMAIN s /\ LastOf(s, F, G, i) /\ t[i] = s[i] /\ e.fn \notin G

\* A new call becomes the last of its kind, and of no other.
LEMMA LastIn ==
    ASSUME NEW s \in Seq(CallSet), NEW e, NEW t, Adds(s, e, t)
    PROVE  /\ \A F, G : LastBut(s, e, t, F, G)
           /\ \A F : Without(t, F) => Without(s, F) /\ e.fn \notin F
  <1>1. /\ Len(s) \in Nat /\ DOMAIN s = 1 .. Len(s) /\ DOMAIN t = 1 .. Len(s) + 1
        /\ \A i \in DOMAIN s : i \in DOMAIN t /\ t[i] = s[i]
        /\ t[Len(s) + 1] = e /\ Len(s) + 1 \in DOMAIN t
    BY DEF Adds
  <1>2. \A i \in DOMAIN t : i = Len(s) + 1 \/ (i \in DOMAIN s /\ Len(s) + 1 > i)
    BY <1>1
  <1>3. ASSUME NEW F, NEW G
        PROVE  LastBut(s, e, t, F, G)
    <2> SUFFICES ASSUME NEW i \in DOMAIN t, LastOf(t, F, G, i)
                 PROVE  \/ t[i] = e /\ e.fn \in F
                        \/ i \in DOMAIN s /\ LastOf(s, F, G, i) /\ t[i] = s[i] /\ e.fn \notin G
      BY DEF LastBut
    <2>1. CASE i = Len(s) + 1
      BY <1>1, <2>1 DEF LastOf
    <2>2. CASE i # Len(s) + 1
      BY <1>1, <1>2, <2>2 DEF LastOf
    <2> QED BY <2>1, <2>2
  <1>4. ASSUME NEW F
        PROVE  Without(t, F) => Without(s, F) /\ e.fn \notin F
    BY <1>1 DEF Without
  <1> QED BY <1>3, <1>4

NotNew(s, t, F, G) == \A i \in DOMAIN s : LastOf(t, F, G, i) => LastOf(s, F, G, i)

\* The calls with one in another state: the order is the same.
LEMMA SameOrder ==
    ASSUME NEW s, NEW t, NEW k \in DOMAIN s, Changes(s, k, t)
    PROVE  /\ \A F, G : NotNew(s, t, F, G)
           /\ \A F : Without(t, F) => Without(s, F)
           /\ \A i \in DOMAIN s : t[i].id = s[i].id /\ t[i].arg = s[i].arg
  <1>1. \A i \in DOMAIN s : t[i].fn = s[i].fn /\ t[i].id = s[i].id /\ t[i].arg = s[i].arg
    BY DEF Changes
  <1>2. DOMAIN t = DOMAIN s
    BY DEF Changes
  <1> QED BY <1>1, <1>2 DEF LastOf, Without, NotNew

-----------------------------------------------------------------------------
\* The parts of TypeOK: the server, the page, what the run counts.
ServerOK ==
    /\ DOMAIN clients \subseteq Id /\ \A id \in DOMAIN clients : clients[id] \in Client
    /\ DOMAIN moved \subseteq Id /\ \A id \in DOMAIN moved : moved[id] \in Id
    /\ settings \in [Setting -> Value]

PageOK ==
    /\ fields \in [Setting -> Value]
    /\ currentClientId \in Id \union {NoId} /\ currentTimeRange \in Hours
    /\ currentData \in [id : Id, range : Hours, some : BOOLEAN] \union {NoData}
    /\ currentBasicMode \in Mode
    /\ rows \subseteq Id
    /\ title \in [id : Id \union {NoId}, name : Name \union {NoName}]
    /\ metrics \in [id : Id \union {NoId}, says : {"loading", "failed", "none", "values"}]
    /\ charts \in [id : Id \union {NoId}, range : Hours \union {NoId}]
    /\ busy \subseteq Button

RunOK ==
    /\ clicks \in 0 .. MaxClicks /\ lost \in 0 .. MaxLost
    /\ hurried \in BOOLEAN /\ reordered \in BOOLEAN /\ trouble \in BOOLEAN

\* What every state is made of.
Typed == ServerOK /\ PageOK /\ RunOK /\ CallsOK /\ Opened

\* What a call in the list is.
LEMMA CallFields ==
    ASSUME NEW s \in Seq(CallSet), NEW k \in DOMAIN s
    PROVE  /\ s[k] \in CallSet /\ Formed(s[k])
           /\ s[k].fn \in Function /\ s[k].id \in Id \union Setting \union {NoId}
           /\ s[k].state \in {"sent", "answered", "stalled", "lost", "orphan"}
           /\ s[k].ok \in BOOLEAN
  <1>1. s[k] \in CallSet
    OBVIOUS
  <1> QED BY <1>1 DEF CallSet

\* The parts make up TypeOK.
LEMMA TypedParts ==
    CallsOK => (TypeOK <=> ServerOK /\ PageOK /\ RunOK)
  <1> SUFFICES ASSUME CallsOK
               PROVE  TypeOK <=> ServerOK /\ PageOK /\ RunOK
    OBVIOUS
  <1>1. \A k \in DOMAIN calls :
           /\ calls[k].fn \in Function
           /\ calls[k].id \in Id \union Setting \union {NoId}
           /\ calls[k].state \in {"sent", "answered", "stalled", "lost", "orphan"}
    BY CallFields DEF CallsOK
  <1> QED BY <1>1 DEF TypeOK, ServerOK, PageOK, RunOK

\* The calls the page makes.
LEMMA CallMade ==
    ASSUME NEW fn \in Function, fn # "later",
           NEW id \in Id \union Setting, NEW arg \in Args,
           fn = "save" => id \in Setting, fn # "save" => id \in Id,
           fn \in {"data", "range"} => arg \in Hours,
           fn = "toggle" => arg \in Mode, fn = "id" => arg \in Id, fn = "name" => arg \in Name
    PROVE  /\ Call(fn, id, arg) \in CallSet
           /\ Call(fn, id, arg).fn = fn /\ Call(fn, id, arg).id = id
           /\ Call(fn, id, arg).arg = arg /\ Call(fn, id, arg).state = "sent"
  <1>1. NoId \in Answers
    BY DEF Answers, Args
  <1>2. Call(fn, id, arg) \in
           [fn : Function, id : Id \union Setting \union {NoId}, arg : Args,
            state : {"sent", "answered", "stalled", "lost", "orphan"}, ok : BOOLEAN, answer : Answers]
    BY <1>1 DEF Call
  <1>3. Formed(Call(fn, id, arg))
    BY DEF Call, Formed, Has
  <1> QED BY <1>2, <1>3 DEF CallSet, Call

\* The timer after a rename.
Timer == [Call("later", NoId, NoId) EXCEPT !.state = "answered"]

\* It waits for no answer.
LEMMA TimerMade == Timer \in CallSet /\ Timer.fn = "later" /\ Timer.state = "answered"
  <1>1. NoId \in Answers /\ NoId \in Args
    BY DEF Answers, Args
  <1>2. Timer = [fn |-> "later", id |-> NoId, arg |-> NoId, state |-> "answered",
                 ok |-> TRUE, answer |-> NoId]
    <2>1. PICK c : c = Call("later", NoId, NoId)
      OBVIOUS
    <2>2. c = [fn |-> "later", id |-> NoId, arg |-> NoId, state |-> "sent",
               ok |-> TRUE, answer |-> NoId]
      BY <2>1 DEF Call
    <2>3. Timer = [c EXCEPT !.state = "answered"]
      BY <2>1 DEF Timer
    <2> QED BY <2>2, <2>3
  <1>3. Timer \in
           [fn : Function, id : Id \union Setting \union {NoId}, arg : Args,
            state : {"sent", "answered", "stalled", "lost", "orphan"}, ok : BOOLEAN, answer : Answers]
    BY <1>1, <1>2 DEF Function
  <1>4. Formed(Timer)
    BY <1>2 DEF Formed
  <1> QED BY <1>2, <1>3, <1>4 DEF CallSet

\* A call in another state.
LEMMA CallChanged ==
    ASSUME NEW s \in Seq(CallSet), NEW k \in DOMAIN s, NEW e \in CallSet,
           e.fn = s[k].fn, e.id = s[k].id, e.arg = s[k].arg
    PROVE  /\ [s EXCEPT ![k] = e] \in Seq(CallSet)
           /\ Changes(s, k, [s EXCEPT ![k] = e]) /\ [s EXCEPT ![k] = e][k] = e
  BY DEF Changes

\* A call that is lost, stalled or given up, or goes on.
LEMMA CallMarked ==
    ASSUME NEW s \in Seq(CallSet), NEW k \in DOMAIN s,
           NEW st \in {"answered", "stalled", "lost", "orphan"},
           s[k].fn # "later", st \in {"answered", "stalled"} => Has(s[k])
    PROVE  /\ [s EXCEPT ![k].state = st] \in Seq(CallSet)
           /\ Changes(s, k, [s EXCEPT ![k].state = st])
           /\ [s EXCEPT ![k].state = st][k].state = st
           /\ [s EXCEPT ![k].state = st][k].ok = s[k].ok
           /\ [s EXCEPT ![k].state = st][k].answer = s[k].answer
  <1>1. PICK c \in CallSet : c = s[k]
    OBVIOUS
  <1>2. PICK e : e = [c EXCEPT !.state = st]
    OBVIOUS
  <1>3. /\ e \in [fn : Function, id : Id \union Setting \union {NoId}, arg : Args,
                  state : {"sent", "answered", "stalled", "lost", "orphan"}, ok : BOOLEAN,
                  answer : Answers]
        /\ e.fn = c.fn /\ e.id = c.id /\ e.arg = c.arg /\ e.state = st /\ e.ok = c.ok
        /\ e.answer = c.answer
    BY <1>2 DEF CallSet
  <1>4. Formed(e)
    <2>1. Formed(c)
      BY DEF CallSet
    <2>2. c.fn # "later" /\ (Has(e) => Has(c))
      BY <1>1, <1>3 DEF Has
    <2> QED BY <1>3, <2>1, <2>2 DEF Formed
  <1>5. e \in CallSet
    BY <1>3, <1>4 DEF CallSet
  <1>6. [s EXCEPT ![k].state = st] = [s EXCEPT ![k] = e]
    BY <1>1, <1>2
  <1> QED BY <1>1, <1>3, <1>5, <1>6, CallChanged

\* The calls with one more.
LEMMA CallsGrow ==
    ASSUME NEW s \in Seq(CallSet), NEW e \in CallSet
    PROVE  Append(s, e) \in Seq(CallSet) /\ Adds(s, e, Append(s, e))
  BY AppendAdds

\* The calls with one removed.
LEMMA CallsShrink ==
    ASSUME NEW s \in Seq(CallSet), NEW k \in DOMAIN s
    PROVE  /\ RemoveAt(s, k) \in Seq(CallSet) /\ Leaves(s, k, RemoveAt(s, k))
           /\ \A i \in DOMAIN RemoveAt(s, k) :
                 \E j \in DOMAIN s : j # k /\ RemoveAt(s, k)[i] = s[j]
  <1>1. PICK t \in Seq(CallSet) : t = RemoveAt(s, k) /\ Leaves(s, k, t)
    BY RemoveLeaves
  <1>2. k \in Nat
    OBVIOUS
  <1>3. ASSUME NEW i \in DOMAIN t
        PROVE  \E j \in DOMAIN s : j # k /\ t[i] = s[j]
    <2>1. i \in Nat
      OBVIOUS
    <2>2. CASE i < k
      BY <1>1, <1>2, <2>1, <2>2 DEF Leaves
    <2>3. CASE i >= k
      <3>1. i + 1 # k /\ i + 1 \in DOMAIN s /\ t[i] = s[i + 1]
        BY <1>1, <1>2, <2>1, <2>3 DEF Leaves
      <3> QED BY <3>1
    <2> QED BY <1>2, <2>1, <2>2, <2>3
  <1> QED BY <1>1, <1>3

-----------------------------------------------------------------------------
\* The initial state.
LEMMA InitTyped ==
    ASSUME Init
    PROVE  Typed
  <1>1. \E v \in Value : TRUE
    BY PageAssumption
  <1>2. (CHOOSE v \in Value : TRUE) \in Value
    BY <1>1
  <1>3. calls = <<>> /\ DOMAIN calls = {}
    BY DEF Init
  <1>4. ServerOK
    <2>1. \A id \in Registered : clients[id] = [NewClient EXCEPT !.recs = (id \in Recorded)]
      BY DEF Init
    <2>2. \A id \in Registered : [NewClient EXCEPT !.recs = (id \in Recorded)] \in Client
      <3> SUFFICES ASSUME NEW id \in Registered
                   PROVE  [NewClient EXCEPT !.recs = (id \in Recorded)] \in Client
        OBVIOUS
      <3>0. (id \in Recorded) \in BOOLEAN
        OBVIOUS
      <3>1. PICK b \in BOOLEAN : b = (id \in Recorded)
        BY Zenon, <3>0
      <3>2. [NewClient EXCEPT !.recs = b] = [name |-> NoName, mode |-> Basic, recs |-> b]
        BY DEF NewClient
      <3>3. [NewClient EXCEPT !.recs = b] \in Client
        BY <3>2 DEF Client, Mode
      <3> QED BY <3>1, <3>3
    <2>3. DOMAIN clients = Registered /\ DOMAIN moved = {}
      BY DEF Init
    <2> QED BY <1>2, <2>1, <2>2, <2>3, PageAssumption DEF Init, ServerOK
  <1>5. PageOK
    BY <1>2, PageAssumption DEF Init, PageOK, loadSettings, NoData, Mode
  <1>6. RunOK
    <2>1. MaxClicks \in Nat /\ MaxLost \in Nat
      BY PageAssumption
    <2>2. 0 \in 0 .. MaxClicks /\ 0 \in 0 .. MaxLost
      BY <2>1
    <2> QED BY <2>2 DEF Init, RunOK
  <1>7. CallsOK
    BY <1>3 DEF CallsOK
  <1>8. Opened
    BY <1>3 DEF Init, Opened
  <1> QED BY <1>4, <1>5, <1>6, <1>7, <1>8 DEF Typed

-----------------------------------------------------------------------------
\* The inductive invariant.
PageInv == Typed /\ Orphans /\ Alone /\ Following

\* Nothing is waited for.
AllOrphans(s) == \A k \in DOMAIN s : s[k].state = "orphan"

\* Alone, of any calls, client and metrics.
AloneIn(s, id, m) == OneWaits(s) /\ LoadsCurrent(s, id) /\ WillShow(s, id, m)

\* The page shows no client, or what it says of one is of this one.
Done(id, m) == id = NoId \/ (m.id = id /\ m.says # "loading")

\* A call is made while nothing is waited for.
LEMMA OneMore ==
    ASSUME NEW s \in Seq(CallSet), NEW e, NEW t, Adds(s, e, t), AllOrphans(s),
           NEW id, NEW m, e.state # "orphan",
           \/ e.fn \in {"data", "client"} /\ e.id = id
           \/ e.fn = "later"
           \/ e.fn \notin {"data", "client", "later"} /\ Done(id, m)
    PROVE  AloneIn(t, id, m)
  <1>1. /\ Len(s) \in Nat /\ DOMAIN s = 1 .. Len(s) /\ DOMAIN t = 1 .. Len(s) + 1
        /\ \A i \in DOMAIN s : t[i] = s[i]
        /\ t[Len(s) + 1] = e
    BY DEF Adds
  <1> DEFINE n == Len(s) + 1
  <1>2. n \in DOMAIN t /\ \A i \in DOMAIN t : i # n => i \in DOMAIN s
    BY <1>1
  <1>3. \A i \in DOMAIN t : t[i].state # "orphan" => i = n
    BY <1>1, <1>2 DEF AllOrphans
  <1>4. OneWaits(t)
    BY <1>3 DEF OneWaits
  <1> HIDE DEF n
  <1>5. t[n] = e
    BY <1>1 DEF n
  <1>6. LoadsCurrent(t, id)
    <2> SUFFICES ASSUME NEW k \in DOMAIN t, Loads(t[k]), t[k].fn # "later"
                 PROVE  t[k].id = id
      BY DEF LoadsCurrent
    <2>1. t[k] = e
      BY <1>3, <1>5 DEF Loads
    <2> QED BY <2>1 DEF Loads
  <1>7. WillShow(t, id, m)
    <2>1. CASE e.fn \in {"data", "client", "later"}
      <3>1. Loads(t[n])
        BY <1>5, <2>1 DEF Loads
      <3> QED BY <1>2, <3>1 DEF WillShow
    <2>2. CASE e.fn \notin {"data", "client", "later"}
      BY <2>2 DEF WillShow, Done
    <2> QED BY <2>1, <2>2
  <1> QED BY <1>4, <1>6, <1>7 DEF AloneIn

\* When nothing is waited for the page is done.
LEMMA NoneWaits ==
    ASSUME NEW s, AllOrphans(s), NEW id, NEW m, Done(id, m)
    PROVE  AloneIn(s, id, m)
  BY DEF AllOrphans, AloneIn, OneWaits, LoadsCurrent, WillShow, Done, Loads

\* The only call that was waited for is taken out.
LEMMA OneLess ==
    ASSUME NEW s \in Seq(CallSet), NEW k \in DOMAIN s, OneWaits(s), s[k].state # "orphan"
    PROVE  AllOrphans(RemoveAt(s, k))
  <1>1. \A j \in DOMAIN s : j # k => s[j].state = "orphan"
    BY DEF OneWaits
  <1>2. \A i \in DOMAIN RemoveAt(s, k) :
           \E j \in DOMAIN s : j # k /\ RemoveAt(s, k)[i] = s[j]
    BY CallsShrink
  <1> QED BY <1>1, <1>2 DEF AllOrphans

\* The only call that waits, when it does not load a client.
LEMMA OnlyOther ==
    ASSUME NEW s, NEW k \in DOMAIN s, NEW id, NEW m, AloneIn(s, id, m),
           s[k].state # "orphan"
    PROVE  /\ s[k].fn \notin {"data", "client", "later"} => Done(id, m)
           /\ s[k].fn \in {"data", "client"} => s[k].id = id
  <1>1. \A j \in DOMAIN s : Loads(s[j]) => j = k
    BY DEF AloneIn, OneWaits, Loads
  <1>2. s[k].fn \notin {"data", "client", "later"} => Done(id, m)
    BY <1>1 DEF AloneIn, WillShow, Done, Loads
  <1>3. s[k].fn \in {"data", "client"} => s[k].id = id
    BY DEF AloneIn, LoadsCurrent, Loads
  <1> QED BY <1>2, <1>3

\* A call that changes its state and is still waited for.
LEMMA StillWaits ==
    ASSUME NEW s, NEW t, NEW k \in DOMAIN s, Changes(s, k, t), NEW id, NEW m,
           AloneIn(s, id, m), s[k].state # "orphan", t[k].state # "orphan"
    PROVE  AloneIn(t, id, m)
  <1>1. \A i \in DOMAIN s : /\ t[i].fn = s[i].fn /\ t[i].id = s[i].id
                            /\ t[i].state = "orphan" <=> s[i].state = "orphan"
    BY DEF Changes
  <1>2. DOMAIN t = DOMAIN s
    BY DEF Changes
  <1>3. OneWaits(t)
    BY <1>1, <1>2 DEF AloneIn, OneWaits
  <1>4. \A i \in DOMAIN s : Loads(t[i]) <=> Loads(s[i])
    BY <1>1 DEF Loads
  <1>5. LoadsCurrent(t, id)
    BY <1>1, <1>2, <1>4 DEF AloneIn, LoadsCurrent
  <1>6. WillShow(t, id, m)
    BY <1>2, <1>4 DEF AloneIn, WillShow
  <1> QED BY <1>3, <1>5, <1>6 DEF AloneIn

\* A request nobody waits for has reached the server.
LEMMA OrphanGone ==
    ASSUME NEW s \in Seq(CallSet), NEW k \in DOMAIN s, s[k].state = "orphan", NEW id, NEW m,
           AloneIn(s, id, m)
    PROVE  AloneIn(RemoveAt(s, k), id, m)
  <1>1. PICK t \in Seq(CallSet) : t = RemoveAt(s, k) /\ Leaves(s, k, t)
    BY CallsShrink
  <1>2. k \in Nat /\ Len(s) \in Nat /\ DOMAIN s = 1 .. Len(s) /\ DOMAIN t = 1 .. Len(s) - 1
    BY <1>1 DEF Leaves
  <1>3. \A i \in DOMAIN t : i \in Nat /\ (i < k \/ i >= k)
    BY <1>2
  <1>4. \A i \in DOMAIN t : \/ i < k /\ i \in DOMAIN s /\ t[i] = s[i]
                            \/ i >= k /\ i + 1 \in DOMAIN s /\ t[i] = s[i + 1]
    BY <1>1, <1>3 DEF Leaves
  <1>5. OneWaits(t)
    <2> SUFFICES ASSUME NEW i \in DOMAIN t, NEW j \in DOMAIN t,
                        t[i].state # "orphan", t[j].state # "orphan"
                 PROVE  i = j
      BY DEF OneWaits
    <2>1. \A a, b \in DOMAIN s : s[a].state # "orphan" /\ s[b].state # "orphan" => a = b
      BY DEF AloneIn, OneWaits
    <2>2. CASE i < k /\ j < k
      BY <1>2, <1>3, <1>4, <2>1, <2>2
    <2>3. CASE i >= k /\ j >= k
      BY SMTT(30), <1>2, <1>3, <1>4, <2>1, <2>3
    <2>4. CASE i < k /\ j >= k
      BY <1>2, <1>3, <1>4, <2>1, <2>4
    <2>5. CASE i >= k /\ j < k
      BY <1>2, <1>3, <1>4, <2>1, <2>5
    <2> QED BY <1>3, <2>2, <2>3, <2>4, <2>5
  <1>6. LoadsCurrent(t, id)
    <2>1. \A i \in DOMAIN t : \E j \in DOMAIN s : t[i] = s[j]
      BY <1>4
    <2> QED BY <2>1 DEF AloneIn, LoadsCurrent
  <1>7. WillShow(t, id, m)
    <2>1. ASSUME NEW j \in DOMAIN s, Loads(s[j])
          PROVE  \E i \in DOMAIN t : Loads(t[i])
      <3>1. j # k
        BY <2>1 DEF Loads
      <3>2. CASE j < k
        <4>1. j \in DOMAIN t
          BY <1>2, <3>2
        <4>2. t[j] = s[j]
          BY <1>1, <3>2, <4>1 DEF Leaves
        <4> QED BY <2>1, <4>1, <4>2
      <3>3. CASE j > k
        <4>1. j - 1 \in DOMAIN t /\ j - 1 >= k /\ (j - 1) + 1 = j
          BY <1>2, <3>3
        <4>2. t[j - 1] = s[j]
          BY <1>1, <4>1 DEF Leaves
        <4> QED BY <2>1, <4>1, <4>2
      <3> QED BY <1>2, <3>1, <3>2, <3>3
    <2> QED BY <2>1 DEF AloneIn, WillShow
  <1> QED BY <1>1, <1>5, <1>6, <1>7 DEF AloneIn

-----------------------------------------------------------------------------
\* showDetail has asked for the data last.
LEMMA Asked ==
    ASSUME NEW s \in Seq(CallSet), NEW e, NEW t \in Seq(CallSet), Adds(s, e, t),
           e.fn = "data", NEW data, NEW cs, NEW mode, NEW ti, NEW m, NEW ch
    PROVE  /\ DataFollow(t, e.id, data) /\ RangeFollows(t, e.arg, data)
           /\ ClientFollows(t, e.id, cs)
           /\ ShownFollow(t, e.id, cs, mode, data, ti, m, ch)
  <1>1. ~Without(t, {"data"}) /\ ~Without(t, {"data", "client"})
        /\ ~Without(t, {"data", "range"})
    <2>1. e.fn \in {"data"} /\ e.fn \in {"data", "client"} /\ e.fn \in {"data", "range"}
      OBVIOUS
    <2> QED BY <2>1, LastIn
  <1>2. \A i \in DOMAIN t : LastOf(t, {"data", "range"}, {"data"}, i) => t[i] = e
    <2>1. e.fn \in {"data"}
      OBVIOUS
    <2> QED BY <2>1, LastIn DEF LastBut
  <1>3. \A i \in DOMAIN t : LastOf(t, {"data", "range"}, {"data", "range"}, i) => t[i] = e
    <2>1. e.fn \in {"data", "range"}
      OBVIOUS
    <2> QED BY <2>1, LastIn DEF LastBut
  <1> QED BY <1>1, <1>2, <1>3 DEF DataFollow, RangeFollows, ClientFollows, ShownFollow

\* One more call that has nothing to do with the client.
LEMMA Beside ==
    ASSUME NEW s \in Seq(CallSet), NEW e, NEW t \in Seq(CallSet), Adds(s, e, t),
           e.fn \notin {"data", "range", "client"},
           NEW id, NEW range, NEW data, NEW cs, NEW mode, NEW ti, NEW m, NEW ch
    PROVE  /\ DataFollow(s, id, data) => DataFollow(t, id, data)
           /\ RangeFollows(s, range, data) => RangeFollows(t, range, data)
           /\ ClientFollows(s, id, cs) => ClientFollows(t, id, cs)
           /\ ShownFollow(s, id, cs, mode, data, ti, m, ch) =>
                 ShownFollow(t, id, cs, mode, data, ti, m, ch)
  <1>1. \A F \in {{"data"}, {"data", "range"}, {"data", "client"}} :
           Without(t, F) => Without(s, F)
    BY LastIn
  <1>2. \A i \in DOMAIN t :
           /\ LastOf(t, {"data", "range"}, {"data"}, i) =>
                 i \in DOMAIN s /\ LastOf(s, {"data", "range"}, {"data"}, i) /\ t[i] = s[i]
           /\ LastOf(t, {"data", "range"}, {"data", "range"}, i) =>
                 i \in DOMAIN s /\ LastOf(s, {"data", "range"}, {"data", "range"}, i)
                 /\ t[i] = s[i]
           /\ LastOf(t, {"client"}, {"client"}, i) =>
                 i \in DOMAIN s /\ LastOf(s, {"client"}, {"client"}, i) /\ t[i] = s[i]
    <2>1. e.fn \notin {"data", "range"} /\ e.fn \notin {"client"}
      OBVIOUS
    <2> QED BY <2>1, LastIn DEF LastBut
  <1>3. DataFollow(s, id, data) => DataFollow(t, id, data)
    BY <1>1, <1>2 DEF DataFollow
  <1>4. RangeFollows(s, range, data) => RangeFollows(t, range, data)
    BY <1>1, <1>2 DEF RangeFollows
  <1>5. ClientFollows(s, id, cs) => ClientFollows(t, id, cs)
    BY <1>1, <1>2 DEF ClientFollows
  <1>6. ShownFollow(s, id, cs, mode, data, ti, m, ch) =>
           ShownFollow(t, id, cs, mode, data, ti, m, ch)
    BY <1>1 DEF ShownFollow
  <1> QED BY <1>3, <1>4, <1>5, <1>6

\* One more call for the data of another range.
LEMMA RangeAsked ==
    ASSUME NEW s \in Seq(CallSet), NEW e, NEW t \in Seq(CallSet), Adds(s, e, t),
           e.fn = "range",
           NEW data, NEW cs, NEW mode, NEW ti, NEW m, NEW ch
    PROVE  /\ DataFollow(s, e.id, data) => DataFollow(t, e.id, data)
           /\ RangeFollows(t, e.arg, data)
           /\ ClientFollows(s, e.id, cs) => ClientFollows(t, e.id, cs)
           /\ ShownFollow(s, e.id, cs, mode, data, ti, m, ch) =>
                 ShownFollow(t, e.id, cs, mode, data, ti, m, ch)
  <1>1. \A F \in {{"data"}, {"data", "range"}, {"data", "client"}} :
           Without(t, F) => Without(s, F) /\ e.fn \notin F
    BY LastIn
  <1>2. \A i \in DOMAIN t :
           LastOf(t, {"data", "range"}, {"data"}, i) =>
              \/ t[i] = e
              \/ i \in DOMAIN s /\ LastOf(s, {"data", "range"}, {"data"}, i) /\ t[i] = s[i]
    BY LastIn DEF LastBut
  <1>3. \A i \in DOMAIN t : LastOf(t, {"data", "range"}, {"data", "range"}, i) => t[i] = e
    <2>1. e.fn \in {"data", "range"}
      OBVIOUS
    <2> QED BY <2>1, LastIn DEF LastBut
  <1>4. \A i \in DOMAIN t :
           LastOf(t, {"client"}, {"client"}, i) =>
              i \in DOMAIN s /\ LastOf(s, {"client"}, {"client"}, i) /\ t[i] = s[i]
    <2>1. e.fn \notin {"client"}
      OBVIOUS
    <2> QED BY <2>1, LastIn DEF LastBut
  <1>5. DataFollow(s, e.id, data) => DataFollow(t, e.id, data)
    BY <1>1, <1>2 DEF DataFollow
  <1>6. RangeFollows(t, e.arg, data)
    BY <1>1, <1>3 DEF RangeFollows
  <1>7. ClientFollows(s, e.id, cs) => ClientFollows(t, e.id, cs)
    BY <1>1, <1>4 DEF ClientFollows
  <1>8. ShownFollow(s, e.id, cs, mode, data, ti, m, ch) =>
           ShownFollow(t, e.id, cs, mode, data, ti, m, ch)
    BY <1>1 DEF ShownFollow
  <1> QED BY <1>5, <1>6, <1>7, <1>8

-----------------------------------------------------------------------------
\* The body of an answer stays away or comes: nothing else is another.
LEMMA BodyOnly ==
    ASSUME NEW s, NEW t, NEW k \in DOMAIN s, Changes(s, k, t), Has(s[k]),
           t[k].ok = s[k].ok, t[k].answer = s[k].answer,
           NEW id, NEW cs, NEW range, NEW data, NEW mode, NEW ti, NEW m, NEW ch
    PROVE  /\ DataFollow(s, id, data) => DataFollow(t, id, data)
           /\ RangeFollows(s, range, data) => RangeFollows(t, range, data)
           /\ ClientFollows(s, id, cs) => ClientFollows(t, id, cs)
           /\ ShownFollow(s, id, cs, mode, data, ti, m, ch) =>
                 ShownFollow(t, id, cs, mode, data, ti, m, ch)
  <1>1. DOMAIN t = DOMAIN s /\ \A i \in DOMAIN s : i # k => t[i] = s[i]
    BY DEF Changes
  <1>2. \A F : Without(t, F) => Without(s, F)
    BY SameOrder
  <1>3. \A i \in DOMAIN s : t[i].id = s[i].id /\ t[i].arg = s[i].arg
    BY SameOrder
  <1>4. \A F, G : NotNew(s, t, F, G)
    BY SameOrder
  <1>5. DataFollow(s, id, data) => DataFollow(t, id, data)
    BY <1>1, <1>2, <1>3, <1>4 DEF DataFollow, NotNew
  <1>6. RangeFollows(s, range, data) => RangeFollows(t, range, data)
    BY <1>1, <1>2, <1>3, <1>4 DEF RangeFollows, NotNew
  <1>7. ClientFollows(s, id, cs) => ClientFollows(t, id, cs)
    <2>1. \A i \in DOMAIN s : Current(s[i], id, cs) => Current(t[i], id, cs)
      BY <1>1, <1>3 DEF Current
    <2> QED BY <1>1, <1>2, <1>4, <2>1 DEF ClientFollows, NotNew
  <1>8. ShownFollow(s, id, cs, mode, data, ti, m, ch) =>
           ShownFollow(t, id, cs, mode, data, ti, m, ch)
    BY <1>2 DEF ShownFollow
  <1> QED BY <1>5, <1>6, <1>7, <1>8

-----------------------------------------------------------------------------
\* A call changes its state; if it is for a client and has been answered the
\* answer is true, and no client has got another mode.
LEMMA StateOnly ==
    ASSUME NEW s, NEW t, NEW k \in DOMAIN s, Changes(s, k, t), NEW id, NEW cs, NEW ds,
           \A x \in DOMAIN cs : x \in DOMAIN ds /\ ds[x].mode = cs[x].mode,
           t[k].fn = "client" /\ Has(t[k]) /\ t[k].ok =>
              t[k].id \in DOMAIN ds /\ t[k].answer.mode = ds[t[k].id].mode,
           NEW range, NEW data, NEW mode, NEW ti, NEW m, NEW ch
    PROVE  /\ DataFollow(s, id, data) => DataFollow(t, id, data)
           /\ RangeFollows(s, range, data) => RangeFollows(t, range, data)
           /\ ClientFollows(s, id, cs) => ClientFollows(t, id, ds)
           /\ ShownFollow(s, id, cs, mode, data, ti, m, ch) =>
                 ShownFollow(t, id, ds, mode, data, ti, m, ch)
  <1>1. DOMAIN t = DOMAIN s /\ \A i \in DOMAIN s : i # k => t[i] = s[i]
    BY DEF Changes
  <1>2. \A F : Without(t, F) => Without(s, F)
    BY SameOrder
  <1>3. \A i \in DOMAIN s : t[i].id = s[i].id /\ t[i].arg = s[i].arg
    BY SameOrder
  <1>4. \A F, G : NotNew(s, t, F, G)
    BY SameOrder
  <1>5. DataFollow(s, id, data) => DataFollow(t, id, data)
    BY <1>1, <1>2, <1>3, <1>4 DEF DataFollow, NotNew
  <1>6. RangeFollows(s, range, data) => RangeFollows(t, range, data)
    BY <1>1, <1>2, <1>3, <1>4 DEF RangeFollows, NotNew
  <1>7. ASSUME ClientFollows(s, id, cs), Without(t, {"data"}),
               NEW i \in DOMAIN t, LastOf(t, {"client"}, {"client"}, i)
        PROVE  Current(t[i], id, ds)
    <2>1. i \in DOMAIN s /\ LastOf(s, {"client"}, {"client"}, i)
      BY <1>1, <1>4, <1>7 DEF NotNew
    <2>2. Current(s[i], id, cs)
      BY <1>2, <1>7, <2>1 DEF ClientFollows
    <2>3. t[i].fn = "client"
      BY <1>7 DEF LastOf
    <2>4. CASE i = k
      BY <1>3, <2>2, <2>3, <2>4 DEF Current
    <2>5. CASE i # k
      BY <1>1, <2>1, <2>2, <2>5 DEF Current
    <2> QED BY <2>4, <2>5
  <1>8. ClientFollows(s, id, cs) => ClientFollows(t, id, ds)
    BY <1>7 DEF ClientFollows
  <1>9. ShownFollow(s, id, cs, mode, data, ti, m, ch) =>
           ShownFollow(t, id, ds, mode, data, ti, m, ch)
    BY <1>2 DEF ShownFollow, ShowsCurrent
  <1> QED BY <1>5, <1>6, <1>8, <1>9

\* The first call is answered, and it has nothing to do with the client.
LEMMA FirstBeside ==
    ASSUME NEW s \in Seq(CallSet), 1 \in DOMAIN s, NEW t \in Seq(CallSet), Leaves(s, 1, t),
           s[1].fn \notin {"data", "range", "client"},
           NEW id, NEW range, NEW data, NEW cs, NEW mode, NEW ti, NEW tj, NEW m, NEW ch,
           tj.id = ti.id
    PROVE  /\ DataFollow(s, id, data) => DataFollow(t, id, data)
           /\ RangeFollows(s, range, data) => RangeFollows(t, range, data)
           /\ ClientFollows(s, id, cs) => ClientFollows(t, id, cs)
           /\ ShownFollow(s, id, cs, mode, data, ti, m, ch) =>
                 ShownFollow(t, id, cs, mode, data, tj, m, ch)
  <1>1. Without(t, {"data"}) => Without(s, {"data"})
    <2>1. s[1].fn \notin {"data"}
      OBVIOUS
    <2> QED BY <2>1, FirstOut
  <1>2. Without(t, {"data", "range"}) => Without(s, {"data", "range"})
    <2>1. s[1].fn \notin {"data", "range"}
      OBVIOUS
    <2> QED BY <2>1, FirstOut
  <1>3. Without(t, {"data", "client"}) => Without(s, {"data", "client"})
    <2>1. s[1].fn \notin {"data", "client"}
      OBVIOUS
    <2> QED BY <2>1, FirstOut
  <1>4. \A F, G : SecondOf(s, t, F, G)
    BY FirstOut
  <1>5. DataFollow(s, id, data) => DataFollow(t, id, data)
    BY <1>1, <1>4 DEF DataFollow, SecondOf
  <1>6. RangeFollows(s, range, data) => RangeFollows(t, range, data)
    BY <1>2, <1>4 DEF RangeFollows, SecondOf
  <1>7. ClientFollows(s, id, cs) => ClientFollows(t, id, cs)
    BY <1>1, <1>4 DEF ClientFollows, SecondOf
  <1>8. ShownFollow(s, id, cs, mode, data, ti, m, ch) =>
           ShownFollow(t, id, cs, mode, data, tj, m, ch)
    BY <1>3 DEF ShownFollow, ShowsCurrent
  <1> QED BY <1>5, <1>6, <1>7, <1>8

\* The first call brings data, for a range or for the client asked for next.
LEMMA FirstData ==
    ASSUME NEW s \in Seq(CallSet), 1 \in DOMAIN s, NEW t \in Seq(CallSet), Leaves(s, 1, t),
           s[1].fn \in {"data", "range"}, NEW id, NEW range, NEW old,
           DataFollow(s, id, old), RangeFollows(s, range, old),
           NEW data, data.id = s[1].id, data.range = s[1].arg
    PROVE  /\ DataFollow(t, id, data) /\ RangeFollows(t, range, data)
           /\ Without(t, {"data"}) => s[1].id = id
  <1>1. \A F, G : SecondOf(s, t, F, G)
    BY FirstOut
  <1>2. Without(t, {"data"}) => LastOf(s, {"data", "range"}, {"data"}, 1)
    BY FirstOut
  <1>3. Without(t, {"data", "range"}) => LastOf(s, {"data", "range"}, {"data", "range"}, 1)
    BY FirstOut
  <1>4. Without(t, {"data"}) => s[1].id = id
    BY <1>2 DEF DataFollow
  <1>5. DataFollow(t, id, data)
    BY <1>1, <1>4 DEF DataFollow, SecondOf
  <1>6. RangeFollows(t, range, data)
    BY <1>1, <1>3 DEF RangeFollows, SecondOf
  <1> QED BY <1>4, <1>5, <1>6

\* The first call brings the data of a range.
LEMMA FirstRange ==
    ASSUME NEW s \in Seq(CallSet), 1 \in DOMAIN s, NEW t \in Seq(CallSet), Leaves(s, 1, t),
           s[1].fn = "range", NEW id, NEW cs, NEW mode, NEW old, NEW data,
           NEW ti, NEW m, NEW ch, NEW dh,
           Without(t, {"data"}) => s[1].id = id,
           data.some => dh.id \in {NoId, s[1].id}
    PROVE  /\ ClientFollows(s, id, cs) => ClientFollows(t, id, cs)
           /\ ShownFollow(s, id, cs, mode, old, ti, m, ch) =>
                 ShownFollow(t, id, cs, mode, data, ti, m, dh)
  <1>1. Without(t, {"data"}) => Without(s, {"data"})
    <2>1. s[1].fn \notin {"data"}
      OBVIOUS
    <2> QED BY <2>1, FirstOut
  <1>2. Without(t, {"data", "client"}) => Without(s, {"data", "client"})
    <2>1. s[1].fn \notin {"data", "client"}
      OBVIOUS
    <2> QED BY <2>1, FirstOut
  <1>3. \A F, G : SecondOf(s, t, F, G)
    BY FirstOut
  <1>4. ClientFollows(s, id, cs) => ClientFollows(t, id, cs)
    BY <1>1, <1>3 DEF ClientFollows, SecondOf
  <1>5. Without(t, {"data", "client"}) => Without(t, {"data"})
    BY DEF Without
  <1>6. ShownFollow(s, id, cs, mode, old, ti, m, ch) =>
           ShownFollow(t, id, cs, mode, data, ti, m, dh)
    BY <1>2, <1>5 DEF ShownFollow, ShowsCurrent
  <1> QED BY <1>4, <1>6

\* The first call brings a client.
LEMMA FirstClient ==
    ASSUME NEW s \in Seq(CallSet), 1 \in DOMAIN s, NEW t \in Seq(CallSet), Leaves(s, 1, t),
           s[1].fn = "client", Has(s[1]), s[1].ok,
           NEW id, id # NoId, NEW range, NEW data, NEW cs,
           DataFollow(s, id, data), RangeFollows(s, range, data), ClientFollows(s, id, cs),
           NEW ti, NEW m, NEW ch, ti.id = s[1].id, m.id = s[1].id,
           data # NoData => m.says \notin {"loading", "failed"},
           data.some => ch.id \in {NoId, data.id}
    PROVE  /\ DataFollow(t, id, data) /\ RangeFollows(t, range, data)
           /\ ClientFollows(t, id, cs)
           /\ ShownFollow(t, id, cs, s[1].answer.mode, data, ti, m, ch)
  <1>1. Without(t, {"data"}) => Without(s, {"data"})
    <2>1. s[1].fn \notin {"data"}
      OBVIOUS
    <2> QED BY <2>1, FirstOut
  <1>2. Without(t, {"data", "range"}) => Without(s, {"data", "range"})
    <2>1. s[1].fn \notin {"data", "range"}
      OBVIOUS
    <2> QED BY <2>1, FirstOut
  <1>3. \A F, G : SecondOf(s, t, F, G)
    BY FirstOut
  <1>4. DataFollow(t, id, data)
    BY <1>1, <1>3 DEF DataFollow, SecondOf
  <1>5. RangeFollows(t, range, data)
    BY <1>2, <1>3 DEF RangeFollows, SecondOf
  <1>6. ClientFollows(t, id, cs)
    BY <1>1, <1>3 DEF ClientFollows, SecondOf
  <1>7. ASSUME Without(t, {"data", "client"})
        PROVE  ShowsCurrent(id, cs, s[1].answer.mode, data, ti, m, ch)
    <2>1. Without(t, {"data"}) /\ Without(t, {"client"})
      BY <1>7 DEF Without
    <2>2. data.id = id
      BY <1>1, <2>1 DEF DataFollow
    <2>3. LastOf(s, {"client"}, {"client"}, 1)
      <3>1. s[1].fn \in {"client"}
        OBVIOUS
      <3> QED BY <2>1, <3>1, FirstOut
    <2>4. Current(s[1], id, cs)
      BY <1>1, <2>1, <2>3 DEF ClientFollows
    <2>5. data # NoData
      BY <2>2 DEF NoData
    <2> QED BY <2>2, <2>4, <2>5 DEF ShowsCurrent, Current
  <1>8. ShownFollow(t, id, cs, s[1].answer.mode, data, ti, m, ch)
    BY <1>7 DEF ShownFollow
  <1> QED BY <1>4, <1>5, <1>6, <1>8

\* After the data the client is asked for.
LEMMA ClientAsked ==
    ASSUME NEW s \in Seq(CallSet), NEW e, NEW t \in Seq(CallSet), Adds(s, e, t),
           e.fn = "client", ~Has(e), NEW id,
           Without(s, {"data"}) => e.id = id,
           NEW range, NEW data, DataFollow(s, id, data), RangeFollows(s, range, data),
           NEW cs, NEW mode, NEW ti, NEW m, NEW ch
    PROVE  /\ DataFollow(t, id, data) /\ RangeFollows(t, range, data)
           /\ ClientFollows(t, id, cs)
           /\ ShownFollow(t, id, cs, mode, data, ti, m, ch)
  <1>1. \A F : Without(t, F) => Without(s, F) /\ e.fn \notin F
    BY LastIn
  <1>2. \A F, G : LastBut(s, e, t, F, G)
    BY LastIn
  <1>3. DataFollow(t, id, data)
    BY <1>1, <1>2 DEF DataFollow, LastBut
  <1>4. RangeFollows(t, range, data)
    BY <1>1, <1>2 DEF RangeFollows, LastBut
  <1>5. ClientFollows(t, id, cs)
    BY <1>1, <1>2 DEF ClientFollows, LastBut, Current
  <1>6. ShownFollow(t, id, cs, mode, data, ti, m, ch)
    BY <1>1 DEF ShownFollow
  <1> QED BY <1>3, <1>4, <1>5, <1>6

\* Calls that are taken in order are taken from the front, and what is on the
\* way after that was on the way before.
LEMMA FirstTaken ==
    ASSUME NEW s \in Seq(CallSet), NEW k \in DOMAIN s, s[k].state = "answered",
           s[k].fn \notin {"toggle", "id", "later"},
           \A j \in DOMAIN s : s[j].state # "orphan",
           Steady(RemoveAt(s, k)),
           ~ \E j \in 1 .. k - 1 : s[j].state \in {"sent", "answered", "stalled"} /\ s[j].fn # "later"
    PROVE  k = 1 /\ Steady(s) /\ Leaves(s, 1, RemoveAt(s, k))
  <1>1. PICK t \in Seq(CallSet) : t = RemoveAt(s, k) /\ Leaves(s, k, t)
    BY CallsShrink
  <1>2. k \in Nat /\ Len(s) \in Nat /\ DOMAIN s = 1 .. Len(s) /\ DOMAIN t = 1 .. Len(s) - 1
    BY <1>1 DEF Leaves
  <1>3. \A j \in DOMAIN s : j < k => j \in DOMAIN t /\ t[j] = s[j]
    BY <1>1, <1>2 DEF Leaves
  <1>4. \A j \in DOMAIN s : j > k => j - 1 \in DOMAIN t /\ t[j - 1] = s[j]
    <2> SUFFICES ASSUME NEW j \in DOMAIN s, j > k
                 PROVE  j - 1 \in DOMAIN t /\ t[j - 1] = s[j]
      OBVIOUS
    <2>1. j - 1 \in DOMAIN t /\ j - 1 >= k /\ (j - 1) + 1 = j
      BY <1>2
    <2> QED BY <1>1, <2>1 DEF Leaves
  <1>5. \A j \in DOMAIN s : j # k => s[j].fn \notin {"toggle", "id", "later"} /\ s[j].state # "lost"
    <2>1. \A j \in DOMAIN t : t[j].fn \notin {"toggle", "id", "later"} /\ t[j].state # "lost"
      BY <1>1 DEF Steady
    <2>2. \A j \in DOMAIN s : j # k => j < k \/ j > k
      BY <1>2
    <2> QED BY <1>3, <1>4, <2>1, <2>2
  <1>6. Steady(s)
    BY <1>5 DEF Steady
  <1>7. k = 1
    <2>1. \A j \in 1 .. k - 1 : j \in DOMAIN s /\ j # k
      BY <1>2
    <2>2. \A j \in DOMAIN s : s[j].state \in {"sent", "answered", "stalled", "lost", "orphan"}
      BY CallFields
    <2>3. \A j \in 1 .. k - 1 : s[j].state \in {"sent", "answered", "stalled"} /\ s[j].fn # "later"
      BY <1>5, <2>1, <2>2
    <2>4. 1 \notin 1 .. k - 1
      BY <2>3
    <2> QED BY <1>2, <2>4
  <1> QED BY <1>1, <1>6, <1>7

-----------------------------------------------------------------------------
\* A click while something is still waited for is a hurried one.
LEMMA Clicked ==
    ASSUME PageInv, Click
    PROVE  /\ ServerOK' /\ RunOK' /\ UNCHANGED <<reordered, trouble, clients>>
           /\ ~hurried' => /\ AllOrphans(calls) /\ Done(currentClientId, metrics)
                           /\ reordered => trouble
  <1>1. /\ clicks \in Nat /\ clicks < MaxClicks /\ clicks' = clicks + 1
        /\ MaxClicks \in Nat /\ lost \in 0 .. MaxLost
    BY PageAssumption DEF PageInv, Typed, RunOK, Click
  <1>2. clicks' \in 0 .. MaxClicks
    BY <1>1
  <1>3. hurried' \in BOOLEAN
    <2>1. hurried' = (hurried \/ Pending)
      BY DEF Click
    <2> QED BY <2>1
  <1>4. RunOK'
    BY <1>1, <1>2, <1>3 DEF PageInv, Typed, RunOK, Click
  <1>5. ServerOK'
    BY DEF PageInv, Typed, ServerOK, Click, server
  <1>6. ASSUME ~hurried'
        PROVE  AllOrphans(calls) /\ Done(currentClientId, metrics) /\ (reordered => trouble)
    <2>1. ~hurried /\ ~Pending
      BY <1>6 DEF Click
    <2>2. AllOrphans(calls)
      BY <2>1 DEF Pending, AllOrphans
    <2>3. Alone
      BY DEF PageInv
    <2>4. WillShow(calls, currentClientId, metrics) /\ (reordered => trouble)
      BY <2>1, <2>3 DEF Alone
    <2>5. Done(currentClientId, metrics)
      BY <2>2, <2>4 DEF WillShow, Done, AllOrphans, Loads
    <2> QED BY <2>2, <2>4, <2>5
  <1> QED BY <1>4, <1>5, <1>6 DEF Click, server

\* A click that sends a request.
LEMMA Requested ==
    ASSUME PageInv, Click, NEW e \in CallSet, e.state = "sent", calls' = Append(calls, e)
    PROVE  /\ CallsOK' /\ Adds(calls, e, calls') /\ Orphans'
           /\ Steady(calls') => Steady(calls) /\ e.fn \notin {"toggle", "id", "later"}
           /\ \/ e.fn \in {"data", "client"} /\ e.id = currentClientId'
              \/ e.fn \notin {"data", "client", "later"}
                 /\ UNCHANGED <<currentClientId, metrics>>
              => Alone'
  <1>1. calls \in Seq(CallSet)
    BY DEF PageInv, Typed, CallsOK
  <1>2. calls' \in Seq(CallSet) /\ Adds(calls, e, calls')
    BY <1>1, CallsGrow
  <1>3. /\ Len(calls) \in Nat /\ DOMAIN calls = 1 .. Len(calls)
        /\ DOMAIN calls' = 1 .. Len(calls) + 1
        /\ \A i \in DOMAIN calls : i \in DOMAIN calls' /\ calls'[i] = calls[i]
        /\ calls'[Len(calls) + 1] = e
    BY <1>1, <1>2 DEF Adds
  <1>4. \A i \in DOMAIN calls' : i \in DOMAIN calls \/ i = Len(calls) + 1
    BY <1>3
  <1>5. Orphans'
    <2>1. Orphans /\ trouble' = trouble
      BY Clicked DEF PageInv
    <2> QED BY <1>3, <1>4, <2>1 DEF Orphans
  <1>6. Steady(calls') => Steady(calls) /\ e.fn \notin {"toggle", "id", "later"}
    <2>1. Len(calls) + 1 \in DOMAIN calls'
      BY <1>3
    <2> QED BY <1>3, <2>1 DEF Steady
  <1>7. ASSUME \/ e.fn \in {"data", "client"} /\ e.id = currentClientId'
               \/ e.fn \notin {"data", "client", "later"}
                  /\ UNCHANGED <<currentClientId, metrics>>
        PROVE  Alone'
    <2>1. CASE hurried'
      BY <2>1 DEF Alone
    <2>2. CASE ~hurried'
      <3>1. /\ AllOrphans(calls) /\ Done(currentClientId, metrics)
            /\ reordered' => trouble'
        BY <2>2, Clicked
      <3>2. PICK id, m : id = currentClientId' /\ m = metrics'
        OBVIOUS
      <3>3. AloneIn(calls', id, m)
        <4>1. CASE e.fn \in {"data", "client"} /\ e.id = id
          BY <1>1, <1>2, <3>1, <4>1, OneMore
        <4>2. CASE e.fn \notin {"data", "client", "later"} /\ Done(id, m)
          BY <1>1, <1>2, <3>1, <4>2, OneMore
        <4> QED BY <1>7, <3>1, <3>2, <4>1, <4>2
      <3> QED BY <3>1, <3>2, <3>3 DEF Alone, AloneIn
    <2> QED BY <2>1, <2>2
  <1> QED BY <1>2, <1>5, <1>6, <1>7 DEF CallsOK

\* A row of the table is clicked.
LEMMA RowInv ==
    ASSUME PageInv, NEW id \in Id, Row(id)
    PROVE  PageInv'
  <1>1. /\ Click /\ currentClientId' = id /\ metrics' = [id |-> id, says |-> "loading"]
        /\ currentData' = NoData /\ calls' = Append(calls, Call("data", id, currentTimeRange))
        /\ UNCHANGED <<currentTimeRange, title, charts, rows, fields, currentBasicMode, busy>>
    BY DEF Row, showDetail
  <1>2. PICK e : e = Call("data", id, currentTimeRange)
    OBVIOUS
  <1>3. /\ e \in CallSet /\ e.fn = "data" /\ e.id = id /\ e.arg = currentTimeRange
        /\ e.state = "sent"
    <2>1. currentTimeRange \in Hours /\ currentTimeRange \in Args
      BY DEF PageInv, Typed, PageOK, Args
    <2>2. "data" \in Function
      BY DEF Function
    <2> QED BY <1>2, <2>1, <2>2, CallMade
  <1>4. calls' = Append(calls, e) /\ e.id = currentClientId'
    BY <1>1, <1>2, <1>3
  <1>5. CallsOK' /\ Adds(calls, e, calls') /\ Orphans' /\ Alone'
    BY <1>1, <1>3, <1>4, Requested
  <1>6. PageOK'
    BY <1>1 DEF PageInv, Typed, PageOK
  <1>7. Opened'
    BY <1>1, PageAssumption DEF Opened
  <1>8. Following'
    <2>1. calls \in Seq(CallSet) /\ calls' \in Seq(CallSet)
      BY <1>5 DEF PageInv, Typed, CallsOK
    <2>2. /\ currentClientId' = e.id /\ currentTimeRange' = e.arg
      BY <1>1, <1>3
    <2>3. Follows'
      BY <1>3, <1>5, <2>1, <2>2, Asked DEF Follows
    <2> QED BY <2>3 DEF Following
  <1> QED BY <1>1, <1>5, <1>6, <1>7, <1>8, Clicked DEF PageInv, Typed

\* Another range is chosen.
LEMMA SetTimeRangeInv ==
    ASSUME PageInv, NEW hours \in Hours, setTimeRange(hours)
    PROVE  PageInv'
  <1>1. /\ Click /\ currentTimeRange' = hours
        /\ UNCHANGED <<currentClientId, currentData, currentBasicMode, rows, title, metrics,
                       charts, fields, busy>>
    BY DEF setTimeRange, shown
  <1>2. PageOK'
    BY <1>1 DEF PageInv, Typed, PageOK
  <1>3. CASE currentClientId = NoId
    <2>1. calls' = calls
      BY <1>3 DEF setTimeRange
    <2>2. CallsOK' /\ Opened' /\ Orphans'
      BY <1>1, <2>1, Clicked DEF PageInv, Typed, CallsOK, Opened, Orphans
    <2>3. Alone'
      <3> SUFFICES ASSUME ~hurried'
                   PROVE  Alone'
        BY DEF Alone
      <3>1. AloneIn(calls, currentClientId, metrics) /\ (reordered' => trouble')
        BY <1>1, Clicked, NoneWaits
      <3> QED BY <1>1, <2>1, <3>1 DEF Alone, AloneIn
    <2>4. Following'
      BY <1>1, <1>3 DEF Following, Guarded
    <2> QED BY <1>1, <1>2, <2>2, <2>3, <2>4, Clicked DEF PageInv, Typed
  <1>4. CASE currentClientId # NoId
    <2>1. calls' = Append(calls, Call("range", currentClientId, hours))
      BY <1>4 DEF setTimeRange
    <2>2. PICK e : e = Call("range", currentClientId, hours)
      OBVIOUS
    <2>3. /\ e \in CallSet /\ e.fn = "range" /\ e.id = currentClientId /\ e.arg = hours
          /\ e.state = "sent"
      <3>1. hours \in Args /\ currentClientId \in Id /\ "range" \in Function
        BY <1>4 DEF PageInv, Typed, PageOK, Args, Function
      <3> QED BY <2>2, <3>1, CallMade
    <2>4. /\ CallsOK' /\ Adds(calls, e, calls') /\ Orphans' /\ Alone'
          /\ Steady(calls') => Steady(calls)
      <3>1. calls' = Append(calls, e)
        BY <2>1, <2>2
      <3> QED BY <1>1, <2>3, <3>1, Requested
    <2>5. Opened'
      BY <1>1, <1>4 DEF Opened
    <2>6. Following'
      <3> SUFFICES ASSUME Guarded'
                   PROVE  Follows'
        BY DEF Following
      <3>1. Guarded
        BY <1>1, <2>4, Clicked DEF Guarded
      <3>2. Follows
        BY <3>1 DEF PageInv, Following
      <3>3. calls \in Seq(CallSet) /\ calls' \in Seq(CallSet)
        BY <2>4 DEF PageInv, Typed, CallsOK
      <3>4. DataFollow(calls, e.id, currentData) => DataFollow(calls', e.id, currentData)
        BY <2>3, <2>4, <3>3, RangeAsked
      <3>5. RangeFollows(calls', e.arg, currentData)
        BY <2>3, <2>4, <3>3, RangeAsked
      <3>6. ClientFollows(calls, e.id, clients) => ClientFollows(calls', e.id, clients)
        BY <2>3, <2>4, <3>3, RangeAsked
      <3>7. ShownFollow(calls, e.id, clients, currentBasicMode, currentData,
                        title, metrics, charts) =>
            ShownFollow(calls', e.id, clients, currentBasicMode, currentData,
                        title, metrics, charts)
        BY <2>3, <2>4, <3>3, RangeAsked
      <3> QED BY <1>1, <2>3, <3>2, <3>4, <3>5, <3>6, <3>7, Clicked DEF Follows
    <2> QED BY <1>1, <1>2, <2>4, <2>5, <2>6, Clicked DEF PageInv, Typed
  <1> QED BY <1>3, <1>4

\* A request that replaces the client or its mode.
LEMMA Unsteady ==
    ASSUME PageInv, Click, NEW e \in CallSet, e.state = "sent", e.fn \in {"toggle", "id"},
           calls' = Append(calls, e),
           UNCHANGED <<currentClientId, title, metrics>>, currentClientId # NoId, PageOK'
    PROVE  PageInv'
  <1>1. /\ CallsOK' /\ Adds(calls, e, calls') /\ Orphans' /\ Alone' /\ ~Steady(calls')
    BY Requested
  <1>2. Opened'
    BY DEF Opened
  <1>3. Following'
    BY <1>1 DEF Following, Guarded
  <1> QED BY <1>1, <1>2, <1>3, Clicked DEF PageInv, Typed

\* The mode is switched.
LEMMA ToggleInv ==
    ASSUME PageInv, toggleBasicMode
    PROVE  PageInv'
  <1>1. /\ Click /\ currentClientId # NoId /\ busy' = busy \union {"toggle"}
        /\ calls' = Append(calls, Call("toggle", currentClientId, Other(currentBasicMode)))
        /\ UNCHANGED <<currentClientId, currentTimeRange, currentData, currentBasicMode,
                       rows, title, metrics, charts, fields>>
    BY DEF toggleBasicMode, current, shown
  <1>2. Other(currentBasicMode) \in Mode
    <2>1. \E m \in Mode : m # currentBasicMode
      BY PageAssumption DEF PageInv, Typed, PageOK, Mode
    <2> QED BY <2>1 DEF Other
  <1>3. PICK e : e = Call("toggle", currentClientId, Other(currentBasicMode))
    OBVIOUS
  <1>4. e \in CallSet /\ e.fn = "toggle" /\ e.state = "sent"
    <2>1. currentClientId \in Id /\ "toggle" \in Function /\ Other(currentBasicMode) \in Args
      BY <1>1, <1>2 DEF PageInv, Typed, PageOK, Args, Function
    <2> QED BY <1>2, <1>3, <2>1, CallMade
  <1>5. PageOK'
    BY <1>1 DEF PageInv, Typed, PageOK, Button
  <1>6. calls' = Append(calls, e) /\ e.fn \in {"toggle", "id"}
    BY <1>1, <1>3, <1>4
  <1> QED BY <1>1, <1>4, <1>5, <1>6, Unsteady

\* The client is renamed.
LEMMA SaveClientIdInv ==
    ASSUME PageInv, NEW value \in Id, saveClientId(value)
    PROVE  PageInv'
  <1>1. /\ Click /\ currentClientId # NoId /\ busy' = busy \union {"id"}
        /\ calls' = Append(calls, Call("id", currentClientId, value))
        /\ UNCHANGED <<currentClientId, currentTimeRange, currentData, currentBasicMode,
                       rows, title, metrics, charts, fields>>
    BY DEF saveClientId, current, shown
  <1>3. PICK e : e = Call("id", currentClientId, value)
    OBVIOUS
  <1>4. e \in CallSet /\ e.fn = "id" /\ e.state = "sent"
    <2>1. currentClientId \in Id /\ "id" \in Function /\ value \in Args
      BY <1>1 DEF PageInv, Typed, PageOK, Args, Function
    <2> QED BY <1>3, <2>1, CallMade
  <1>5. PageOK'
    BY <1>1 DEF PageInv, Typed, PageOK, Button
  <1>6. calls' = Append(calls, e) /\ e.fn \in {"toggle", "id"}
    BY <1>1, <1>3, <1>4
  <1> QED BY <1>1, <1>4, <1>5, <1>6, Unsteady

\* A request that has nothing to do with what is shown.
LEMMA Apart ==
    ASSUME PageInv, Click, NEW e \in CallSet, e.state = "sent", e.fn \in {"name", "save"},
           calls' = Append(calls, e), e.fn = "name" => currentClientId # NoId,
           UNCHANGED <<current, shown>>, PageOK'
    PROVE  PageInv'
  <1>0. /\ UNCHANGED <<currentClientId, currentTimeRange, currentData, currentBasicMode>>
        /\ UNCHANGED <<title, metrics, charts>> /\ clients' = clients
    BY Clicked DEF current, shown
  <1>1. /\ CallsOK' /\ Adds(calls, e, calls') /\ Orphans' /\ Alone'
        /\ Steady(calls') => Steady(calls)
    BY <1>0, Requested
  <1>2. calls \in Seq(CallSet) /\ calls' \in Seq(CallSet)
    BY <1>1 DEF PageInv, Typed, CallsOK
  <1>3. Opened'
    <2> SUFFICES ASSUME currentClientId = NoId
                 PROVE  title.id = NoId /\ \A k \in DOMAIN calls' : calls'[k].fn = "save"
      BY <1>0 DEF Opened
    <2>1. e.fn = "save" /\ title.id = NoId /\ \A k \in DOMAIN calls : calls[k].fn = "save"
      BY DEF PageInv, Typed, Opened
    <2>2. \A k \in DOMAIN calls' : (k \in DOMAIN calls /\ calls'[k] = calls[k]) \/ calls'[k] = e
      BY <1>1, <1>2 DEF Adds
    <2> QED BY <2>1, <2>2
  <1>4. Following'
    <2> SUFFICES ASSUME Guarded'
                 PROVE  Follows'
      BY DEF Following
    <2>1. Guarded
      BY <1>0, <1>1, Clicked DEF Guarded
    <2>2. Follows
      BY <2>1 DEF PageInv, Following
    <2>3. e.fn \notin {"data", "range", "client"}
      OBVIOUS
    <2>4. DataFollow(calls, currentClientId, currentData) =>
             DataFollow(calls', currentClientId, currentData)
      BY <1>1, <1>2, <2>3, Beside
    <2>5. RangeFollows(calls, currentTimeRange, currentData) =>
             RangeFollows(calls', currentTimeRange, currentData)
      BY <1>1, <1>2, <2>3, Beside
    <2>6. ClientFollows(calls, currentClientId, clients) =>
             ClientFollows(calls', currentClientId, clients)
      BY <1>1, <1>2, <2>3, Beside
    <2>7. ShownFollow(calls, currentClientId, clients, currentBasicMode, currentData,
                      title, metrics, charts) =>
          ShownFollow(calls', currentClientId, clients, currentBasicMode, currentData,
                      title, metrics, charts)
      BY <1>1, <1>2, <2>3, Beside
    <2> QED BY <1>0, <2>2, <2>4, <2>5, <2>6, <2>7 DEF Follows
  <1> QED BY <1>1, <1>3, <1>4, Clicked DEF PageInv, Typed

\* The name of the client is saved.
LEMMA SaveNameInv ==
    ASSUME PageInv, NEW name \in Name, saveName(name)
    PROVE  PageInv'
  <1>1. /\ Click /\ title.id # NoId
        /\ calls' = Append(calls, Call("name", currentClientId, name))
        /\ UNCHANGED <<current, rows, shown, fields, busy>>
    BY DEF saveName
  <1>2. currentClientId # NoId
    BY <1>1 DEF PageInv, Typed, Opened
  <1>3. PICK e : e = Call("name", currentClientId, name)
    OBVIOUS
  <1>4. e \in CallSet /\ e.fn = "name" /\ e.state = "sent"
    <2>1. currentClientId \in Id /\ "name" \in Function /\ name \in Args
      BY <1>2 DEF PageInv, Typed, PageOK, Args, Function
    <2> QED BY <1>3, <2>1, CallMade
  <1>5. PageOK'
    BY <1>1 DEF PageInv, Typed, PageOK, current, shown
  <1>6. calls' = Append(calls, e) /\ e.fn \in {"name", "save"}
    BY <1>1, <1>3, <1>4
  <1> QED BY <1>1, <1>2, <1>4, <1>5, <1>6, Apart

\* A setting is saved.
LEMMA SaveSettingInv ==
    ASSUME PageInv, NEW s \in Setting, NEW value \in Value, saveSetting(s, value)
    PROVE  PageInv'
  <1>1. /\ Click /\ fields' = [fields EXCEPT ![s] = value] /\ busy' = busy \union {s}
        /\ calls' = Append(calls, Call("save", s, value))
        /\ UNCHANGED <<current, rows, shown>>
    BY DEF saveSetting
  <1>3. PICK e : e = Call("save", s, value)
    OBVIOUS
  <1>4. e \in CallSet /\ e.fn = "save" /\ e.state = "sent"
    <2>1. "save" \in Function /\ value \in Args
      BY DEF Args, Function
    <2> QED BY <1>3, <2>1, CallMade
  <1>5. PageOK'
    <2>1. fields \in [Setting -> Value] /\ busy \subseteq Button
      BY DEF PageInv, Typed, PageOK
    <2>2. fields' \in [Setting -> Value] /\ busy' \subseteq Button
      BY <1>1, <2>1 DEF Button
    <2> QED BY <1>1, <2>2 DEF PageInv, Typed, PageOK, current, shown
  <1>6. calls' = Append(calls, e) /\ e.fn \in {"name", "save"} /\ e.fn # "name"
    BY <1>1, <1>3, <1>4
  <1> QED BY <1>1, <1>4, <1>5, <1>6, Apart

\* The list is read.
LEMMA FetchInv ==
    ASSUME PageInv, fetchClients
    PROVE  PageInv'
  <1>1. /\ rows' = DOMAIN clients /\ UNCHANGED <<clients, moved, settings>>
        /\ UNCHANGED <<currentClientId, currentTimeRange, currentData, currentBasicMode>>
        /\ UNCHANGED <<title, metrics, charts, fields, busy, calls, clicks, lost>>
        /\ UNCHANGED <<hurried, reordered, trouble>>
    BY DEF fetchClients, server, current, shown, ghosts
  <1>2. ServerOK' /\ RunOK' /\ CallsOK' /\ Opened' /\ Orphans'
    BY <1>1 DEF PageInv, Typed, ServerOK, RunOK, CallsOK, Opened, Orphans
  <1>3. PageOK'
    <2>1. rows' \subseteq Id
      BY <1>1 DEF PageInv, Typed, ServerOK
    <2> QED BY <1>1, <2>1 DEF PageInv, Typed, PageOK
  <1>4. Alone'
    BY <1>1 DEF PageInv, Alone
  <1>5. Following'
    BY <1>1 DEF PageInv, Following, Guarded, Follows
  <1> QED BY <1>2, <1>3, <1>4, <1>5 DEF PageInv, Typed

\* A setting is changed elsewhere.
LEMMA PostInv ==
    ASSUME PageInv, NEW s \in Setting, NEW value \in Value, PostSetting(s, value)
    PROVE  PageInv'
  <1>1. /\ clicks < MaxClicks /\ clicks' = clicks + 1
        /\ settings' = [settings EXCEPT ![s] = value]
        /\ UNCHANGED <<clients, moved, fields, rows, busy>>
        /\ UNCHANGED <<currentClientId, currentTimeRange, currentData, currentBasicMode>>
        /\ UNCHANGED <<title, metrics, charts, calls, lost>>
        /\ UNCHANGED <<hurried, reordered, trouble>>
    BY DEF PostSetting, page, current, shown, ghosts
  <1>2. CallsOK' /\ Opened' /\ Orphans' /\ PageOK'
    BY <1>1 DEF PageInv, Typed, PageOK, CallsOK, Opened, Orphans
  <1>3. RunOK'
    <2>1. clicks' \in 0 .. MaxClicks
      <3>1. clicks \in 0 .. MaxClicks /\ MaxClicks \in Nat
        BY PageAssumption DEF PageInv, Typed, RunOK
      <3> QED BY <1>1, <3>1
    <2> QED BY <1>1, <2>1 DEF PageInv, Typed, RunOK
  <1>4. ServerOK'
    BY <1>1 DEF PageInv, Typed, ServerOK
  <1>5. Alone'
    BY <1>1 DEF PageInv, Alone
  <1>6. Following'
    BY <1>1 DEF PageInv, Following, Guarded, Follows
  <1> QED BY <1>2, <1>3, <1>4, <1>5, <1>6 DEF PageInv, Typed

-----------------------------------------------------------------------------
\* A request or its answer gets lost.
LEMMA LoseInv ==
    ASSUME PageInv, NEW k \in DOMAIN calls, Lose(k)
    PROVE  PageInv'
  <1>1. /\ calls[k].state \in {"sent", "answered"} /\ calls[k].fn # "later"
        /\ calls' = [calls EXCEPT ![k].state = "lost"]
        /\ lost < MaxLost /\ lost' = lost + 1
        /\ UNCHANGED <<clients, moved, settings, rows, fields, busy>>
        /\ UNCHANGED <<currentClientId, currentTimeRange, currentData, currentBasicMode>>
        /\ UNCHANGED <<title, metrics, charts, clicks>>
        /\ UNCHANGED <<hurried, reordered, trouble>>
    BY DEF Lose, server, page, current, shown, ghosts
  <1>2. calls \in Seq(CallSet)
    BY DEF PageInv, Typed, CallsOK
  <1>3. calls' \in Seq(CallSet) /\ Changes(calls, k, calls') /\ calls'[k].state = "lost"
    BY <1>1, <1>2, CallMarked
  <1>4. RunOK'
    <2>1. lost' \in 0 .. MaxLost
      <3>1. lost \in 0 .. MaxLost /\ MaxLost \in Nat
        BY PageAssumption DEF PageInv, Typed, RunOK
      <3> QED BY <1>1, <3>1
    <2> QED BY <1>1, <2>1 DEF PageInv, Typed, RunOK
  <1>5. ServerOK' /\ PageOK' /\ CallsOK'
    BY <1>1, <1>3 DEF PageInv, Typed, ServerOK, PageOK, CallsOK
  <1>6. DOMAIN calls' = DOMAIN calls /\ \A i \in DOMAIN calls : calls'[i].fn = calls[i].fn
    BY <1>3 DEF Changes
  <1>7. Opened'
    BY <1>1, <1>6 DEF PageInv, Typed, Opened
  <1>8. Orphans'
    BY <1>1, <1>3 DEF PageInv, Orphans, Changes
  <1>9. Alone'
    <2> SUFFICES ASSUME ~hurried
                 PROVE  Alone'
      BY <1>1 DEF Alone
    <2>1. AloneIn(calls, currentClientId, metrics) /\ (reordered => trouble)
      BY DEF PageInv, Alone, AloneIn
    <2>2. calls[k].state # "orphan" /\ calls'[k].state # "orphan"
      BY <1>1, <1>3
    <2>3. AloneIn(calls', currentClientId, metrics)
      BY <1>3, <2>1, <2>2, StillWaits
    <2> QED BY <1>1, <2>1, <2>3 DEF Alone, AloneIn
  <1>10. Following'
    BY <1>3, <1>6 DEF Following, Guarded, Steady
  <1> QED BY <1>4, <1>5, <1>7, <1>8, <1>9, <1>10 DEF PageInv, Typed

\* The body of an answer stays away, or comes after all.
LEMMA StallInv ==
    ASSUME PageInv, NEW k \in DOMAIN calls, Stall(k) \/ BodyComes(k)
    PROVE  PageInv'
  <1>1. /\ calls[k].state \in {"answered", "stalled"} /\ calls[k].fn # "later"
        /\ \E st \in {"answered", "stalled"} : calls' = [calls EXCEPT ![k].state = st]
        /\ UNCHANGED <<clients, moved, settings, rows, fields, busy>>
        /\ UNCHANGED <<currentClientId, currentTimeRange, currentData, currentBasicMode>>
        /\ UNCHANGED <<title, metrics, charts, clicks>>
        /\ UNCHANGED <<hurried, reordered, trouble>>
    <2>1. CASE Stall(k)
      BY <2>1 DEF Stall, server, page, current, shown, ghosts
    <2>2. CASE BodyComes(k)
      <3>1. calls \in Seq(CallSet) /\ calls[k].state = "stalled"
        BY <2>2 DEF BodyComes, PageInv, Typed, CallsOK
      <3>2. calls[k].fn # "later"
        BY <3>1, CallFields DEF Formed
      <3> QED BY <2>2, <3>1, <3>2 DEF BodyComes, server, page, current, shown, ghosts
    <2> QED BY <2>1, <2>2
  <1>2. calls \in Seq(CallSet)
    BY DEF PageInv, Typed, CallsOK
  <1>3. /\ calls' \in Seq(CallSet) /\ Changes(calls, k, calls')
        /\ calls'[k].state \in {"answered", "stalled"}
        /\ calls'[k].ok = calls[k].ok /\ calls'[k].answer = calls[k].answer
    <2>1. calls[k].fn # "later" /\ Has(calls[k])
      BY <1>1 DEF Has
    <2>2. CASE calls' = [calls EXCEPT ![k].state = "answered"]
      BY <1>2, <2>1, <2>2, CallMarked
    <2>3. CASE calls' = [calls EXCEPT ![k].state = "stalled"]
      BY <1>2, <2>1, <2>3, CallMarked
    <2>4. \/ calls' = [calls EXCEPT ![k].state = "answered"]
          \/ calls' = [calls EXCEPT ![k].state = "stalled"]
      BY <1>1
    <2> QED BY <2>2, <2>3, <2>4
  <1>4. RunOK'
    <2>1. lost \in 0 .. MaxLost /\ MaxLost \in Nat
      BY PageAssumption DEF PageInv, Typed, RunOK
    <2>2. lost' \in 0 .. MaxLost
      BY <2>1 DEF Stall, BodyComes
    <2> QED BY <1>1, <2>2 DEF PageInv, Typed, RunOK
  <1>5. ServerOK' /\ PageOK' /\ CallsOK'
    BY <1>1, <1>3 DEF PageInv, Typed, ServerOK, PageOK, CallsOK
  <1>6. /\ DOMAIN calls' = DOMAIN calls
        /\ \A i \in DOMAIN calls : /\ calls'[i].fn = calls[i].fn
                                   /\ i # k => calls'[i] = calls[i]
    BY <1>3 DEF Changes
  <1>7. Opened'
    BY <1>1, <1>6 DEF PageInv, Typed, Opened
  <1>8. Orphans'
    BY <1>1, <1>3, <1>6 DEF PageInv, Orphans
  <1>9. Alone'
    <2> SUFFICES ASSUME ~hurried
                 PROVE  Alone'
      BY <1>1 DEF Alone
    <2>1. AloneIn(calls, currentClientId, metrics) /\ (reordered => trouble)
      BY DEF PageInv, Alone, AloneIn
    <2>2. calls[k].state # "orphan" /\ calls'[k].state # "orphan"
      BY <1>1, <1>3
    <2>3. AloneIn(calls', currentClientId, metrics)
      BY <1>3, <2>1, <2>2, StillWaits
    <2> QED BY <1>1, <2>1, <2>3 DEF Alone, AloneIn
  <1>10. Following'
    <2> SUFFICES ASSUME Guarded'
                 PROVE  Follows'
      BY DEF Following
    <2>1. Steady(calls)
      <3>1. \A i \in DOMAIN calls : calls[i].fn \notin {"toggle", "id", "later"}
        BY <1>6 DEF Guarded, Steady
      <3>2. \A i \in DOMAIN calls : calls[i].state # "lost"
        BY <1>1, <1>6 DEF Guarded, Steady
      <3> QED BY <3>1, <3>2 DEF Steady
    <2>2. Follows
      BY <1>1, <2>1 DEF PageInv, Following, Guarded
    <2>3. PICK t : t = calls'
      OBVIOUS
    <2>4. /\ Changes(calls, k, t) /\ Has(calls[k])
          /\ t[k].ok = calls[k].ok /\ t[k].answer = calls[k].answer
      BY <1>1, <1>3, <2>3 DEF Has
    <2>5. /\ DataFollow(calls, currentClientId, currentData) =>
                DataFollow(t, currentClientId, currentData)
          /\ RangeFollows(calls, currentTimeRange, currentData) =>
                RangeFollows(t, currentTimeRange, currentData)
          /\ ClientFollows(calls, currentClientId, clients) =>
                ClientFollows(t, currentClientId, clients)
          /\ ShownFollow(calls, currentClientId, clients, currentBasicMode, currentData,
                         title, metrics, charts) =>
             ShownFollow(t, currentClientId, clients, currentBasicMode, currentData,
                         title, metrics, charts)
      BY <2>4, BodyOnly
    <2> QED BY <1>1, <2>2, <2>3, <2>5 DEF Follows
  <1> QED BY <1>4, <1>5, <1>7, <1>8, <1>9, <1>10 DEF PageInv, Typed

-----------------------------------------------------------------------------
\* Taking a call out keeps what only says what calls there are.
LEMMA TakenOut ==
    ASSUME PageInv, NEW k \in DOMAIN calls, NEW t, t = RemoveAt(calls, k)
    PROVE  /\ t \in Seq(CallSet) /\ Leaves(calls, k, t)
           /\ trouble \/ \A i \in DOMAIN t : t[i].state # "orphan"
           /\ currentClientId = NoId =>
                 title.id = NoId /\ \A i \in DOMAIN t : t[i].fn = "save"
  <1>1. calls \in Seq(CallSet)
    BY DEF PageInv, Typed, CallsOK
  <1>2. /\ t \in Seq(CallSet) /\ Leaves(calls, k, t)
        /\ \A i \in DOMAIN t : \E j \in DOMAIN calls : t[i] = calls[j]
    BY <1>1, CallsShrink
  <1>3. trouble \/ \A i \in DOMAIN t : t[i].state # "orphan"
    BY <1>2 DEF PageInv, Orphans
  <1>4. currentClientId = NoId => title.id = NoId /\ \A i \in DOMAIN t : t[i].fn = "save"
    BY <1>2 DEF PageInv, Typed, Opened
  <1> QED BY <1>2, <1>3, <1>4

\* A call that fails.
LEMMA CatchInv ==
    ASSUME PageInv, NEW k \in DOMAIN calls, calls[k].state # "orphan", calls[k].fn # "later",
           NEW orphan \in BOOLEAN, Catch(k, orphan), lost' \in 0 .. MaxLost
    PROVE  PageInv'
  <1>1. /\ metrics' = IF calls[k].fn \in {"data", "client"}
                      THEN [id |-> calls[k].id, says |-> "failed"] ELSE metrics
        /\ busy' = Released(calls[k])
        /\ calls' = IF orphan THEN [calls EXCEPT ![k].state = "orphan"]
                    ELSE RemoveAt(calls, k)
        /\ trouble' = TRUE
        /\ UNCHANGED <<clients, moved, settings, rows, fields>>
        /\ UNCHANGED <<currentClientId, currentTimeRange, currentData, currentBasicMode>>
        /\ UNCHANGED <<title, charts, clicks, hurried, reordered>>
    BY DEF Catch, server, current
  <1>2. calls \in Seq(CallSet)
    BY DEF PageInv, Typed, CallsOK
  <1>3. calls[k] \in CallSet /\ Formed(calls[k]) /\ calls[k].fn \in Function
    BY <1>2, CallFields
  <1>4. PICK t : t = calls'
    OBVIOUS
  <1>5. t \in Seq(CallSet) /\ \A i \in DOMAIN t : \E j \in DOMAIN calls : t[i].fn = calls[j].fn
    <2>1. CASE orphan
      <3>1. t = [calls EXCEPT ![k].state = "orphan"]
        BY <1>1, <1>4, <2>1
      <3>2. t \in Seq(CallSet) /\ Changes(calls, k, t)
        BY <1>2, <3>1, CallMarked
      <3>3. DOMAIN t = DOMAIN calls /\ \A i \in DOMAIN calls : t[i].fn = calls[i].fn
        BY <3>2 DEF Changes
      <3> QED BY <3>2, <3>3
    <2>2. CASE ~orphan
      <3>1. t = RemoveAt(calls, k)
        BY <1>1, <1>4, <2>2
      <3>2. t \in Seq(CallSet) /\ \A i \in DOMAIN t : \E j \in DOMAIN calls : t[i] = calls[j]
        BY <1>2, <3>1, CallsShrink
      <3> QED BY <3>2
    <2> QED BY <2>1, <2>2
  <1>6. ServerOK' /\ CallsOK' /\ RunOK' /\ Orphans'
    BY <1>1, <1>4, <1>5 DEF PageInv, Typed, ServerOK, CallsOK, RunOK, Orphans
  <1>7. PageOK'
    <2>1. metrics' \in [id : Id \union {NoId}, says : {"loading", "failed", "none", "values"}]
      <3>1. calls[k].fn \in {"data", "client"} => calls[k].id \in Id
        BY <1>3 DEF Formed
      <3> QED BY <1>1, <3>1 DEF PageInv, Typed, PageOK
    <2>2. busy' \subseteq Button
      BY <1>1 DEF PageInv, Typed, PageOK, Released
    <2> QED BY <1>1, <2>1, <2>2 DEF PageInv, Typed, PageOK
  <1>8. Opened'
    BY <1>1, <1>4, <1>5 DEF PageInv, Typed, Opened
  <1>9. Alone'
    <2> SUFFICES ASSUME ~hurried
                 PROVE  Alone'
      BY <1>1 DEF Alone
    <2>1. AloneIn(calls, currentClientId, metrics)
      BY DEF PageInv, Alone, AloneIn
    <2>2. AllOrphans(t)
      <3>1. CASE orphan
        <4>1. t = [calls EXCEPT ![k].state = "orphan"]
          BY <1>1, <1>4, <3>1
        <4>2. DOMAIN t = DOMAIN calls /\ t[k].state = "orphan"
              /\ \A i \in DOMAIN calls : i # k => t[i] = calls[i]
          BY <1>2, <4>1, CallMarked DEF Changes
        <4> QED BY <2>1, <4>2 DEF AloneIn, OneWaits, AllOrphans
      <3>2. CASE ~orphan
        <4>1. t = RemoveAt(calls, k)
          BY <1>1, <1>4, <3>2
        <4> QED BY <1>2, <2>1, <4>1, OneLess DEF AloneIn
      <3> QED BY <3>1, <3>2
    <2>3. Done(currentClientId, metrics')
      <3>1. CASE calls[k].fn \in {"data", "client"}
        <4>1. calls[k].id = currentClientId
          BY <2>1, <3>1, OnlyOther
        <4> QED BY <1>1, <3>1, <4>1 DEF Done
      <3>2. CASE calls[k].fn \notin {"data", "client"}
        <4>1. Done(currentClientId, metrics)
          BY <2>1, <3>2, OnlyOther
        <4> QED BY <1>1, <3>2, <4>1
      <3> QED BY <3>1, <3>2
    <2>4. AloneIn(t, currentClientId, metrics')
      BY <2>2, <2>3, NoneWaits
    <2> QED BY <1>1, <1>4, <2>4 DEF Alone, AloneIn
  <1>10. Following'
    BY <1>1 DEF Following, Guarded
  <1> QED BY <1>6, <1>7, <1>8, <1>9, <1>10 DEF PageInv, Typed

\* An answer that is no success.
LEMMA RefusedInv ==
    ASSUME PageInv, NEW k \in DOMAIN calls, Refused(k)
    PROVE  PageInv'
  <1>1. calls \in Seq(CallSet)
    BY DEF PageInv, Typed, CallsOK
  <1>2. Formed(calls[k]) /\ calls[k].state = "answered" /\ ~calls[k].ok
    BY <1>1, CallFields DEF Refused
  <1>3. calls[k].fn # "later"
    BY <1>2 DEF Formed
  <1>4. Catch(k, FALSE) /\ lost' \in 0 .. MaxLost
    BY DEF Refused, PageInv, Typed, RunOK
  <1>5. calls[k].state # "orphan"
    BY <1>2
  <1> QED BY <1>3, <1>4, <1>5, CatchInv

\* A body that never comes.
LEMMA BodyFailsInv ==
    ASSUME PageInv, NEW k \in DOMAIN calls, BodyFails(k)
    PROVE  PageInv'
  <1>1. calls \in Seq(CallSet)
    BY DEF PageInv, Typed, CallsOK
  <1>2. Formed(calls[k]) /\ calls[k].state = "stalled"
    BY <1>1, CallFields DEF BodyFails
  <1>3. calls[k].fn # "later" /\ calls[k].state # "orphan"
    BY <1>2 DEF Formed
  <1>4. Catch(k, FALSE) /\ lost' \in 0 .. MaxLost
    BY DEF BodyFails, PageInv, Typed, RunOK
  <1> QED BY <1>3, <1>4, CatchInv

\* The eight seconds are over.
LEMMA GiveUpInv ==
    ASSUME PageInv, NEW k \in DOMAIN calls, GiveUp(k)
    PROVE  PageInv'
  <1>1. calls \in Seq(CallSet)
    BY DEF PageInv, Typed, CallsOK
  <1>2. Formed(calls[k]) /\ lost \in 0 .. MaxLost
    BY <1>1, CallFields DEF PageInv, Typed, RunOK
  <1>3. CASE calls[k].state = "lost" /\ Catch(k, FALSE) /\ UNCHANGED lost
    <2>1. calls[k].fn # "later" /\ calls[k].state # "orphan"
      BY <1>2, <1>3 DEF Formed
    <2> QED BY <1>2, <1>3, <2>1, CatchInv
  <1>4. CASE calls[k].state = "sent" /\ Catch(k, TRUE) /\ lost < MaxLost /\ lost' = lost + 1
    <2>1. calls[k].fn # "later" /\ calls[k].state # "orphan"
      BY <1>2, <1>4 DEF Formed
    <2>2. lost' \in 0 .. MaxLost
      <3>1. MaxLost \in Nat
        BY PageAssumption
      <3> QED BY <1>2, <1>4, <3>1
    <2> QED BY <1>4, <2>1, <2>2, CatchInv
  <1> QED BY <1>3, <1>4 DEF GiveUp

-----------------------------------------------------------------------------
\* A pending rename leads to an id, and what is known of one is a client.
LEMMA Resolved ==
    ASSUME ServerOK, NEW id \in Id
    PROVE  resolve_id(id) \in Id /\ Known(id) \in Client
  <1>1. resolve_id(id) \in Id
    BY DEF ServerOK, resolve_id
  <1>2. NewClient \in Client
    BY DEF NewClient, Client, Mode
  <1> QED BY <1>1, <1>2 DEF ServerOK, Known

\* What is written to the server.
LEMMA Served ==
    ASSUME ServerOK, NEW c \in CallSet, Read(c) \/ Configure(c) \/ Rename(c)
    PROVE  /\ ServerOK'
           /\ c.fn \notin {"toggle", "id"} =>
                 \A x \in DOMAIN clients :
                    x \in DOMAIN clients' /\ clients'[x].mode = clients[x].mode
           /\ c.fn = "client" => clients' = clients
  <1>0. Formed(c)
    BY DEF CallSet
  <1>1. CASE Read(c)
    BY <1>1 DEF Read, server, ServerOK
  <1>2. CASE Configure(c)
    <2>1. PICK id : id = IF c.fn = "name" THEN resolve_id(c.id) ELSE c.id
      OBVIOUS
    <2>2. c.id \in Id
      BY <1>0, <1>2 DEF Configure, Formed
    <2>3. id \in Id /\ Known(id) \in Client
      BY <2>1, <2>2, Resolved
    <2>4. PICK d : d = IF c.fn = "name" THEN [Known(id) EXCEPT !.name = c.arg]
                       ELSE [Known(id) EXCEPT !.mode = c.arg]
      OBVIOUS
    <2>5. clients' = With(id, d) /\ UNCHANGED <<moved, settings>>
      BY <1>2, <2>1, <2>4 DEF Configure
    <2>6. d \in Client
      BY <1>0, <1>2, <2>3, <2>4 DEF Configure, Formed, Client
    <2>7. /\ DOMAIN clients' = DOMAIN clients \union {id} /\ clients'[id] = d
          /\ \A x \in DOMAIN clients : x # id => clients'[x] = clients[x]
      BY <2>5 DEF With
    <2>8. ServerOK'
      BY <2>3, <2>5, <2>6, <2>7 DEF ServerOK
    <2>9. c.fn = "name" /\ id \in DOMAIN clients => d.mode = clients[id].mode
      <3> SUFFICES ASSUME c.fn = "name", id \in DOMAIN clients
                   PROVE  d.mode = clients[id].mode
        OBVIOUS
      <3>1. Known(id) = clients[id] /\ Known(id) \in Client
        BY <2>3 DEF Known
      <3>2. d = [Known(id) EXCEPT !.name = c.arg]
        BY <2>4
      <3> QED BY <3>1, <3>2 DEF Client
    <2> QED BY <1>2, <2>7, <2>8, <2>9 DEF Configure
  <1>3. CASE Rename(c)
    <2>1. PICK old : old = resolve_id(c.id)
      OBVIOUS
    <2>2. c.id \in Id /\ c.arg \in Id /\ c.fn = "id" /\ settings' = settings
      BY <1>0, <1>3 DEF Rename, Formed
    <2>3. old \in Id
      BY <2>1, <2>2, Resolved
    <2>4. CASE ~Renames(c)
      BY <1>3, <2>2, <2>4 DEF Rename, ServerOK
    <2>5. CASE Renames(c)
      <3>1. /\ clients' = [x \in (DOMAIN clients \ {old}) \union {c.arg} |->
                              IF x = c.arg THEN clients[old] ELSE clients[x]]
            /\ moved' = [x \in DOMAIN moved \union {old} |->
                              IF x = old THEN c.arg ELSE moved[x]]
        BY <1>3, <2>1, <2>5 DEF Rename
      <3>2. old \in DOMAIN clients
        BY <2>1, <2>5 DEF Renames
      <3>3. /\ DOMAIN clients' \subseteq Id
            /\ \A x \in DOMAIN clients' : clients'[x] \in Client
        BY <2>2, <3>1, <3>2 DEF ServerOK
      <3>4. DOMAIN moved' \subseteq Id /\ \A x \in DOMAIN moved' : moved'[x] \in Id
        BY <2>2, <2>3, <3>1 DEF ServerOK
      <3> QED BY <2>2, <3>3, <3>4 DEF ServerOK
    <2> QED BY <2>2, <2>4, <2>5
  <1> QED BY <1>1, <1>2, <1>3

\* What the server answers.
LEMMA Answered ==
    ASSUME ServerOK, NEW c \in CallSet, Read(c) \/ Configure(c) \/ Rename(c)
    PROVE  /\ Answer(c)[1] \in BOOLEAN /\ Answer(c)[2] \in Answers
           /\ c.fn \notin {"client", "id"} => Answer(c)[1]
           /\ c.fn \in {"data", "range"} => Answer(c)[2] \in BOOLEAN
           /\ c.fn = "client" /\ Answer(c)[1] =>
                 /\ Answer(c)[2] \in Client
                 /\ c.id \in DOMAIN clients /\ Answer(c)[2] = clients[c.id]
           /\ c.fn \in {"toggle", "id", "name"} => Answer(c)[2] = c.arg
           /\ c.fn # "later"
  <1>0. Formed(c) /\ c.arg \in Args
    BY DEF CallSet
  <1>1. CASE c.fn \in {"toggle", "name"}
    <2>1. Answer(c) = <<TRUE, c.arg>>
      BY <1>1 DEF Answer
    <2> QED BY <1>0, <1>1, <2>1 DEF Answers
  <1>2. CASE c.fn = "id"
    <2>1. Answer(c) = <<Renames(c), c.arg>>
      BY <1>2 DEF Answer
    <2>2. Renames(c) \in BOOLEAN
      BY DEF Renames
    <2>3. Answer(c)[1] = Renames(c) /\ Answer(c)[2] = c.arg
      BY <2>1
    <2> QED BY <1>0, <1>2, <2>2, <2>3 DEF Answers
  <1>3. CASE c.fn \in {"data", "range"}
    <2>1. Answer(c) = <<TRUE, Known(c.id).recs>>
      BY <1>3 DEF Answer, ReadAnswer
    <2>2. c.id \in Id
      BY <1>0, <1>3 DEF Formed
    <2>3. Known(c.id).recs \in BOOLEAN
      BY <2>2, Resolved DEF Client
    <2> QED BY <1>3, <2>1, <2>3 DEF Answers
  <1>4. CASE c.fn = "client"
    <2>1. Answer(c) = <<c.id \in DOMAIN clients, Known(c.id)>>
      BY <1>4 DEF Answer, ReadAnswer
    <2>2. c.id \in Id
      BY <1>0, <1>4 DEF Formed
    <2>3. Known(c.id) \in Client
      BY <2>2, Resolved
    <2>4. (c.id \in DOMAIN clients) \in BOOLEAN
      OBVIOUS
    <2>5. Answer(c)[1] = (c.id \in DOMAIN clients) /\ Answer(c)[2] = Known(c.id)
      BY <2>1
    <2>6. Answer(c)[1] => c.id \in DOMAIN clients /\ Answer(c)[2] = clients[c.id]
      BY <2>5 DEF Known
    <2> QED BY <1>4, <2>3, <2>4, <2>5, <2>6 DEF Answers
  <1>5. CASE c.fn = "save"
    <2>1. Answer(c) = <<TRUE, settings[c.id]>>
      BY <1>5 DEF Answer, ReadAnswer
    <2>2. settings[c.id] \in Value
      BY <1>0, <1>5 DEF Formed, ServerOK
    <2> QED BY <1>5, <2>1, <2>2 DEF Answers, Args
  <1> QED BY <1>1, <1>2, <1>3, <1>4, <1>5 DEF Read, Configure, Rename

-----------------------------------------------------------------------------
\* Without haste and trouble nothing can be overtaken.
LEMMA NoOvertaking ==
    ASSUME PageInv, ~hurried, ~trouble, NEW k \in DOMAIN calls, calls[k].state # "orphan",
           NEW S
    PROVE  ~Overtakes(k, S)
  <1>1. calls \in Seq(CallSet)
    BY DEF PageInv, Typed, CallsOK
  <1>2. k \in Nat /\ \A j \in 1 .. k - 1 : j \in DOMAIN calls /\ j # k
    BY <1>1
  <1>3. \A j \in DOMAIN calls : calls[j].state # "orphan"
    BY DEF PageInv, Orphans
  <1>4. \A j \in DOMAIN calls : j = k
    BY <1>3 DEF PageInv, Alone, OneWaits
  <1> QED BY <1>2, <1>4 DEF Overtakes

\* The server takes a request.
LEMMA HandleInv ==
    ASSUME PageInv, NEW k \in DOMAIN calls, Handle(k)
    PROVE  PageInv'
  <1>1. calls \in Seq(CallSet)
    BY DEF PageInv, Typed, CallsOK
  <1>2. PICK c \in CallSet : c = calls[k]
    BY <1>1
  <1>3. /\ c.state \in {"sent", "orphan"}
        /\ Read(c) \/ Configure(c) \/ Rename(c)
        /\ calls' = IF c.state = "orphan" THEN RemoveAt(calls, k)
                    ELSE [calls EXCEPT ![k].state = "answered",
                             ![k].ok = Answer(c)[1], ![k].answer = Answer(c)[2]]
        /\ reordered' = (reordered \/ Overtakes(k, {"sent"}))
        /\ UNCHANGED <<rows, fields, busy, clicks, lost, hurried, trouble>>
        /\ UNCHANGED <<currentClientId, currentTimeRange, currentData, currentBasicMode>>
        /\ UNCHANGED <<title, metrics, charts>>
    BY <1>2 DEF Handle, page, current, shown
  <1>4. ServerOK'
    BY <1>3, Served DEF PageInv, Typed
  <1>5. PageOK'
    BY <1>3 DEF PageInv, Typed, PageOK
  <1>6. RunOK'
    <2>1. reordered' \in BOOLEAN
      BY <1>3
    <2> QED BY <1>3, <2>1 DEF PageInv, Typed, RunOK
  <1>7. CASE c.state = "orphan"
    <2>1. calls' = RemoveAt(calls, k)
      BY <1>3, <1>7
    <2>2. /\ calls' \in Seq(CallSet)
          /\ trouble \/ \A i \in DOMAIN calls' : calls'[i].state # "orphan"
          /\ currentClientId = NoId =>
                title.id = NoId /\ \A i \in DOMAIN calls' : calls'[i].fn = "save"
      BY <2>1, TakenOut
    <2>3. trouble
      BY <1>2, <1>7 DEF PageInv, Orphans
    <2>4. CallsOK' /\ Opened' /\ Orphans'
      BY <1>3, <2>2 DEF CallsOK, Opened, Orphans
    <2>5. Alone'
      <3> SUFFICES ASSUME ~hurried
                   PROVE  Alone'
        BY <1>3 DEF Alone
      <3>1. AloneIn(calls, currentClientId, metrics)
        BY DEF PageInv, Alone, AloneIn
      <3>2. AloneIn(calls', currentClientId, metrics)
        BY <1>1, <1>2, <1>7, <2>1, <3>1, OrphanGone
      <3> QED BY <1>3, <2>3, <3>2 DEF Alone, AloneIn
    <2>6. Following'
      BY <1>3, <2>3 DEF Following, Guarded
    <2> QED BY <1>4, <1>5, <1>6, <2>4, <2>5, <2>6 DEF PageInv, Typed
  <1>8. CASE c.state = "sent"
    <2>1. PICK a, b : a = Answer(c)[1] /\ b = Answer(c)[2]
      OBVIOUS
    <2>2. PICK e : e = [c EXCEPT !.state = "answered", !.ok = a, !.answer = b]
      OBVIOUS
    <2>3. /\ a \in BOOLEAN /\ b \in Answers
          /\ c.fn \notin {"client", "id"} => a
          /\ c.fn \in {"data", "range"} => b \in BOOLEAN
          /\ c.fn = "client" /\ a => b \in Client /\ c.id \in DOMAIN clients /\ b = clients[c.id]
          /\ c.fn \in {"toggle", "id", "name"} => b = c.arg
          /\ c.fn # "later"
      BY <1>3, <2>1, Answered DEF PageInv, Typed
    <2>4. /\ e \in [fn : Function, id : Id \union Setting \union {NoId}, arg : Args,
                    state : {"sent", "answered", "stalled", "lost", "orphan"}, ok : BOOLEAN,
                    answer : Answers]
          /\ e.fn = c.fn /\ e.id = c.id /\ e.arg = c.arg /\ e.state = "answered"
          /\ e.ok = a /\ e.answer = b
      BY <2>2, <2>3 DEF CallSet
    <2>5. e \in CallSet
      <3>1. Formed(c)
        BY DEF CallSet
      <3>2. Formed(e)
        BY <2>3, <2>4, <3>1 DEF Formed
      <3> QED BY <2>4, <3>2 DEF CallSet
    <2>6. calls' = [calls EXCEPT ![k] = e]
      <3>1. calls' = [calls EXCEPT ![k].state = "answered", ![k].ok = a, ![k].answer = b]
        BY <1>3, <1>8, <2>1
      <3>2. [calls EXCEPT ![k].state = "answered", ![k].ok = a, ![k].answer = b]
               = [calls EXCEPT ![k] = e]
        BY <1>1, <1>2, <2>2
      <3> QED BY <3>1, <3>2
    <2>7. calls' \in Seq(CallSet) /\ Changes(calls, k, calls') /\ calls'[k] = e
      BY <1>1, <1>2, <2>4, <2>5, <2>6, CallChanged
    <2>8. DOMAIN calls' = DOMAIN calls
          /\ \A i \in DOMAIN calls : /\ calls'[i].fn = calls[i].fn
                                     /\ i # k => calls'[i] = calls[i]
      BY <2>7 DEF Changes
    <2>9. CallsOK' /\ Opened'
      BY <1>3, <2>7, <2>8 DEF PageInv, Typed, CallsOK, Opened
    <2>10. Orphans'
      BY <1>3, <2>4, <2>7, <2>8 DEF PageInv, Orphans
    <2>11. Alone'
      <3> SUFFICES ASSUME ~hurried
                   PROVE  Alone'
        BY <1>3 DEF Alone
      <3>1. AloneIn(calls, currentClientId, metrics) /\ (reordered => trouble)
        BY DEF PageInv, Alone, AloneIn
      <3>2. calls[k].state # "orphan" /\ calls'[k].state # "orphan"
        BY <1>2, <1>8, <2>4, <2>7
      <3>3. AloneIn(calls', currentClientId, metrics)
        BY <2>7, <3>1, <3>2, StillWaits
      <3>4. reordered' => trouble
        BY <1>3, <3>1, <3>2, NoOvertaking
      <3> QED BY <1>3, <3>3, <3>4 DEF Alone, AloneIn
    <2>12. Following'
      <3> SUFFICES ASSUME Guarded'
                   PROVE  Follows'
        BY DEF Following
      <3>1. c.fn \notin {"toggle", "id"}
        BY <1>2, <2>8 DEF Guarded, Steady
      <3>2. Steady(calls)
        <4>1. \A i \in DOMAIN calls : calls[i].fn \notin {"toggle", "id", "later"}
          BY <2>8 DEF Guarded, Steady
        <4>2. \A i \in DOMAIN calls : calls[i].state # "lost"
          BY <1>2, <1>8, <2>8 DEF Guarded, Steady
        <4> QED BY <4>1, <4>2 DEF Steady
      <3>3. Follows
        BY <1>3, <3>2 DEF PageInv, Following, Guarded
      <3>4. /\ \A x \in DOMAIN clients :
                  x \in DOMAIN clients' /\ clients'[x].mode = clients[x].mode
            /\ c.fn = "client" => clients' = clients
        BY <1>3, <3>1, Served DEF PageInv, Typed
      <3>5. PICK t, ds : t = calls' /\ ds = clients'
        OBVIOUS
      <3>6. t[k].fn = "client" /\ Has(t[k]) /\ t[k].ok =>
               t[k].id \in DOMAIN ds /\ t[k].answer.mode = ds[t[k].id].mode
        BY <2>3, <2>4, <2>7, <3>4, <3>5
      <3>7. Changes(calls, k, t)
        BY <2>7, <3>5
      <3>8. /\ DataFollow(calls, currentClientId, currentData) =>
                  DataFollow(t, currentClientId, currentData)
            /\ RangeFollows(calls, currentTimeRange, currentData) =>
                  RangeFollows(t, currentTimeRange, currentData)
            /\ ClientFollows(calls, currentClientId, clients) =>
                  ClientFollows(t, currentClientId, ds)
            /\ ShownFollow(calls, currentClientId, clients, currentBasicMode, currentData,
                           title, metrics, charts) =>
               ShownFollow(t, currentClientId, ds, currentBasicMode, currentData,
                           title, metrics, charts)
        BY ZenonT(40), <3>4, <3>5, <3>6, <3>7, StateOnly
      <3> QED BY <1>3, <3>3, <3>5, <3>8 DEF Follows
    <2> QED BY <1>4, <1>5, <1>6, <2>9, <2>10, <2>11, <2>12 DEF PageInv, Typed
  <1> QED BY <1>3, <1>7, <1>8

\* What every continuation leaves alone or finds.
Continues(k) ==
    /\ calls[k].state = "answered" /\ calls[k].ok
    /\ reordered' = (reordered \/ (calls[k].fn # "later" /\ Overtakes(k, {"sent", "answered", "stalled"})))
    /\ UNCHANGED <<server, clicks, lost, hurried, trouble>>

\* The server and the rest of the calls after an answer.
LEMMA Continued ==
    ASSUME PageInv, NEW k \in DOMAIN calls, Continues(k), NEW rest, rest = RemoveAt(calls, k)
    PROVE  /\ ServerOK' /\ RunOK' /\ clients' = clients
           /\ calls[k] \in CallSet /\ Formed(calls[k]) /\ calls[k].state # "orphan"
           /\ rest \in Seq(CallSet) /\ Leaves(calls, k, rest)
           /\ trouble \/ \A i \in DOMAIN rest : rest[i].state # "orphan"
           /\ currentClientId = NoId =>
                 title.id = NoId /\ \A i \in DOMAIN rest : rest[i].fn = "save"
  <1>1. calls \in Seq(CallSet)
    BY DEF PageInv, Typed, CallsOK
  <1>2. calls[k] \in CallSet /\ Formed(calls[k]) /\ calls[k].state # "orphan"
    BY <1>1, CallFields DEF Continues
  <1>3. ServerOK' /\ clients' = clients
    BY DEF PageInv, Typed, ServerOK, Continues, server
  <1>4. RunOK'
    <2>1. reordered' \in BOOLEAN
      BY DEF Continues
    <2> QED BY <2>1 DEF PageInv, Typed, RunOK, Continues
  <1> QED BY <1>2, <1>3, <1>4, TakenOut

\* When the user waits it was the only call.
LEMMA ContinuedAlone ==
    ASSUME PageInv, NEW k \in DOMAIN calls, Continues(k), ~hurried',
           NEW rest, rest = RemoveAt(calls, k)
    PROVE  /\ AllOrphans(rest) /\ (reordered' => trouble')
           /\ calls[k].fn \notin {"data", "client", "later"} => Done(currentClientId, metrics)
           /\ calls[k].fn \in {"data", "client"} => calls[k].id = currentClientId
  <1>1. calls \in Seq(CallSet) /\ calls[k].state # "orphan" /\ ~hurried /\ trouble' = trouble
    BY DEF PageInv, Typed, CallsOK, Continues
  <1>2. AloneIn(calls, currentClientId, metrics) /\ (reordered => trouble)
    BY <1>1 DEF PageInv, Alone, AloneIn
  <1>3. AllOrphans(rest)
    BY <1>1, <1>2, OneLess DEF AloneIn
  <1>4. reordered' => trouble
    BY <1>1, <1>2, NoOvertaking DEF Continues
  <1> QED BY <1>1, <1>2, <1>3, <1>4, OnlyOther

\* When nothing is overtaken and nothing fails it was the first one.
LEMMA ContinuedFollows ==
    ASSUME PageInv, NEW k \in DOMAIN calls, Continues(k),
           calls[k].fn \notin {"toggle", "id", "later"},
           ~reordered', ~trouble', currentClientId # NoId,
           NEW rest, rest = RemoveAt(calls, k), Steady(rest)
    PROVE  /\ k = 1 /\ Leaves(calls, 1, rest)
           /\ DataFollow(calls, currentClientId, currentData)
           /\ RangeFollows(calls, currentTimeRange, currentData)
           /\ ClientFollows(calls, currentClientId, clients)
           /\ ShownFollow(calls, currentClientId, clients, currentBasicMode, currentData,
                          title, metrics, charts)
  <1>1. calls \in Seq(CallSet) /\ calls[k].state = "answered" /\ ~trouble /\ ~reordered
    BY DEF PageInv, Typed, CallsOK, Continues
  <1>2. \A j \in DOMAIN calls : calls[j].state # "orphan"
    BY <1>1 DEF PageInv, Orphans
  <1>3. ~ \E j \in 1 .. k - 1 : calls[j].state \in {"sent", "answered", "stalled"} /\ calls[j].fn # "later"
    BY DEF Continues, Overtakes
  <1>4. k = 1 /\ Steady(calls) /\ Leaves(calls, 1, rest)
    BY <1>1, <1>2, <1>3, FirstTaken
  <1>5. Follows
    BY <1>1, <1>4 DEF PageInv, Following, Guarded
  <1> QED BY <1>4, <1>5 DEF Follows

-----------------------------------------------------------------------------
\* showDetail after an answer or a timer.
LEMMA ShowAgain ==
    ASSUME PageInv, NEW k \in DOMAIN calls, Continues(k), currentClientId # NoId,
           showDetail(currentClientId, RemoveAt(calls, k)),
           currentBasicMode' \in Mode, busy' \subseteq Button
    PROVE  PageInv'
  <1>1. PICK rest : rest = RemoveAt(calls, k)
    OBVIOUS
  <1>2. PICK e : e = Call("data", currentClientId, currentTimeRange)
    OBVIOUS
  <1>3. /\ currentClientId' = currentClientId
        /\ metrics' = [id |-> currentClientId, says |-> "loading"]
        /\ currentData' = NoData /\ calls' = Append(rest, e)
        /\ UNCHANGED <<currentTimeRange, title, charts, rows, fields>>
    BY <1>1, <1>2 DEF showDetail
  <1>4. /\ e \in CallSet /\ e.fn = "data" /\ e.id = currentClientId
        /\ e.arg = currentTimeRange /\ e.state = "sent"
    <2>1. currentTimeRange \in Hours /\ currentTimeRange \in Args /\ currentClientId \in Id
      BY DEF PageInv, Typed, PageOK, Args
    <2>2. "data" \in Function
      BY DEF Function
    <2> QED BY <1>2, <2>1, <2>2, CallMade
  <1>5. /\ ServerOK' /\ RunOK' /\ rest \in Seq(CallSet)
        /\ trouble \/ \A i \in DOMAIN rest : rest[i].state # "orphan"
    BY <1>1, Continued
  <1>6. calls' \in Seq(CallSet) /\ Adds(rest, e, calls')
    BY <1>3, <1>4, <1>5, CallsGrow
  <1>7. PageOK'
    BY <1>3 DEF PageInv, Typed, PageOK
  <1>8. CallsOK' /\ Opened'
    BY <1>3, <1>6 DEF CallsOK, Opened
  <1>9. Orphans'
    <2>1. \A i \in DOMAIN calls' : (i \in DOMAIN rest /\ calls'[i] = rest[i]) \/ calls'[i] = e
      BY <1>5, <1>6 DEF Adds
    <2> QED BY <1>4, <1>5, <2>1 DEF Orphans, Continues
  <1>10. Alone'
    <2> SUFFICES ASSUME ~hurried'
                 PROVE  Alone'
      BY DEF Alone
    <2>1. AllOrphans(rest) /\ (reordered' => trouble')
      BY <1>1, ContinuedAlone
    <2>2. AloneIn(calls', currentClientId, metrics')
      BY <1>4, <1>5, <1>6, <2>1, OneMore
    <2> QED BY <1>3, <2>1, <2>2 DEF Alone, AloneIn
  <1>11. Following'
    <2>1. currentClientId' = e.id /\ currentTimeRange' = e.arg
      BY <1>3, <1>4
    <2>2. Follows'
      BY <1>4, <1>5, <1>6, <2>1, Asked DEF Follows
    <2> QED BY <2>2 DEF Following
  <1> QED BY <1>5, <1>7, <1>8, <1>9, <1>10, <1>11 DEF PageInv, Typed

\* The mode has been switched.
LEMMA ToggledInv ==
    ASSUME PageInv, NEW k \in DOMAIN calls, Continues(k), Toggled(calls[k], RemoveAt(calls, k))
    PROVE  PageInv'
  <1>1. calls[k].fn = "toggle" /\ Formed(calls[k])
    BY Continued DEF Toggled
  <1>2. calls[k].answer \in Mode
    BY <1>1 DEF Continues, Formed, Has
  <1>3. currentClientId # NoId
    BY <1>1 DEF PageInv, Typed, Opened
  <1>4. currentBasicMode' \in Mode /\ busy' \subseteq Button
    BY <1>2 DEF Toggled, PageInv, Typed, PageOK
  <1> QED BY <1>3, <1>4, ShowAgain DEF Toggled

\* The timer after a rename.
LEMMA LaterInv ==
    ASSUME PageInv, NEW k \in DOMAIN calls, Continues(k), Later(calls[k], RemoveAt(calls, k))
    PROVE  PageInv'
  <1>1. calls[k].fn = "later"
    BY DEF Later
  <1>3. currentClientId # NoId
    BY <1>1 DEF PageInv, Typed, Opened
  <1>4. currentBasicMode' \in Mode /\ busy' \subseteq Button
    BY DEF Later, PageInv, Typed, PageOK
  <1> QED BY <1>3, <1>4, ShowAgain DEF Later

\* The client has been renamed.
LEMMA RenamedInv ==
    ASSUME PageInv, NEW k \in DOMAIN calls, Continues(k), Renamed(calls[k], RemoveAt(calls, k))
    PROVE  PageInv'
  <1>1. PICK rest : rest = RemoveAt(calls, k)
    OBVIOUS
  <1>2. /\ calls[k].fn = "id" /\ currentClientId' = calls[k].answer /\ busy' = busy \ {"id"}
        /\ calls' = Append(rest, Timer)
        /\ UNCHANGED <<currentTimeRange, currentData, currentBasicMode, rows, title,
                       metrics, charts, fields>>
    BY <1>1 DEF Renamed, Timer, shown
  <1>3. /\ ServerOK' /\ RunOK' /\ rest \in Seq(CallSet) /\ Formed(calls[k])
        /\ trouble \/ \A i \in DOMAIN rest : rest[i].state # "orphan"
    BY <1>1, Continued
  <1>4. currentClientId' \in Id
    BY <1>2, <1>3 DEF Continues, Formed, Has
  <1>5. PICK e : e = Timer
    OBVIOUS
  <1>6. e \in CallSet /\ e.fn = "later" /\ e.state = "answered"
    BY <1>5, TimerMade
  <1>7. calls' \in Seq(CallSet) /\ Adds(rest, e, calls')
    BY <1>2, <1>3, <1>5, <1>6, CallsGrow
  <1>8. PageOK'
    BY <1>2, <1>4 DEF PageInv, Typed, PageOK
  <1>9. CallsOK' /\ Opened'
    BY <1>4, <1>7, PageAssumption DEF CallsOK, Opened
  <1>10. \A i \in DOMAIN calls' : (i \in DOMAIN rest /\ calls'[i] = rest[i]) \/ calls'[i] = e
    BY <1>3, <1>7 DEF Adds
  <1>11. Orphans'
    BY <1>3, <1>6, <1>10 DEF Orphans, Continues
  <1>12. Alone'
    <2> SUFFICES ASSUME ~hurried'
                 PROVE  Alone'
      BY DEF Alone
    <2>1. AllOrphans(rest) /\ (reordered' => trouble')
      BY <1>1, ContinuedAlone
    <2>2. PICK id : id = currentClientId'
      OBVIOUS
    <2>3. AloneIn(calls', id, metrics')
      BY <1>3, <1>6, <1>7, <2>1, OneMore
    <2> QED BY <2>1, <2>2, <2>3 DEF Alone, AloneIn
  <1>13. Following'
    <2>1. Len(rest) + 1 \in DOMAIN calls' /\ calls'[Len(rest) + 1] = e
      BY <1>3, <1>7 DEF Adds
    <2>2. ~Steady(calls')
      BY <1>6, <2>1 DEF Steady
    <2> QED BY <2>2 DEF Following, Guarded
  <1> QED BY <1>3, <1>8, <1>9, <1>11, <1>12, <1>13 DEF PageInv, Typed

\* An answer after which only the calls left are waited for.
LEMMA Finished ==
    ASSUME PageInv, NEW k \in DOMAIN calls, Continues(k), calls' = RemoveAt(calls, k),
           PageOK', title'.id # title.id => currentClientId # NoId,
           currentClientId' = currentClientId,
           calls[k].fn # "later",
           \/ metrics' = metrics /\ calls[k].fn \notin {"data", "client"}
           \/ /\ metrics'.id = calls[k].id /\ metrics'.says # "loading"
              /\ calls[k].fn \in {"data", "client"},
           Guarded' => Follows'
    PROVE  PageInv'
  <1>1. PICK rest : rest = RemoveAt(calls, k)
    OBVIOUS
  <1>2. /\ ServerOK' /\ RunOK' /\ rest \in Seq(CallSet)
        /\ trouble \/ \A i \in DOMAIN rest : rest[i].state # "orphan"
        /\ currentClientId = NoId =>
              title.id = NoId /\ \A i \in DOMAIN rest : rest[i].fn = "save"
    BY <1>1, Continued
  <1>3. CallsOK' /\ Opened' /\ Orphans'
    BY <1>1, <1>2 DEF CallsOK, Opened, Orphans, Continues
  <1>4. Alone'
    <2> SUFFICES ASSUME ~hurried'
                 PROVE  Alone'
      BY DEF Alone
    <2>1. /\ AllOrphans(rest) /\ (reordered' => trouble')
          /\ calls[k].fn \notin {"data", "client", "later"} => Done(currentClientId, metrics)
          /\ calls[k].fn \in {"data", "client"} => calls[k].id = currentClientId
      BY <1>1, ContinuedAlone
    <2>2. Done(currentClientId, metrics')
      <3>1. CASE metrics' = metrics /\ calls[k].fn \notin {"data", "client"}
        BY <2>1, <3>1
      <3>2. CASE /\ metrics'.id = calls[k].id /\ metrics'.says # "loading"
                 /\ calls[k].fn \in {"data", "client"}
        BY <2>1, <3>2 DEF Done
      <3> QED BY <3>1, <3>2
    <2>3. AloneIn(rest, currentClientId, metrics')
      BY <2>1, <2>2, NoneWaits
    <2> QED BY <1>1, <2>1, <2>3 DEF Alone, AloneIn
  <1>5. Following'
    BY DEF Following
  <1> QED BY <1>2, <1>3, <1>4, <1>5 DEF PageInv, Typed

\* The data of the client come.
LEMMA DetailDataInv ==
    ASSUME PageInv, NEW k \in DOMAIN calls, Continues(k), DetailData(calls[k], RemoveAt(calls, k))
    PROVE  PageInv'
  <1>1. PICK rest : rest = RemoveAt(calls, k)
    OBVIOUS
  <1>2. PICK c, e : c = calls[k] /\ e = Call("client", c.id, NoId)
    OBVIOUS
  <1>3. /\ c.fn = "data" /\ currentData' = [id |-> c.id, range |-> c.arg, some |-> c.answer]
        /\ calls' = Append(rest, e)
        /\ UNCHANGED <<currentClientId, currentTimeRange, currentBasicMode, rows, title,
                       metrics, charts, fields, busy>>
    BY <1>1, <1>2 DEF DetailData, shown
  <1>4. /\ ServerOK' /\ RunOK' /\ clients' = clients
        /\ c \in CallSet /\ Formed(c) /\ rest \in Seq(CallSet)
        /\ trouble \/ \A i \in DOMAIN rest : rest[i].state # "orphan"
    BY <1>1, <1>2, Continued
  <1>5. c.id \in Id /\ c.arg \in Hours /\ c.answer \in BOOLEAN
    BY <1>2, <1>3, <1>4 DEF Formed, Has, Continues
  <1>6. e \in CallSet /\ e.fn = "client" /\ e.id = c.id /\ e.state = "sent"
    <2>1. "client" \in Function /\ NoId \in Args
      BY DEF Function, Args
    <2> QED BY <1>2, <1>5, <2>1, CallMade
  <1>7. calls' \in Seq(CallSet) /\ Adds(rest, e, calls')
    BY <1>3, <1>4, <1>6, CallsGrow
  <1>8. PageOK'
    BY <1>3, <1>5 DEF PageInv, Typed, PageOK
  <1>9. currentClientId # NoId
    BY <1>2, <1>3 DEF PageInv, Typed, Opened
  <1>10. CallsOK' /\ Opened'
    BY <1>3, <1>7, <1>9 DEF CallsOK, Opened
  <1>11. \A i \in DOMAIN calls' : (i \in DOMAIN rest /\ calls'[i] = rest[i]) \/ calls'[i] = e
    BY <1>4, <1>7 DEF Adds
  <1>12. Orphans'
    BY <1>4, <1>6, <1>11 DEF Orphans, Continues
  <1>13. Alone'
    <2> SUFFICES ASSUME ~hurried'
                 PROVE  Alone'
      BY DEF Alone
    <2>1. AllOrphans(rest) /\ (reordered' => trouble') /\ e.id = currentClientId
      BY <1>1, <1>2, <1>3, <1>6, ContinuedAlone
    <2>2. AloneIn(calls', currentClientId, metrics)
      BY <1>4, <1>6, <1>7, <2>1, OneMore
    <2> QED BY <1>3, <2>1, <2>2 DEF Alone, AloneIn
  <1>14. Following'
    <2> SUFFICES ASSUME Guarded'
                 PROVE  Follows'
      BY DEF Following
    <2>1. Steady(rest)
      <3>1. \A i \in DOMAIN rest : i \in DOMAIN calls' /\ calls'[i] = rest[i]
        BY <1>7 DEF Adds
      <3> QED BY <3>1 DEF Guarded, Steady
    <2>2. ~reordered' /\ ~trouble' /\ calls[k].fn \notin {"toggle", "id", "later"}
      BY <1>2, <1>3 DEF Guarded
    <2>3. /\ k = 1 /\ Leaves(calls, 1, rest)
          /\ DataFollow(calls, currentClientId, currentData)
          /\ RangeFollows(calls, currentTimeRange, currentData)
      BY <1>1, <1>9, <2>1, <2>2, ContinuedFollows
    <2>4. PICK data, m, ti, ch : data = currentData' /\ m = metrics' /\ ti = title' /\ ch = charts'
      OBVIOUS
    <2>5. data.id = c.id /\ data.range = c.arg /\ c = calls[1] /\ 1 \in DOMAIN calls
          /\ calls \in Seq(CallSet)
      BY <1>2, <1>3, <2>3, <2>4 DEF PageInv, Typed, CallsOK
    <2>6. /\ DataFollow(rest, currentClientId, data)
          /\ RangeFollows(rest, currentTimeRange, data)
          /\ Without(rest, {"data"}) => c.id = currentClientId
      BY <1>3, <1>4, <2>3, <2>5, FirstData
    <2>7. /\ DataFollow(calls', currentClientId, data)
          /\ RangeFollows(calls', currentTimeRange, data)
          /\ ClientFollows(calls', currentClientId, clients)
          /\ ShownFollow(calls', currentClientId, clients, currentBasicMode, data, ti, m, ch)
      <3>1. Without(rest, {"data"}) => e.id = currentClientId
        BY <1>6, <2>6
      <3>2. e.fn = "client" /\ ~Has(e)
        BY <1>6 DEF Has
      <3> QED BY <1>4, <1>7, <2>6, <3>1, <3>2, ClientAsked
    <2> QED BY <1>3, <1>4, <2>4, <2>7 DEF Follows
  <1> QED BY <1>4, <1>8, <1>10, <1>12, <1>13, <1>14 DEF PageInv, Typed

\* What is drawn belongs to the client whose data they are.
LEMMA Drawn ==
    ASSUME NEW data \in [id : Id, range : Hours, some : BOOLEAN] \union {NoData},
           charts \in [id : Id \union {NoId}, range : Hours \union {NoId}]
    PROVE  /\ drawAllCharts(data) \in [id : Id \union {NoId}, range : Hours \union {NoId}]
           /\ data.some => drawAllCharts(data).id \in {NoId, data.id}
  BY DEF drawAllCharts, NoData

\* The client itself comes.
LEMMA DetailClientInv ==
    ASSUME PageInv, NEW k \in DOMAIN calls, Continues(k), DetailClient(calls[k], RemoveAt(calls, k))
    PROVE  PageInv'
  <1>1. PICK rest : rest = RemoveAt(calls, k)
    OBVIOUS
  <1>2. PICK c : c = calls[k]
    OBVIOUS
  <1>3. /\ c.fn = "client" /\ currentBasicMode' = c.answer.mode
        /\ title' = [id |-> c.id, name |-> c.answer.name]
        /\ metrics' = [id |-> c.id, says |-> IF currentData = NoData THEN "failed"
                                             ELSE IF currentData.some THEN "values" ELSE "none"]
        /\ charts' = drawAllCharts(currentData) /\ calls' = rest
        /\ UNCHANGED <<currentClientId, currentTimeRange, currentData, rows, fields, busy>>
    BY <1>1, <1>2 DEF DetailClient
  <1>4. /\ clients' = clients /\ c \in CallSet /\ Formed(c) /\ rest \in Seq(CallSet)
        /\ c.state = "answered" /\ c.ok
    BY <1>1, <1>2, Continued DEF Continues
  <1>5. c.id \in Id /\ c.answer \in Client
    BY <1>3, <1>4 DEF Formed, Has
  <1>6. /\ currentData \in [id : Id, range : Hours, some : BOOLEAN] \union {NoData}
        /\ charts \in [id : Id \union {NoId}, range : Hours \union {NoId}]
    BY DEF PageInv, Typed, PageOK
  <1>7. /\ charts' \in [id : Id \union {NoId}, range : Hours \union {NoId}]
        /\ currentData.some => charts'.id \in {NoId, currentData.id}
    BY <1>3, <1>6, Drawn
  <1>8. /\ metrics' \in [id : Id \union {NoId}, says : {"loading", "failed", "none", "values"}]
        /\ metrics'.id = c.id /\ metrics'.says # "loading" /\ title'.id = c.id
        /\ currentData # NoData => metrics'.says \notin {"loading", "failed"}
    BY <1>3, <1>5
  <1>9. PageOK'
    <2>1. title' \in [id : Id \union {NoId}, name : Name \union {NoName}]
          /\ currentBasicMode' \in Mode
      BY <1>3, <1>5 DEF Client
    <2> QED BY <1>3, <1>7, <1>8, <2>1 DEF PageInv, Typed, PageOK
  <1>10. currentClientId # NoId
    BY <1>2, <1>3 DEF PageInv, Typed, Opened
  <1>11. ASSUME Guarded'
         PROVE  Follows'
    <2>1. Steady(rest) /\ ~reordered' /\ ~trouble'
          /\ calls[k].fn \notin {"toggle", "id", "later"}
      BY <1>2, <1>3, <1>11 DEF Guarded
    <2>2. /\ k = 1 /\ Leaves(calls, 1, rest)
          /\ DataFollow(calls, currentClientId, currentData)
          /\ RangeFollows(calls, currentTimeRange, currentData)
          /\ ClientFollows(calls, currentClientId, clients)
      BY <1>1, <1>10, <2>1, ContinuedFollows
    <2>3. PICK m, ti, ch : m = metrics' /\ ti = title' /\ ch = charts'
      OBVIOUS
    <2>4. c = calls[1] /\ 1 \in DOMAIN calls /\ calls \in Seq(CallSet)
      BY <1>2, <2>2 DEF PageInv, Typed, CallsOK
    <2>5. /\ DataFollow(rest, currentClientId, currentData)
          /\ RangeFollows(rest, currentTimeRange, currentData)
          /\ ClientFollows(rest, currentClientId, clients)
          /\ ShownFollow(rest, currentClientId, clients, calls[1].answer.mode, currentData,
                         ti, m, ch)
      <3>1. /\ calls[1].fn = "client" /\ Has(calls[1]) /\ calls[1].ok
            /\ ti.id = calls[1].id /\ m.id = calls[1].id
            /\ currentData # NoData => m.says \notin {"loading", "failed"}
            /\ currentData.some => ch.id \in {NoId, currentData.id}
        BY <1>3, <1>4, <1>7, <1>8, <2>3, <2>4 DEF Has
      <3> QED BY ZenonT(40), <1>4, <1>10, <2>2, <2>4, <3>1, FirstClient
    <2> QED BY <1>3, <1>4, <2>3, <2>4, <2>5 DEF Follows
  <1> QED BY <1>1, <1>2, <1>3, <1>8, <1>9, <1>10, <1>11, Finished

\* The data of another range come.
LEMMA RangeDataInv ==
    ASSUME PageInv, NEW k \in DOMAIN calls, Continues(k), RangeData(calls[k], RemoveAt(calls, k))
    PROVE  PageInv'
  <1>1. PICK rest : rest = RemoveAt(calls, k)
    OBVIOUS
  <1>2. PICK c : c = calls[k]
    OBVIOUS
  <1>3. /\ c.fn = "range" /\ currentData' = [id |-> c.id, range |-> c.arg, some |-> c.answer]
        /\ charts' = drawAllCharts(currentData') /\ calls' = rest
        /\ UNCHANGED <<currentClientId, currentTimeRange, currentBasicMode, rows, title,
                       metrics, fields, busy>>
    BY <1>1, <1>2 DEF RangeData
  <1>4. /\ clients' = clients /\ c \in CallSet /\ Formed(c) /\ rest \in Seq(CallSet)
    BY <1>1, <1>2, Continued
  <1>5. c.id \in Id /\ c.arg \in Hours /\ c.answer \in BOOLEAN
    BY <1>2, <1>3, <1>4 DEF Formed, Has, Continues
  <1>6. PICK data : data = currentData'
    OBVIOUS
  <1>7. /\ data \in [id : Id, range : Hours, some : BOOLEAN]
        /\ data.id = c.id /\ data.range = c.arg
        /\ charts \in [id : Id \union {NoId}, range : Hours \union {NoId}]
    BY <1>3, <1>5, <1>6 DEF PageInv, Typed, PageOK
  <1>8. /\ charts' \in [id : Id \union {NoId}, range : Hours \union {NoId}]
        /\ data.some => charts'.id \in {NoId, c.id}
    <2>1. charts' = drawAllCharts(data)
      BY <1>3, <1>6
    <2> QED BY <1>7, <2>1, Drawn
  <1>9. PageOK'
    BY <1>3, <1>6, <1>7, <1>8 DEF PageInv, Typed, PageOK
  <1>10. currentClientId # NoId
    BY <1>2, <1>3 DEF PageInv, Typed, Opened
  <1>11. ASSUME Guarded'
         PROVE  Follows'
    <2>1. Steady(rest) /\ ~reordered' /\ ~trouble'
          /\ calls[k].fn \notin {"toggle", "id", "later"}
      BY <1>2, <1>3, <1>11 DEF Guarded
    <2>2. /\ k = 1 /\ Leaves(calls, 1, rest)
          /\ DataFollow(calls, currentClientId, currentData)
          /\ RangeFollows(calls, currentTimeRange, currentData)
          /\ ClientFollows(calls, currentClientId, clients)
          /\ ShownFollow(calls, currentClientId, clients, currentBasicMode, currentData,
                         title, metrics, charts)
      BY <1>1, <1>10, <2>1, ContinuedFollows
    <2>3. PICK ch : ch = charts'
      OBVIOUS
    <2>4. c = calls[1] /\ 1 \in DOMAIN calls /\ calls \in Seq(CallSet)
      BY <1>2, <2>2 DEF PageInv, Typed, CallsOK
    <2>5. /\ DataFollow(rest, currentClientId, data)
          /\ RangeFollows(rest, currentTimeRange, data)
          /\ Without(rest, {"data"}) => c.id = currentClientId
      BY SMTT(30), <1>3, <1>4, <1>7, <2>2, <2>4, FirstData
    <2>6. /\ ClientFollows(rest, currentClientId, clients)
          /\ ShownFollow(rest, currentClientId, clients, currentBasicMode, data,
                         title, metrics, ch)
      <3>1. calls[1].fn = "range" /\ (data.some => ch.id \in {NoId, calls[1].id})
            /\ (Without(rest, {"data"}) => calls[1].id = currentClientId)
        BY <1>3, <1>8, <2>3, <2>4, <2>5
      <3> QED BY <1>4, <2>2, <2>4, <3>1, FirstRange
    <2> QED BY <1>3, <1>4, <1>6, <2>3, <2>5, <2>6 DEF Follows
  <1> QED BY <1>1, <1>2, <1>3, <1>9, <1>10, <1>11, Finished

\* The answers that leave the client and its numbers alone.
LEMMA AsideInv ==
    ASSUME PageInv, NEW k \in DOMAIN calls, Continues(k),
           calls[k].fn \in {"name", "save"}, calls' = RemoveAt(calls, k),
           UNCHANGED <<currentClientId, currentTimeRange, currentData, currentBasicMode,
                       metrics, charts>>,
           title'.id = title.id, PageOK'
    PROVE  PageInv'
  <1>1. PICK rest : rest = RemoveAt(calls, k)
    OBVIOUS
  <1>2. clients' = clients /\ rest \in Seq(CallSet)
    BY <1>1, Continued
  <1>3. ASSUME Guarded'
        PROVE  Follows'
    <2>1. Steady(rest) /\ ~reordered' /\ ~trouble' /\ currentClientId # NoId
          /\ calls[k].fn \notin {"toggle", "id", "later"}
      BY <1>1, <1>3 DEF Guarded
    <2>2. /\ k = 1 /\ Leaves(calls, 1, rest)
          /\ DataFollow(calls, currentClientId, currentData)
          /\ RangeFollows(calls, currentTimeRange, currentData)
          /\ ClientFollows(calls, currentClientId, clients)
          /\ ShownFollow(calls, currentClientId, clients, currentBasicMode, currentData,
                         title, metrics, charts)
      BY <1>1, <2>1, ContinuedFollows
    <2>3. PICK ti : ti = title'
      OBVIOUS
    <2>4. calls[1].fn \notin {"data", "range", "client"} /\ 1 \in DOMAIN calls
          /\ calls \in Seq(CallSet) /\ ti.id = title.id
      BY <2>2, <2>3 DEF PageInv, Typed, CallsOK
    <2>5. /\ DataFollow(rest, currentClientId, currentData)
          /\ RangeFollows(rest, currentTimeRange, currentData)
          /\ ClientFollows(rest, currentClientId, clients)
          /\ ShownFollow(rest, currentClientId, clients, currentBasicMode, currentData,
                         ti, metrics, charts)
      BY <1>2, <2>2, <2>4, FirstBeside
    <2> QED BY <1>1, <1>2, <2>3, <2>5 DEF Follows
  <1> QED BY <1>3, Finished

\* The name has been saved.
LEMMA NameSavedInv ==
    ASSUME PageInv, NEW k \in DOMAIN calls, Continues(k), NameSaved(calls[k], RemoveAt(calls, k))
    PROVE  PageInv'
  <1>1. /\ calls[k].fn = "name" /\ calls' = RemoveAt(calls, k)
        /\ title' \in {title, [title EXCEPT !.name = calls[k].answer]}
        /\ UNCHANGED <<currentClientId, currentTimeRange, currentData, currentBasicMode,
                       rows, metrics, charts, fields, busy>>
    BY DEF NameSaved, current
  <1>2. Formed(calls[k])
    BY Continued
  <1>3. calls[k].answer \in Name
    BY <1>1, <1>2 DEF Continues, Formed, Has
  <1>4. /\ title' \in [id : Id \union {NoId}, name : Name \union {NoName}]
        /\ title'.id = title.id
    BY <1>1, <1>3 DEF PageInv, Typed, PageOK
  <1>5. PageOK'
    BY <1>1, <1>4 DEF PageInv, Typed, PageOK
  <1> QED BY <1>1, <1>4, <1>5, AsideInv

\* A setting has been read.
LEMMA SettingReadInv ==
    ASSUME PageInv, NEW k \in DOMAIN calls, Continues(k), SettingRead(calls[k], RemoveAt(calls, k))
    PROVE  PageInv'
  <1>1. /\ calls[k].fn = "save" /\ calls' = RemoveAt(calls, k)
        /\ busy' = busy \ {calls[k].id}
        /\ UNCHANGED <<currentClientId, currentTimeRange, currentData, currentBasicMode,
                       rows, title, metrics, charts, fields>>
    BY DEF SettingRead, current, shown
  <1>2. PageOK'
    BY <1>1 DEF PageInv, Typed, PageOK
  <1> QED BY <1>1, <1>2, AsideInv

\* An answer comes, and its function goes on.
LEMMA ReceiveInv ==
    ASSUME PageInv, NEW k \in DOMAIN calls, Receive(k)
    PROVE  PageInv'
  <1>1. Continues(k)
    BY DEF Receive, Continues
  <1>2. PICK rest : rest = RemoveAt(calls, k)
    OBVIOUS
  <1>3. \/ DetailData(calls[k], rest) \/ DetailClient(calls[k], rest)
        \/ RangeData(calls[k], rest) \/ Toggled(calls[k], rest) \/ Renamed(calls[k], rest)
        \/ Later(calls[k], rest) \/ NameSaved(calls[k], rest) \/ SettingRead(calls[k], rest)
    BY <1>2 DEF Receive
  <1> QED BY <1>1, <1>2, <1>3, DetailDataInv, DetailClientInv, RangeDataInv, ToggledInv,
             RenamedInv, LaterInv, NameSavedInv, SettingReadInv

-----------------------------------------------------------------------------
\* The invariant holds at first.
LEMMA InitInv == Init => PageInv
  <1> SUFFICES ASSUME Init
               PROVE  PageInv
    OBVIOUS
  <1>1. calls = <<>> /\ DOMAIN calls = {} /\ currentClientId = NoId /\ ~reordered
    BY DEF Init
  <1>2. Alone
    BY <1>1 DEF Alone, OneWaits, LoadsCurrent, WillShow
  <1>3. Following
    BY <1>1 DEF Following, Guarded
  <1>4. Orphans
    BY <1>1 DEF Orphans
  <1> QED BY <1>2, <1>3, <1>4, InitTyped DEF PageInv

\* A click keeps it.
LEMMA UserInv ==
    ASSUME PageInv, User
    PROVE  PageInv'
  BY RowInv, SetTimeRangeInv, ToggleInv, SaveClientIdInv, SaveNameInv, SaveSettingInv DEF User

\* Every step keeps it.
LEMMA NextInv == PageInv /\ [Next]_vars => PageInv'
  <1> SUFFICES ASSUME PageInv, [Next]_vars
               PROVE  PageInv'
    OBVIOUS
  <1>1. ASSUME NEW k \in DOMAIN calls,
               \/ Handle(k) \/ Lose(k) \/ Stall(k) \/ BodyComes(k)
               \/ Receive(k) \/ Refused(k) \/ BodyFails(k) \/ GiveUp(k)
        PROVE  PageInv'
    BY <1>1, HandleInv, LoseInv, StallInv, ReceiveInv, RefusedInv, BodyFailsInv, GiveUpInv
  <1>2. CASE User
    BY <1>2, UserInv
  <1>3. CASE fetchClients
    BY <1>3, FetchInv
  <1>4. ASSUME NEW s \in Setting, NEW v \in Value, PostSetting(s, v)
        PROVE  PageInv'
    BY <1>4, PostInv
  <1>5. CASE UNCHANGED vars
    <2>1. UNCHANGED <<clients, moved, settings, rows, fields, busy>>
          /\ UNCHANGED <<currentClientId, currentTimeRange, currentData, currentBasicMode>>
          /\ UNCHANGED <<title, metrics, charts, calls, clicks, lost>>
          /\ UNCHANGED <<hurried, reordered, trouble>>
      BY <1>5 DEF vars, server, page, current, shown, ghosts
    <2>2. Typed'
      BY <2>1 DEF PageInv, Typed, ServerOK, PageOK, RunOK, CallsOK, Opened
    <2>3. Orphans' /\ Alone' /\ Following'
      BY <2>1 DEF PageInv, Orphans, Alone, Following, Guarded, Follows
    <2> QED BY <2>2, <2>3 DEF PageInv
  <1> QED BY <1>1, <1>2, <1>3, <1>4, <1>5 DEF Next

\* It implies that a page at rest shows one client: with trouble because the
\* user has waited, without because no call is left and none was overtaken.
LEMMA InvOneClient == PageInv => OneClient
  <1> SUFFICES ASSUME PageInv, ~Pending, currentClientId # NoId,
                      ~(hurried /\ (reordered \/ trouble))
               PROVE  OneClient
    BY DEF OneClient
  <1>1. \A k \in DOMAIN calls : calls[k].state = "orphan"
    BY DEF Pending
  <1>2. CASE trouble
    <2>1. WillShow(calls, currentClientId, metrics)
      BY <1>2 DEF PageInv, Alone
    <2>2. metrics.id = currentClientId /\ metrics.says # "loading"
      BY <1>1, <2>1 DEF WillShow, Loads
    <2> QED BY <1>2, <2>2 DEF OneClient
  <1>3. CASE ~trouble
    <2>1. DOMAIN calls = {}
      BY <1>1, <1>3 DEF PageInv, Orphans
    <2>2. ~reordered
      BY <1>3 DEF PageInv, Alone
    <2>3. Guarded
      BY <1>3, <2>1, <2>2 DEF Guarded, Steady
    <2>4. Follows
      BY <2>3 DEF PageInv, Following
    <2>5. Without(calls, {"data"}) /\ Without(calls, {"data", "range"})
          /\ Without(calls, {"data", "client"})
      BY <2>1 DEF Without
    <2>6. currentData.id = currentClientId /\ currentData.range = currentTimeRange
      BY <2>4, <2>5 DEF Follows, DataFollow, RangeFollows
    <2>7. ShowsCurrent(currentClientId, clients, currentBasicMode, currentData,
                       title, metrics, charts)
      BY <2>4, <2>5 DEF Follows, ShownFollow
    <2> QED BY <2>6, <2>7 DEF OneClient, ShowsCurrent
  <1> QED BY <1>2, <1>3

\* It implies the types.
LEMMA InvType == PageInv => TypeOK
  BY TypedParts DEF PageInv, Typed

\* It holds in every state.
LEMMA InvHolds == Spec => []PageInv
  BY InitInv, NextInv, PTL DEF Spec

\* The variables of the page and of the server keep their types, whatever the
\* order of clicks, answers, timeouts and continuations.
THEOREM WebPageTypeOK == Spec => []TypeOK
  BY InvHolds, InvType, PTL

\* A page that has come to rest shows one client, the one every button acts on,
\* unless the user has clicked on while answers overtook one another or failed:
\* showDetail, setTimeRange, toggleBasicMode and saveClientId of web_ui.h.
THEOREM WebPageOneClient == Spec => []OneClient
  BY InvHolds, InvOneClient, PTL
=============================================================================
