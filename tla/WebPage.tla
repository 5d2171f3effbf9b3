------------------------------- MODULE WebPage -------------------------------
(***************************************************************************)
(* The page the server serves, apps/server/main/web_ui.h: its global       *)
(* variables, what it shows of one client, and the asynchronous functions  *)
(* behind its rows and buttons, with the routes and handlers of            *)
(* http_server.c they call.                                                *)
(*                                                                         *)
(* The browser runs one continuation at a time; between two awaits of a    *)
(* function anything may happen: other answers, other clicks.  A call is   *)
(* the part of a function that waits for an answer.  The server handles    *)
(* one request at a time, but requests come over several connections, so   *)
(* they may overtake each other, and fetchJSON gives a call up after eight *)
(* seconds without the headers of an answer, whatever has become of the    *)
(* request; for the body it waits for ever.  Records, charts and texts are *)
(* reduced to the client and the range they belong to.                     *)
(***************************************************************************)
EXTENDS Naturals, Sequences, SequencesExt

CONSTANTS
    Id,          \* client ids
    Registered,  \* the ids of the clients there are at first
    Recorded,    \* those with records in every range
    Name, NoId, NoName,
    Hours,       \* the ranges of the charts
    Long,        \* those of twelve hours and more
    Basic, Full, \* the sensor modes
    Value,       \* values of a setting
    Setting,     \* {"timezone", "sync-interval"}, or one of them
    MaxClicks,   \* bound: clicks of the user and settings made elsewhere
    MaxLost      \* bound: requests lost, stalled or given up

ASSUME PageAssumption ==
    /\ Recorded \subseteq Registered /\ Registered \subseteq Id /\ NoId \notin Id /\ NoName \notin Name
    /\ Long \subseteq Hours /\ Basic # Full /\ MaxClicks \in Nat /\ MaxLost \in Nat
    /\ Setting \subseteq {"timezone", "sync-interval"} /\ Value # {}

Mode == {Basic, Full}
Other(mode) == CHOOSE m \in Mode : m # mode
Client == [name : Name \union {NoName}, mode : Mode, recs : BOOLEAN]
NewClient == [name |-> NoName, mode |-> Basic, recs |-> FALSE]
NoData == [id |-> NoId, range |-> NoId, some |-> FALSE]

VARIABLES
    clients, moved,    \* the server: its clients and its pending renames
    settings,          \* the server's settings
    currentClientId, currentTimeRange, currentData, currentBasicMode,
    rows,              \* the ids in the table of clients
    title, metrics,    \* what the page says of a client
    charts,            \* whose records the charts show, of which range
    fields,            \* the values in the fields of the settings
    busy,              \* disabled buttons
    calls,             \* calls that have not been continued, oldest first
    clicks, lost,
    hurried,           \* the user has clicked before the page was done
    reordered,         \* a request or an answer has overtaken another
    trouble            \* a call has failed

server == <<clients, moved, settings>>
current == <<currentClientId, currentTimeRange, currentData, currentBasicMode>>
shown == <<title, metrics, charts>>
page == <<current, rows, shown, fields, busy>>
ghosts == <<hurried, reordered, trouble>>
vars == <<server, page, calls, clicks, lost, ghosts>>

Function == {"data", "client", "range", "toggle", "id", "name", "later", "save"}
Button == {"toggle", "id"} \union Setting

TypeOK ==
    /\ DOMAIN clients \subseteq Id /\ \A id \in DOMAIN clients : clients[id] \in Client
    /\ DOMAIN moved \subseteq Id /\ \A id \in DOMAIN moved : moved[id] \in Id
    /\ settings \in [Setting -> Value] /\ fields \in [Setting -> Value]
    /\ currentClientId \in Id \union {NoId} /\ currentTimeRange \in Hours
    /\ currentData \in [id : Id, range : Hours, some : BOOLEAN] \union {NoData}
    /\ currentBasicMode \in Mode
    /\ rows \subseteq Id
    /\ title \in [id : Id \union {NoId}, name : Name \union {NoName}]
    /\ metrics \in [id : Id \union {NoId}, says : {"loading", "failed", "none", "values"}]
    /\ charts \in [id : Id \union {NoId}, range : Hours \union {NoId}]
    /\ busy \subseteq Button
    /\ \A k \in DOMAIN calls : /\ calls[k].fn \in Function
                               /\ calls[k].id \in Id \union Setting \union {NoId}
                               /\ calls[k].state \in {"sent", "answered", "stalled", "lost", "orphan"}
    /\ clicks \in 0 .. MaxClicks /\ lost \in 0 .. MaxLost
    /\ hurried \in BOOLEAN /\ reordered \in BOOLEAN /\ trouble \in BOOLEAN

Call(fn, id, arg) == [fn |-> fn, id |-> id, arg |-> arg, state |-> "sent",
                      ok |-> TRUE, answer |-> NoId]

\* loadTimezone and loadSyncInterval.
loadSettings == fields = settings

\* The page has been loaded, with the list and the settings.
Init ==
    /\ clients = [id \in Registered |-> [NewClient EXCEPT !.recs = (id \in Recorded)]]
    /\ moved = [id \in {} |-> id]
    /\ settings = [s \in Setting |-> CHOOSE v \in Value : TRUE] /\ loadSettings
    /\ currentClientId = NoId /\ currentTimeRange \in Long
    /\ currentData = NoData /\ currentBasicMode = Basic
    /\ rows = Registered /\ busy = {}
    /\ title = [id |-> NoId, name |-> NoName]
    /\ metrics = [id |-> NoId, says |-> "none"]
    /\ charts = [id |-> NoId, range |-> NoId]
    /\ calls = <<>>
    /\ clicks = 0 /\ lost = 0 /\ hurried = FALSE /\ reordered = FALSE /\ trouble = FALSE

-----------------------------------------------------------------------------
\* The server.  Each request ends in one of the routes of http_server_start;
\* an answer that is not JSON, or not 200, fails the call.
resolve_id(id) == IF id \in DOMAIN moved THEN moved[id] ELSE id

Known(id) == IF id \in DOMAIN clients THEN clients[id] ELSE NewClient
With(id, c) == [x \in DOMAIN clients \union {id} |-> IF x = id THEN c ELSE clients[x]]

\* The data and the client are read.  Saving a setting is a GET as well: it
\* reads the setting.
ReadAnswer(c) ==
    CASE c.fn \in {"data", "range"} -> <<TRUE, Known(c.id).recs>>
      [] c.fn = "client"            -> <<c.id \in DOMAIN clients, Known(c.id)>>
      [] c.fn = "save"              -> <<TRUE, settings[c.id]>>

Read(c) ==
    /\ c.fn \in {"data", "range", "client", "save"}
    /\ UNCHANGED server

\* POST /api/client/basic-mode and GET /api/client/name.
Configure(c) ==
    LET id == IF c.fn = "name" THEN resolve_id(c.id) ELSE c.id
    IN /\ c.fn \in {"toggle", "name"}
       /\ clients' = With(id, IF c.fn = "name" THEN [Known(id) EXCEPT !.name = c.arg]
                              ELSE [Known(id) EXCEPT !.mode = c.arg])
       /\ UNCHANGED <<moved, settings>>

\* POST /api/client/id: whether the rename is possible, and the rename.
Renames(c) == resolve_id(c.id) \in DOMAIN clients /\ c.arg \notin DOMAIN clients

Rename(c) ==
    LET old == resolve_id(c.id)
    IN /\ c.fn = "id"
       /\ IF ~Renames(c) THEN UNCHANGED <<clients, moved>>
          ELSE /\ clients' = [x \in (DOMAIN clients \ {old}) \union {c.arg} |->
                                 IF x = c.arg THEN clients[old] ELSE clients[x]]
               /\ moved' = [x \in DOMAIN moved \union {old} |->
                                 IF x = old THEN c.arg ELSE moved[x]]
       /\ UNCHANGED settings

Answer(c) == IF c.fn \in {"toggle", "name"} THEN <<TRUE, c.arg>>
             ELSE IF c.fn = "id" THEN <<Renames(c), c.arg>>
             ELSE ReadAnswer(c)

\* A call before this one is still waited for.
Overtakes(k, states) ==
    \E j \in 1 .. k - 1 : calls[j].state \in states /\ calls[j].fn # "later"

\* The server takes a request; nobody waits for that of an orphan.
Handle(k) ==
    LET c == calls[k]
    IN /\ c.state \in {"sent", "orphan"}
       /\ Read(c) \/ Configure(c) \/ Rename(c)
       /\ calls' = IF c.state = "orphan" THEN RemoveAt(calls, k)
                   ELSE [calls EXCEPT ![k].state = "answered",
                            ![k].ok = Answer(c)[1], ![k].answer = Answer(c)[2]]
       /\ reordered' = (reordered \/ Overtakes(k, {"sent"}))
       /\ UNCHANGED <<page, clicks, lost, hurried, trouble>>

\* A request or its answer gets lost.
Lose(k) ==
    /\ calls[k].state \in {"sent", "answered"} /\ calls[k].fn # "later"
    /\ calls' = [calls EXCEPT ![k].state = "lost"]
    /\ lost < MaxLost /\ lost' = lost + 1
    /\ UNCHANGED <<server, page, clicks, ghosts>>

\* The headers of an answer have come, and the timer is stopped, but the body
\* has not: nothing gives the call up now.  It may go on in the end.
Stall(k) ==
    /\ calls[k].state = "answered" /\ calls[k].fn # "later"
    /\ calls' = [calls EXCEPT ![k].state = "stalled"]
    /\ lost < MaxLost /\ lost' = lost + 1
    /\ UNCHANGED <<server, page, clicks, ghosts>>

BodyComes(k) ==
    /\ calls[k].state = "stalled"
    /\ calls' = [calls EXCEPT ![k].state = "answered"]
    /\ UNCHANGED <<server, page, clicks, lost, ghosts>>

-----------------------------------------------------------------------------
\* The page.  rest is what is waited for besides.

\* Mutant: the data of the client shown before stay.
MutShowDetail(id, rest) ==
    /\ currentClientId' = id
    /\ metrics' = [id |-> id, says |-> "loading"]
    /\ calls' = Append(rest, Call("client", id, NoId))
    /\ UNCHANGED <<currentData, currentTimeRange, title, charts, rows, fields>>

\* showDetail up to its first await.  The title stays until the answer.
showDetail(id, rest) ==
    /\ currentClientId' = id
    /\ metrics' = [id |-> id, says |-> "loading"]
    /\ currentData' = NoData
    /\ calls' = Append(rest, Call("data", id, currentTimeRange))
    /\ UNCHANGED <<currentTimeRange, title, charts, rows, fields>>

\* drawAllCharts: nothing is drawn over when there are no data, and the
\* answers for long ranges have no field of the name the filter looks at.
drawAllCharts(data) ==
    IF ~data.some THEN charts
    ELSE IF data.range \in Long THEN [id |-> NoId, range |-> NoId]
    ELSE [id |-> data.id, range |-> data.range]

DetailData(c, rest) ==
    /\ c.fn = "data"
    /\ currentData' = [id |-> c.id, range |-> c.arg, some |-> c.answer]
    /\ calls' = Append(rest, Call("client", c.id, NoId))
    /\ UNCHANGED <<currentClientId, currentTimeRange, currentBasicMode, rows, shown,
                   fields, busy>>

\* currentData.length throws when another showDetail has reset it meanwhile.
DetailClient(c, rest) ==
    /\ c.fn = "client"
    /\ currentBasicMode' = c.answer.mode
    /\ title' = [id |-> c.id, name |-> c.answer.name]
    /\ metrics' = [id |-> c.id, says |-> IF currentData = NoData THEN "failed"
                                         ELSE IF currentData.some THEN "values" ELSE "none"]
    /\ charts' = drawAllCharts(currentData)
    /\ calls' = rest
    /\ UNCHANGED <<currentClientId, currentTimeRange, currentData, rows, fields, busy>>

RangeData(c, rest) ==
    /\ c.fn = "range"
    /\ currentData' = [id |-> c.id, range |-> c.arg, some |-> c.answer]
    /\ charts' = drawAllCharts(currentData')
    /\ calls' = rest
    /\ UNCHANGED <<currentClientId, currentTimeRange, currentBasicMode, rows, title,
                   metrics, fields, busy>>

Toggled(c, rest) ==
    /\ c.fn = "toggle"
    /\ currentBasicMode' = c.answer
    /\ busy' = busy \ {"toggle"}
    /\ showDetail(currentClientId, rest)

\* The timer of 800 ms is a call that waits for no answer.
Renamed(c, rest) ==
    /\ c.fn = "id"
    /\ currentClientId' = c.answer
    /\ busy' = busy \ {"id"}
    /\ calls' = Append(rest, [Call("later", NoId, NoId) EXCEPT !.state = "answered"])
    /\ UNCHANGED <<currentTimeRange, currentData, currentBasicMode, rows, shown, fields>>

Later(c, rest) ==
    /\ c.fn = "later"
    /\ showDetail(currentClientId, rest)
    /\ UNCHANGED <<currentBasicMode, busy>>

\* The new name goes into the title it was typed into, which may have been
\* replaced since.
NameSaved(c, rest) ==
    /\ c.fn = "name"
    /\ title' \in {title, [title EXCEPT !.name = c.answer]}
    /\ calls' = rest
    /\ UNCHANGED <<current, rows, metrics, charts, fields, busy>>

\* The status shows the answer; the field stays as it is.
SettingRead(c, rest) ==
    /\ c.fn = "save"
    /\ busy' = busy \ {c.id}
    /\ calls' = rest
    /\ UNCHANGED <<current, rows, shown, fields>>

\* The answer comes, and the function goes on.
Receive(k) ==
    LET c == calls[k]
        rest == RemoveAt(calls, k)
    IN /\ c.state = "answered" /\ c.ok
       /\ \/ DetailData(c, rest) \/ DetailClient(c, rest) \/ RangeData(c, rest)
          \/ Toggled(c, rest) \/ Renamed(c, rest) \/ Later(c, rest)
          \/ NameSaved(c, rest) \/ SettingRead(c, rest)
       /\ reordered' = (reordered \/ (c.fn # "later" /\ Overtakes(k, {"sent", "answered", "stalled"})))
       /\ UNCHANGED <<server, clicks, lost, hurried, trouble>>

\* Mutant: the button stays disabled.
MutReleased(c) == busy

\* The catch and finally blocks.
Released(c) == IF c.fn = "save" THEN busy \ {c.id} ELSE busy \ {c.fn}

Catch(k, orphan) ==
    LET c == calls[k]
    IN /\ metrics' = IF c.fn \in {"data", "client"} THEN [id |-> c.id, says |-> "failed"]
                     ELSE metrics
       /\ busy' = Released(c)
       /\ calls' = IF orphan THEN [calls EXCEPT ![k].state = "orphan"] ELSE RemoveAt(calls, k)
       /\ trouble' = TRUE
       /\ UNCHANGED <<server, current, rows, title, charts, fields, clicks, hurried, reordered>>

\* An answer that is no success.
Refused(k) ==
    calls[k].state = "answered" /\ ~calls[k].ok /\ Catch(k, FALSE) /\ UNCHANGED lost

\* The connection breaks before the body has come.
BodyFails(k) ==
    calls[k].state = "stalled" /\ Catch(k, FALSE) /\ UNCHANGED lost

\* Eight seconds are over, for the oldest call first; the request may yet
\* reach the server.
GiveUp(k) ==
    /\ ~Overtakes(k, {"sent", "answered", "lost"})
    /\ \/ calls[k].state = "lost" /\ Catch(k, FALSE) /\ UNCHANGED lost
       \/ /\ calls[k].state = "sent" /\ Catch(k, TRUE)
          /\ lost < MaxLost /\ lost' = lost + 1

-----------------------------------------------------------------------------
\* The user.
Pending == \E k \in DOMAIN calls : calls[k].state # "orphan"

Click ==
    /\ clicks < MaxClicks /\ clicks' = clicks + 1
    /\ hurried' = (hurried \/ Pending)
    /\ UNCHANGED <<server, lost, reordered, trouble>>

Row(id) ==
    /\ Click
    /\ id \in rows
    /\ showDetail(id, calls)
    /\ UNCHANGED <<currentBasicMode, busy>>

\* Mutant: data are asked for even when no client is shown.
MutSetTimeRange(hours) ==
    /\ Click
    /\ currentTimeRange' = hours
    /\ calls' = Append(calls, Call("range", currentClientId, hours))
    /\ UNCHANGED <<currentClientId, currentData, currentBasicMode, rows, shown, fields, busy>>

setTimeRange(hours) ==
    /\ Click
    /\ currentTimeRange' = hours
    /\ calls' = IF currentClientId = NoId THEN calls
                ELSE Append(calls, Call("range", currentClientId, hours))
    /\ UNCHANGED <<currentClientId, currentData, currentBasicMode, rows, shown, fields, busy>>

toggleBasicMode ==
    /\ Click
    /\ currentClientId # NoId /\ "toggle" \notin busy
    /\ busy' = busy \union {"toggle"}
    /\ calls' = Append(calls, Call("toggle", currentClientId, Other(currentBasicMode)))
    /\ UNCHANGED <<current, rows, shown, fields>>

saveClientId(value) ==
    /\ Click
    /\ currentClientId \notin {NoId, value} /\ "id" \notin busy
    /\ busy' = busy \union {"id"}
    /\ calls' = Append(calls, Call("id", currentClientId, value))
    /\ UNCHANGED <<current, rows, shown, fields>>

saveName(name) ==
    /\ Click
    /\ title.id # NoId /\ name # title.name
    /\ calls' = Append(calls, Call("name", currentClientId, name))
    /\ UNCHANGED <<current, rows, shown, fields, busy>>

saveSetting(s, value) ==
    /\ Click
    /\ s \notin busy
    /\ fields' = [fields EXCEPT ![s] = value]
    /\ busy' = busy \union {s}
    /\ calls' = Append(calls, Call("save", s, value))
    /\ UNCHANGED <<current, rows, shown>>

\* Every five seconds, and after a rename: the list is read and shown.
fetchClients ==
    /\ rows' = DOMAIN clients
    /\ UNCHANGED <<server, current, shown, fields, busy, calls, clicks, lost, ghosts>>

\* POST of a setting, which no function of the page sends.
PostSetting(s, value) ==
    /\ clicks < MaxClicks /\ clicks' = clicks + 1
    /\ settings' = [settings EXCEPT ![s] = value]
    /\ UNCHANGED <<clients, moved, page, calls, lost, ghosts>>

User ==
    \/ \E id \in Id : Row(id) \/ saveClientId(id)
    \/ \E hours \in Hours : setTimeRange(hours)
    \/ toggleBasicMode
    \/ \E name \in Name : saveName(name)
    \/ \E s \in Setting, v \in Value : saveSetting(s, v)

Next ==
    \/ \E k \in DOMAIN calls : \/ Handle(k) \/ Lose(k) \/ Stall(k) \/ BodyComes(k)
                              \/ Receive(k) \/ Refused(k) \/ BodyFails(k) \/ GiveUp(k)
    \/ User \/ fetchClients
    \/ \E s \in Setting, v \in Value : PostSetting(s, v)

Spec == Init /\ [][Next]_vars

\* The server gets to every request, the browser to every answer and timer.
FairSpec ==
    /\ Spec
    /\ WF_vars(\E k \in DOMAIN calls : Handle(k))
    /\ WF_vars(\E k \in DOMAIN calls : Receive(k) \/ Refused(k) \/ GiveUp(k))

-----------------------------------------------------------------------------
\* However clicks, answers and timeouts interleave, the page that has come to
\* rest shows one client: the numbers, or the word that they could not be had,
\* are those of the client that every button acts on; and if no call has failed
\* so are the title, the mode as the server has it, and the data for the range
\* chosen.  Only a user who clicks on while answers overtake one another, or
\* fail, is misled.
OneClient ==
    ~Pending /\ currentClientId # NoId /\ ~(hurried /\ (reordered \/ trouble)) =>
        /\ metrics.id = currentClientId /\ metrics.says # "loading"
        /\ ~trouble =>
              /\ metrics.says # "failed"
              /\ title.id = currentClientId
              /\ currentBasicMode = clients[currentClientId].mode
              /\ currentData.id = currentClientId /\ currentData.range = currentTimeRange
              /\ currentData.some => charts.id \in {NoId, currentClientId}

Stalled == \E k \in DOMAIN calls : calls[k].state = "stalled"

\* Whatever is lost on the way, a page whose user stops clicking comes to rest:
\* every button can be used again and no client keeps loading.  The one thing
\* in its way is an answer that stops after its headers and never goes on.
Settles == <>[]~Stalled => []<>(busy = {} /\ metrics.says # "loading")
=============================================================================
