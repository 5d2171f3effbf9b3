--------------------------- MODULE RegistryStore ---------------------------
(***************************************************************************)
(* The registry of clients as the server keeps it through a reset:         *)
(* apps/server/main/client_registry.c with its arrays in RAM, the five     *)
(* values they are saved as in NVS, one after another, and the client      *)
(* files that the same requests move and remove (http_server.c).           *)
(*                                                                         *)
(* Requests come one at a time.  What a request does in RAM is one step,   *)
(* since nothing sees it before the request is over; each write to flash   *)
(* is a step of its own, and the board may reset between any two.  A value *)
(* is written whole or not at all; a file is moved or removed in one step, *)
(* or left as a call of the file system that fails leaves it.  Slots are   *)
(* counted from 1; the time of the last upload and the online flag are     *)
(* left out.  A logger's address is the logger itself.                     *)
(***************************************************************************)
EXTENDS Naturals, Sequences, FiniteSets

CONSTANTS
    Device,      \* the loggers
    Id,          \* client ids
    Name,        \* names the user may give
    NoId, NoName, NoIp,
    MaxClients,  \* CLIENT_REGISTRY_MAX_CLIENTS
    MaxRequests, \* bound: requests of the user
    MaxFaults,   \* bound: resets of the board and failed writes
    Faults       \* which of FaultKinds may happen

FaultKinds == {"nvs_error",  \* a value fails to be written
               "file_error"} \* a file fails to be stored, moved or removed

ASSUME StoreAssumption ==
    /\ NoId \notin Id /\ NoName \notin Name /\ NoIp \notin Device
    /\ MaxClients \in Nat \ {0} /\ MaxRequests \in Nat /\ MaxFaults \in Nat
    /\ Faults \subseteq FaultKinds

Slot == 1 .. MaxClients
Entry == [id : Id \union {NoId}, name : Name \union {NoName}, ip : Device \union {NoIp}]
Mapping == [old : Id \union {NoId}, new : Id \union {NoId}]
Registry == [clients : [Slot -> Entry], modes : [Slot -> BOOLEAN], count : 0 .. MaxClients,
             maps : [Slot -> Mapping], map_count : 0 .. MaxClients]

NoEntry == [id |-> NoId, name |-> NoName, ip |-> NoIp]
NoMapping == [old |-> NoId, new |-> NoId]
Empty == [clients |-> [s \in Slot |-> NoEntry], modes |-> [s \in Slot |-> TRUE], count |-> 0,
          maps |-> [s \in Slot |-> NoMapping], map_count |-> 0]

\* What a client should have.  The fields in lost are those that a takeover has
\* not kept and that nobody has set since.
Wanted == [name : Name \union {NoName}, basic : BOOLEAN, lost : SUBSET {"name", "basic"}]
Fresh == [name |-> NoName, basic |-> TRUE, lost |-> {}]

VARIABLES
    mem,      \* the arrays and counts in RAM
    nvs,      \* the values in flash
    files,    \* ids with a file
    dev,      \* the id each logger uploads under and the name it was told
    todo,     \* what the request under way still has to do
    requests, faults,
    mixed,    \* some of the values of a save are written and others not
    torn,     \* a reset has left them so
    touched,  \* ids of the requests not saved to the end
    excused,  \* ids of requests cut off by a reset, turned down for room, or
              \* with a file that could not be moved or removed
    chosen,   \* the name and mode each id should have
    kept      \* those as of the last whole save

ghosts == <<mixed, torn, touched, excused, chosen, kept>>
vars == <<mem, nvs, files, dev, todo, requests, faults, ghosts>>

Step == ({"write"} \X DOMAIN Empty) \union ({"move"} \X Id \X Id)
        \union ({"unlink"} \X Id) \union ({"answer"} \X Device)

TypeOK ==
    /\ mem \in Registry /\ nvs \in Registry
    /\ files \subseteq Id /\ dev \in [Device -> [id : Id, name : Name \union {NoName}]]
    /\ todo \in Seq(Step)
    /\ requests \in 0 .. MaxRequests /\ faults \in 0 .. MaxFaults
    /\ mixed \in BOOLEAN /\ torn \in BOOLEAN
    /\ touched \subseteq Id /\ excused \subseteq Id
    /\ chosen \in [Id -> Wanted] /\ kept \in [Id -> Wanted]

\* A new board, and loggers set up with ids of their own.
Init ==
    /\ mem = Empty /\ nvs = Empty /\ files = {}
    /\ dev \in [Device -> [id : Id, name : {NoName}]]
    /\ \A d, e \in Device : dev[d].id = dev[e].id => d = e
    /\ todo = <<>>
    /\ requests = 0 /\ faults = 0
    /\ mixed = FALSE /\ torn = FALSE /\ touched = {} /\ excused = {}
    /\ chosen = [id \in Id |-> Fresh] /\ kept = chosen

-----------------------------------------------------------------------------
Used(reg) == 1 .. reg.count
Listed(reg) == {reg.clients[s].id : s \in Used(reg)}

\* client_registry_get: the first slot with the id.
Get(reg, id) == {s \in Used(reg) : /\ reg.clients[s].id = id
                                   /\ \A t \in 1 .. s - 1 : reg.clients[t].id # id}

\* client_registry_resolve_id.
Pending(reg, id) == {s \in 1 .. reg.map_count :
                        /\ reg.maps[s].old = id
                        /\ \A t \in 1 .. s - 1 : reg.maps[t].old # id}

resolve_id(reg, id) ==
    IF Pending(reg, id) = {} THEN id
    ELSE reg.maps[CHOOSE s \in Pending(reg, id) : TRUE].new

\* The elements behind slot s move up, and the last one is cleared.
Shifted(f, s, n, zero) ==
    [t \in Slot |-> IF t < s \/ t > n THEN f[t] ELSE IF t = n THEN zero ELSE f[t + 1]]

\* Mutant: the modes stay where they are.
MutRemoved(reg, s) ==
    [reg EXCEPT !.clients = Shifted(@, s, reg.count, NoEntry), !.count = @ - 1]

\* An entry is dropped, by client_registry_delete or by a takeover.
Removed(reg, s) ==
    [reg EXCEPT !.clients = Shifted(@, s, reg.count, NoEntry),
                !.modes = Shifted(@, s, reg.count, TRUE), !.count = @ - 1]

\* Mutant: the count goes down although nothing was found.
MutCleared(reg, id) == [reg EXCEPT !.map_count = @ - 1]

\* client_registry_clear_id_mapping.
Cleared(reg, id) ==
    IF Pending(reg, id) = {} THEN reg
    ELSE LET s == CHOOSE s \in Pending(reg, id) : TRUE
         IN [reg EXCEPT !.maps = Shifted(@, s, reg.map_count, NoMapping),
                        !.map_count = @ - 1]

Room(reg) == reg.count < MaxClients

\* client_registry_update, an entry for an id that has none.  Whatever the
\* slot holds beside the id and the mode stays.
Added(reg, id) ==
    LET s == reg.count + 1
    IN IF Get(reg, id) # {} \/ ~Room(reg) THEN reg
       ELSE [reg EXCEPT !.clients[s].id = id, !.modes[s] = TRUE, !.count = s]

\* An upload fills in a name where there is none.
Seen(reg, id, name, ip) ==
    LET c == reg.clients
    IN [reg EXCEPT !.clients = [s \in Slot |->
           IF s \notin Get(reg, id) THEN c[s]
           ELSE [id |-> id, ip |-> ip,
                 name |-> IF c[s].name = NoName THEN name ELSE c[s].name]]]

\* The entry an unknown id takes over: the first one with its address.
Bound(reg, id, ip) ==
    IF Get(reg, id) # {} THEN {}
    ELSE {s \in Used(reg) : /\ reg.clients[s].ip = ip
                            /\ \A t \in 1 .. s - 1 : reg.clients[t].ip # ip}

-----------------------------------------------------------------------------
Written(values) == [i \in DOMAIN values |-> <<"write", values[i]>>]

\* client_registry_save, the values in the order they are written.
Save == Written(<<"clients", "modes", "count", "maps", "map_count">>)

Begin(steps, ids) ==
    /\ todo = <<>>
    /\ todo' = steps
    /\ touched' = touched \union ids
    /\ UNCHANGED <<nvs, faults, mixed, torn, kept>>

\* What an id should have; nothing for one that has no entry yet.
Wish(id) == IF Get(mem, id) # {} THEN chosen[id] ELSE Fresh

\* An upload says what name a client has that has none.
Told(wish, name) == [wish EXCEPT !.name = IF @ = NoName THEN name ELSE @]

\* A client goes on under an id that takes its entry over.  It should keep its
\* name and its mode; the entry made anew has the name the logger says it has
\* and the mode of a new client.
TakenOver(wish, name) ==
    LET told == Told(wish, name)
    IN [told EXCEPT !.lost = (IF told.name = name THEN {} ELSE {"name"})
                             \union (IF told.basic THEN {} ELSE {"basic"})]

\* upload_post_handler: the file, which the records may fail to reach, the
\* registry, the answer.
Upload(d) ==
    LET id == dev[d].id
        bound == Bound(mem, id, d)
        taken == {mem.clients[s].id : s \in bound}
        freed == IF bound = {} THEN mem
                 ELSE LET s == CHOOSE s \in bound : TRUE
                      IN Removed(Cleared(mem, mem.clients[s].id), s)
        wishes == IF bound = {} THEN {Told(Wish(id), dev[d].name)}
                  ELSE {TakenOver(chosen[old], dev[d].name) : old \in taken}
    IN /\ \E moves \in IF bound = {} THEN {<<>>} ELSE {<<<<"move", old, id>>>> : old \in taken} :
             Begin(moves \o Save \o <<<<"answer", d>>>>, {id} \union taken)
       /\ \/ files' = files \union {id}
          \/ "file_error" \in Faults /\ files' = files
       /\ mem' = Seen(Added(freed, id), id, dev[d].name, d)
       /\ \E w \in wishes :
             chosen' = [x \in Id |-> IF x = id THEN w ELSE IF x \in taken THEN Fresh
                                     ELSE chosen[x]]
       /\ excused' = IF id \in Listed(mem') THEN excused ELSE excused \union {id}
       /\ UNCHANGED <<dev, requests>>

Request == requests < MaxRequests /\ requests' = requests + 1

\* A request that sets the name or the mode, which is the field, of a client it
\* first adds to the registry when there is none: name and basic say what
\* becomes of the two.
Configure(id, field, name, basic) ==
    LET reg == Added(mem, id)
        wish == [name |-> name[Wish(id).name], basic |-> basic[Wish(id).basic],
                 lost |-> Wish(id).lost \ {field}]
    IN /\ Request
       /\ Get(reg, id) # {}
       /\ Begin(Save, {id})
       /\ \E s \in Get(reg, id) :
             mem' = [reg EXCEPT !.clients[s].name = name[@], !.modes[s] = basic[@]]
       /\ chosen' = [chosen EXCEPT ![id] = wish]
       /\ UNCHANGED <<files, dev, excused>>

ClientNameGet(id, name) ==
    Configure(resolve_id(mem, id), "name", [n \in Name \union {NoName} |-> name],
              [b \in BOOLEAN |-> b])

ClientBasicModePost(id, value) ==
    Configure(id, "basic", [n \in Name \union {NoName} |-> n], [b \in BOOLEAN |-> value])

\* Mutant: the new id is not looked up.
MutFree(id) == TRUE

Free(id) == Get(mem, id) = {}

\* client_registry_rename_id, the pending rename.
Remembered(reg, old, new) ==
    LET s == IF Pending(reg, old) # {} THEN CHOOSE s \in Pending(reg, old) : TRUE
             ELSE reg.map_count + 1
    IN [reg EXCEPT !.maps[s] = [old |-> old, new |-> new],
                   !.map_count = IF s > @ THEN s ELSE @]

\* client_id_post_handler: the registry in RAM, the file, the save.
ClientIdPost(id, new) ==
    LET old == resolve_id(mem, id)
    IN /\ Request
       /\ Get(mem, old) # {} /\ Free(new) /\ old # new
       /\ Pending(mem, old) # {} \/ mem.map_count < MaxClients
       /\ Begin(<<<<"move", old, new>>>> \o Save, {old, new})
       /\ \E s \in Get(mem, old) :
             mem' = [Remembered(mem, old, new) EXCEPT !.clients[s].id = new]
       /\ chosen' = [chosen EXCEPT ![new] = chosen[old], ![old] = Fresh]
       /\ UNCHANGED <<files, dev, excused>>

\* client_delete_handler: the registry is saved before the file goes.
ClientDelete(id) ==
    /\ Request
    /\ Begin(Save \o <<<<"unlink", id>>>>, {id})
    /\ \E s \in Get(mem, id) : mem' = Removed(mem, s)
    /\ chosen' = [chosen EXCEPT ![id] = Fresh]
    /\ UNCHANGED <<files, dev, excused>>

-----------------------------------------------------------------------------
\* The next thing the request has to do is done.
Do(op) ==
    /\ todo # <<>> /\ Head(todo)[1] = op
    /\ todo' = Tail(todo)
    /\ UNCHANGED <<mem, requests, faults, torn, chosen>>

\* Writing the last value saves all there is in RAM; what is still to do then
\* is to remove a file.
Write ==
    LET value == Head(todo)[2]
    IN /\ Do("write")
       /\ nvs' = [nvs EXCEPT ![value] = mem[value]]
       /\ mixed' = (value # "map_count")
       /\ kept' = IF mixed' THEN kept ELSE chosen
       /\ excused' = IF mixed' THEN excused ELSE excused \ Listed(mem)
       /\ touched' = IF mixed' THEN touched
                     ELSE {id \in Id : <<"unlink", id>> \in {todo'[i] : i \in DOMAIN todo'}}
       /\ UNCHANGED <<files, dev>>

\* nvs_set fails: client_registry_save returns, the values left are not
\* written, and its caller goes on.
WriteFails ==
    /\ "nvs_error" \in Faults
    /\ faults < MaxFaults /\ faults' = faults + 1
    /\ \E n \in 1 .. Len(todo) :
           /\ \A i \in 1 .. n : todo[i][1] = "write"
           /\ n < Len(todo) => todo[n + 1][1] # "write"
           /\ todo' = SubSeq(todo, n + 1, Len(todo))
    /\ UNCHANGED <<mem, nvs, files, dev, requests, ghosts>>

\* data_store_rename_client.
MoveFile ==
    LET old == Head(todo)[2]
        new == Head(todo)[3]
    IN /\ Do("move")
       /\ files' = IF old \in files THEN (files \ {old}) \union {new} ELSE files
       /\ UNCHANGED <<nvs, dev, mixed, touched, excused, kept>>

\* data_store_delete_client.
Unlink ==
    /\ Do("unlink")
    /\ files' = files \ {Head(todo)[2]}
    /\ UNCHANGED <<nvs, dev, mixed, touched, excused, kept>>

\* data_store_rename_client or data_store_delete_client, when a call of the
\* file system fails: the file is left, and beside one that should have moved
\* there may be a file under the new id, or none any more.  No caller acts on
\* the result.
FileFails ==
    LET op == Head(todo)
    IN /\ "file_error" \in Faults
       /\ faults < MaxFaults /\ faults' = faults + 1
       /\ todo # <<>> /\ op[1] \in {"move", "unlink"} /\ op[2] \in files
       /\ todo' = Tail(todo)
       /\ \E fs \in IF op[1] = "unlink" THEN {files}
                     ELSE {files, files \union {op[3]}, files \ {op[3]}} :
             files' = fs
       /\ excused' = excused \union {op[2]}
       /\ UNCHANGED <<mem, nvs, dev, requests, mixed, torn, touched, chosen, kept>>

\* The logger takes on the id and the name of the answer.
Answer ==
    LET d == Head(todo)[2]
        id == resolve_id(mem, dev[d].id)
        named == {mem.clients[s].name : s \in Get(mem, id)} \ {NoName}
    IN /\ Do("answer")
       /\ \E name \in IF named = {} THEN {dev[d].name} ELSE named :
             dev' = [dev EXCEPT ![d] = [id |-> id, name |-> name]]
       /\ UNCHANGED <<nvs, files, mixed, touched, excused, kept>>

\* client_registry_load: a count that is no number of clients is 0.
Valid(n) == IF n \in Slot THEN n ELSE 0

Loaded == [nvs EXCEPT !.count = Valid(@), !.map_count = Valid(@)]

\* The board resets and boots.
Reset ==
    /\ faults < MaxFaults /\ faults' = faults + 1
    /\ touched # {} \/ todo # <<>>
    /\ mem' = Loaded
    /\ todo' = <<>>
    /\ torn' = (torn \/ mixed) /\ mixed' = FALSE
    /\ excused' = excused \union touched /\ touched' = {}
    /\ chosen' = kept
    /\ UNCHANGED <<nvs, files, dev, requests, kept>>

Handle == Write \/ MoveFile \/ Unlink \/ Answer

User ==
    \E id \in Id :
       \/ \E name \in Name : ClientNameGet(id, name)
       \/ \E value \in BOOLEAN : ClientBasicModePost(id, value)
       \/ \E new \in Id : ClientIdPost(id, new)
       \/ ClientDelete(id)

Next == (\E d \in Device : Upload(d)) \/ User \/ Handle \/ WriteFails \/ FileFails
        \/ Reset

Spec == Init /\ [][Next]_vars

-----------------------------------------------------------------------------
\* Resets between the five values leave old counts with new entries, entries
\* without an id and entries behind the count; yet no id is ever listed twice,
\* and a reset or a failed write of a value, wherever it falls, costs at most
\* the clients of the request it cuts off their place in the list.  A file that
\* no entry lists is one of such a client, of one the full registry had no room
\* for, or one that the file system failed to move or to remove.
ListedOnce ==
    /\ \A s, t \in Used(mem) :
          mem.clients[s].id = mem.clients[t].id /\ mem.clients[s].id # NoId => s = t
    /\ files \subseteq Listed(mem) \union touched \union excused

\* A name and a mode are as wish says, but for the fields it has lost.
Agrees(wish, name, basic) ==
    /\ "name" \in wish.lost \/ wish.name = name
    /\ "basic" \in wish.lost \/ wish.basic = basic

\* As long as no reset falls between two values of one save, names and modes
\* stay with their clients through renames, deletions and takeovers that move
\* the entries, and the list has no entry without an id.  The client taken over
\* itself does not keep what the upload does not say: its mode, and a name its
\* logger has not been told, until they are set again.
EntriesKept ==
    ~torn => \A s \in Used(mem) :
                 LET e == mem.clients[s]
                 IN e.id \in Id /\ Agrees(chosen[e.id], e.name, mem.modes[s])
=============================================================================
