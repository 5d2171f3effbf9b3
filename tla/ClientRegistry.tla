--------------------------- MODULE ClientRegistry ---------------------------
(***************************************************************************)
(* Who is who on the server: apps/server/main/client_registry.c with the   *)
(* handlers of http_server.c that change it, the client files they move,   *)
(* and the loggers that upload and learn their id from the answers         *)
(* (apps/client/main/wifi_sync.c).                                         *)
(*                                                                         *)
(* The HTTP server runs one handler at a time, so a handler is one step;   *)
(* what interleaves is whole requests of several loggers and of the user   *)
(* behind the web page.  The table of clients is a function of the ids:    *)
(* where the code takes the first entry with some address, any of them may *)
(* be taken here.  Times and the online flag are left to another module,   *)
(* and so is what an upload's append makes of a file when it fails.        *)
(***************************************************************************)
EXTENDS Naturals, FiniteSets, Functions

CONSTANTS
    Device,      \* the loggers
    Id,          \* client ids
    Ip,          \* addresses
    Name,        \* names a user gives to clients
    MaxClients,  \* CLIENT_REGISTRY_MAX_CLIENTS
    MaxMade,     \* bound: records a logger measures
    MaxRequests, \* bound: requests of the user
    NoIp, NoName,
    Events       \* which of EventKinds may happen

EventKinds == {"rename",      \* the user changes ids
               "delete",      \* the user deletes clients
               "ip_change",   \* a logger gets another address
               "lost_answer", \* an answer does not reach the logger
               "stale_page",  \* a request names a client no longer registered
               "taken_id",    \* an id is changed to that of another logger
               "impatience",  \* an id is changed while a change is pending
               "file_error"}  \* a client's file cannot be moved or removed

ASSUME RegistryAssumption ==
    /\ NoIp \notin Ip /\ NoName \notin Name
    /\ IsFiniteSet(Id)
    /\ MaxClients \in Nat \ {0} /\ MaxMade \in Nat /\ MaxRequests \in Nat
    /\ Events \subseteq EventKinds

Record == Device \X (1 .. MaxMade)
Entry == [ip : Ip \union {NoIp}, name : Name \union {NoName}, basic : BOOLEAN]
NewEntry == [ip |-> NoIp, name |-> NoName, basic |-> TRUE]

VARIABLES
    clients,   \* the registry: an entry for every registered id
    mappings,  \* id_mappings: pending renames, old id to new id
    files,     \* the records in the file of each id, {} where there is none
    devices,   \* each logger's id, address, name, mode and unsynced records
    made,      \* records each logger has measured
    acked,     \* records of uploads answered with 200
    erased,    \* records the user deleted
    refused,   \* ids with a file that the full registry could not take in
    unmoved,   \* ids whose file a failed move or removal left, or cut short
    requests   \* requests of the user so far

vars == <<clients, mappings, files, devices, made, acked, erased, refused,
          unmoved, requests>>

PartialFunctions(S, T) == UNION {[R -> T] : R \in SUBSET S}

DeviceState == [id : Id, ip : Ip, name : Name \union {NoName},
                basic : BOOLEAN, pending : SUBSET Record]

TypeOK ==
    /\ clients \in PartialFunctions(Id, Entry)
    /\ Cardinality(DOMAIN clients) <= MaxClients
    /\ mappings \in PartialFunctions(Id, Id)
    /\ Cardinality(DOMAIN mappings) <= MaxClients
    /\ files \in [Id -> SUBSET Record]
    /\ devices \in [Device -> DeviceState]
    /\ made \in [Device -> 0 .. MaxMade]
    /\ acked \subseteq Record /\ erased \subseteq Record
    /\ refused \subseteq Id /\ unmoved \subseteq Id
    /\ requests \in 0 .. MaxRequests

\* Loggers are set up with distinct ids and addresses; none has been seen.
Init ==
    /\ clients = [id \in {} |-> NewEntry]
    /\ mappings = [id \in {} |-> id]
    /\ files = [id \in Id |-> {}]
    /\ devices \in [Device -> [id : Id, ip : Ip, name : {NoName},
                               basic : {TRUE}, pending : {{}}]]
    /\ \A d, e \in Device : d # e => /\ devices[d].id # devices[e].id
                                     /\ devices[d].ip # devices[e].ip
    /\ made = [d \in Device |-> 0]
    /\ acked = {} /\ erased = {} /\ refused = {} /\ unmoved = {} /\ requests = 0

-----------------------------------------------------------------------------
\* client_registry_resolve_id: one step through the pending renames.
resolve_id(maps, id) == IF id \in DOMAIN maps THEN maps[id] ELSE id

\* Mutant: the old file is not removed.
MutRenamed(fs, old, new) ==
    IF fs[old] = {} THEN fs ELSE [fs EXCEPT ![new] = fs[old]]

\* data_store_rename_client: an existing file replaces the other id's file.
Renamed(fs, old, new) ==
    IF fs[old] = {} THEN fs ELSE [fs EXCEPT ![new] = fs[old], ![old] = {}]

\* data_store_rename_client, when a call of the file system fails: nothing is
\* done, or the new file is replaced by a part of the old one, or removed, and
\* the old one is left or removed.  No caller acts on the result.
MisRenamed(fs, old, new) ==
    {fs} \union {[fs EXCEPT ![new] = part, ![old] = rest] :
                    part \in SUBSET fs[old], rest \in {{}, fs[old]}}

\* The ids still left with a file that no entry lists.
Unlisted == {id \in unmoved : id \notin DOMAIN clients' /\ files'[id] # {}}

\* The file of an id is moved to another, from the files in the state fs.
Moved(fs, old, new) ==
    \/ files' = Renamed(fs, old, new) /\ unmoved' = Unlisted
    \/ /\ "file_error" \in Events /\ fs[old] # {}
       /\ files' \in MisRenamed(fs, old, new) \ {Renamed(fs, old, new)}
       /\ unmoved' = Unlisted \union {old}

Without(f, id) == Restrict(f, DOMAIN f \ {id})

\* Mutants: a known id takes entries over too; the address is not compared.
MutBoundKnown(id, ip) ==
    {old \in DOMAIN clients \ {id} : ip # NoIp /\ clients[old].ip = ip}
MutBoundAny(id, ip) ==
    IF id \in DOMAIN clients \/ ip = NoIp THEN {} ELSE DOMAIN clients

\* client_registry_update, the entries an unknown id takes over: those bound
\* to the address it comes from.
Bound(id, ip) ==
    IF id \in DOMAIN clients THEN {}
    ELSE {old \in DOMAIN clients : ip # NoIp /\ clients[old].ip = ip}

\* Mutant: the table has no end.
MutEntered(reg, id, name, ip, overwrite) ==
    LET e == IF id \in DOMAIN reg THEN reg[id] ELSE NewEntry
        new == [ip    |-> IF ip # NoIp THEN ip ELSE e.ip,
                name  |-> IF name # NoName THEN name ELSE e.name,
                basic |-> e.basic]
    IN [x \in DOMAIN reg \union {id} |-> IF x = id THEN new ELSE reg[x]]

\* client_registry_update, the entry of the id, made if there is room.
Entered(reg, id, name, ip, overwrite) ==
    LET e == IF id \in DOMAIN reg THEN reg[id] ELSE NewEntry
        new == [ip    |-> IF ip # NoIp THEN ip ELSE e.ip,
                name  |-> IF name # NoName /\ (overwrite \/ e.name = NoName)
                          THEN name ELSE e.name,
                basic |-> e.basic]
    IN IF id \notin DOMAIN reg /\ Cardinality(DOMAIN reg) >= MaxClients THEN reg
       ELSE [x \in DOMAIN reg \union {id} |-> IF x = id THEN new ELSE reg[x]]

\* client_registry_update, called with the files in the state fs.
Update(fs, id, name, ip, overwrite) ==
    \/ /\ Bound(id, ip) = {}
       /\ files' = fs
       /\ clients' = Entered(clients, id, name, ip, overwrite)
       /\ unmoved' = Unlisted
       /\ UNCHANGED mappings
    \/ \E old \in Bound(id, ip) :
       /\ clients' = Entered(Without(clients, old), id, name, ip, overwrite)
       /\ Moved(fs, old, id)
       /\ mappings' = Without(mappings, old)

-----------------------------------------------------------------------------
Measure(d) ==
    /\ made[d] < MaxMade
    /\ made' = [made EXCEPT ![d] = @ + 1]
    /\ devices' = [devices EXCEPT ![d].pending = @ \union {<<d, made'[d]>>}]
    /\ UNCHANGED <<clients, mappings, files, acked, erased, refused, unmoved,
                   requests>>

\* upload_post_handler: the records go to the file of the id the logger sent,
\* before the registry is asked anything.
Received(d) ==
    LET s == devices[d]
        fs == [files EXCEPT ![s.id] = @ \union s.pending]
    IN /\ Update(fs, s.id, s.name, s.ip, FALSE)
       /\ refused' = {id \in refused \union {s.id} :
                          id \notin DOMAIN clients' /\ files'[id] # {}}

\* Mutant: the logger keeps its id.
MutConfigured(s) == [s EXCEPT !.pending = {}]

\* What the answer makes of the logger: apply_server_config.
Configured(s) ==
    LET id == resolve_id(mappings', s.id)
        e == IF id \in DOMAIN clients' THEN clients'[id] ELSE NewEntry
    IN [s EXCEPT !.id = id,
                 !.name = IF e.name # NoName THEN e.name ELSE @,
                 !.basic = e.basic, !.pending = {}]

\* An upload whose answer, a 200, is read and applied by the logger.
UploadApplied(d) ==
    /\ Received(d)
    /\ devices' = [devices EXCEPT ![d] = Configured(@)]
    /\ acked' = acked \union devices[d].pending
    /\ UNCHANGED <<made, erased, requests>>

\* The status of the answer arrives without its body, or nothing arrives.
UploadUnread(d) ==
    /\ "lost_answer" \in Events
    /\ Received(d)
    /\ \/ /\ devices' = [devices EXCEPT ![d].pending = {}]
          /\ acked' = acked \union devices[d].pending
       \/ UNCHANGED <<devices, acked>>
    /\ UNCHANGED <<made, erased, requests>>

\* The logger joins the network again and is given another free address.
ChangeIp(d) ==
    /\ "ip_change" \in Events
    /\ \E ip \in Ip \ {devices[e].ip : e \in Device} :
           devices' = [devices EXCEPT ![d].ip = ip]
    /\ UNCHANGED <<clients, mappings, files, made, acked, erased, refused,
                   unmoved, requests>>

-----------------------------------------------------------------------------
Request == requests < MaxRequests /\ requests' = requests + 1

\* client_id_post_handler, client_registry_rename_id.  The entry changes and is
\* saved even if the file could not be moved.
ClientIdPost(id, new) ==
    LET old == resolve_id(mappings, id)
    IN /\ Request /\ "rename" \in Events
       /\ old \in DOMAIN clients /\ new \notin DOMAIN clients
       /\ DOMAIN mappings = {} \/ "impatience" \in Events
       /\ \/ "taken_id" \in Events
          \/ \A d \in Device : devices[d].id = new => devices[d].ip = clients[old].ip
       /\ old \in DOMAIN mappings \/ Cardinality(DOMAIN mappings) < MaxClients
       /\ mappings' = [x \in DOMAIN mappings \union {old} |->
                           IF x = old THEN new ELSE mappings[x]]
       /\ clients' = [x \in (DOMAIN clients \ {old}) \union {new} |->
                          IF x = new THEN clients[old] ELSE clients[x]]
       /\ Moved(files, old, new)
       /\ refused' = refused \ {new}
       /\ UNCHANGED <<devices, made, acked, erased>>

\* client_name_get_handler.
ClientNameGet(id, name) ==
    LET resolved == resolve_id(mappings, id)
    IN /\ Request
       /\ resolved \in DOMAIN clients \/ "stale_page" \in Events
       /\ Update(files, resolved, name, NoIp, TRUE)
       /\ refused' = refused \ DOMAIN clients'
       /\ UNCHANGED <<devices, made, acked, erased>>

\* client_basic_mode_post_handler: an unknown id is entered first.
ClientBasicModePost(id, value) ==
    LET reg == Entered(clients, id, NoName, NoIp, FALSE)
    IN /\ Request
       /\ id \in DOMAIN clients \/ "stale_page" \in Events
       /\ id \in DOMAIN reg
       /\ clients' = [reg EXCEPT ![id].basic = value]
       /\ refused' = refused \ {id}
       /\ unmoved' = unmoved \ {id}
       /\ UNCHANGED <<mappings, files, devices, made, acked, erased>>

\* client_delete_handler: pending renames stay, and so does the file if it
\* cannot be removed.
ClientDelete(id) ==
    /\ Request /\ "delete" \in Events
    /\ id \in DOMAIN clients
    /\ clients' = Without(clients, id)
    /\ \/ files' = [files EXCEPT ![id] = {}] /\ UNCHANGED unmoved
       \/ /\ "file_error" \in Events /\ files[id] # {}
          /\ unmoved' = unmoved \union {id} /\ UNCHANGED files
    /\ erased' = erased \union files[id]
    /\ UNCHANGED <<mappings, devices, made, acked, refused>>

DeviceStep(d) ==
    Measure(d) \/ UploadApplied(d) \/ UploadUnread(d) \/ ChangeIp(d)

UserStep ==
    \/ \E id, new \in Id : ClientIdPost(id, new)
    \/ \E id \in Id, name \in Name : ClientNameGet(id, name)
    \/ \E id \in Id, value \in BOOLEAN : ClientBasicModePost(id, value)
    \/ \E id \in Id : ClientDelete(id)

Next == (\E d \in Device : DeviceStep(d)) \/ UserStep

Spec == Init /\ [][Next]_vars

-----------------------------------------------------------------------------
Stored == UNION {files[id] : id \in Id}
Deletes == \E id \in Id : ClientDelete(id)

\* Whatever ids are renamed, reused, taken over by address or deleted, no file
\* is left behind under an id the web page does not list, unless the registry
\* was full when its data came, or the file could not be moved or removed.
FilesTracked ==
    \A id \in Id : files[id] # {} => id \in DOMAIN clients \union refused \union unmoved

\* No request other than a deletion loses a record that the server had stored
\* before it: a file is only ever moved over a file that holds nothing older than
\* the request.  Given up are the records under an id the full registry had
\* refused, and those in a file that cannot be moved or was left by such a move.
HistoryKept ==
    [][~Deletes => \A id \in Id \ (refused \union unmoved \union unmoved') :
                       files[id] \subseteq Stored']_vars

\* The documented promise of a rename: uploads still sent under the old id
\* are routed to the renamed entry, so no acknowledged record disappears.
UploadsKept == acked \subseteq Stored \union erased

\* As long as loggers keep their addresses and an id is only changed once the
\* logger has taken on the last change, and every file can be moved, takeovers by
\* address and files moved by renames never put records of two loggers into one
\* file.
NotMixed == \A id \in Id : \A r, s \in files[id] : r[1] = s[1]

\* The logger and the registry agree on who it is.
Agreed(d) ==
    LET s == devices[d]
    IN /\ s.id \in DOMAIN clients
       /\ resolve_id(mappings, s.id) = s.id
       /\ clients[s.id].ip = s.ip
       /\ clients[s.id].name # NoName => clients[s.id].name = s.name
       /\ clients[s.id].basic = s.basic

\* Every logger keeps uploading and is answered again and again.
FairSpec == Spec /\ \A d \in Device : WF_vars(UploadApplied(d))

\* Once the user makes no more requests, every logger ends up with the id,
\* the name and the mode its registry entry has, whatever answers were lost and
\* entries deleted or taken over on the way, as long as loggers keep their
\* addresses and an id is only changed once the logger has taken on the last
\* change: one rename is pending at a time, and none leads on to another.
Converges == \A d \in Device : <>[]Agreed(d)
=============================================================================
