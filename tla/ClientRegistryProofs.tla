------------------------ MODULE ClientRegistryProofs ------------------------
(***************************************************************************)
(* Theorems about ClientRegistry, for any loggers, ids, addresses, size of *)
(* the registry and set of events.                                         *)
(***************************************************************************)
EXTENDS ClientRegistry, FiniteSetTheorems, TLAPS

\* A function on some of the ids, taken apart.
LEMMA PartialFunctionElim ==
    ASSUME NEW S, NEW T, NEW f \in PartialFunctions(S, T)
    PROVE  DOMAIN f \subseteq S /\ f \in [DOMAIN f -> T]
  BY DEF PartialFunctions

\* A function on some of the ids, put together.
LEMMA PartialFunctionIntro ==
    ASSUME NEW S, NEW T, NEW R \in SUBSET S, NEW f \in [R -> T]
    PROVE  f \in PartialFunctions(S, T) /\ DOMAIN f = R
  BY DEF PartialFunctions

\* Leaving an id out keeps a partial function one, no larger than it was.
LEMMA WithoutShrinks ==
    ASSUME NEW T, NEW f \in PartialFunctions(Id, T), NEW id,
           Cardinality(DOMAIN f) <= MaxClients
    PROVE  /\ Without(f, id) \in PartialFunctions(Id, T)
           /\ DOMAIN Without(f, id) = DOMAIN f \ {id}
           /\ Cardinality(DOMAIN Without(f, id)) <= MaxClients
  <1>1. DOMAIN f \subseteq Id /\ f \in [DOMAIN f -> T]
    BY PartialFunctionElim
  <1>2. Without(f, id) = [x \in DOMAIN f \ {id} |-> f[x]]
    BY DEF Without, Restrict
  <1>3. Without(f, id) \in [DOMAIN f \ {id} -> T] /\ DOMAIN f \ {id} \in SUBSET Id
    BY <1>1, <1>2
  <1>4. /\ Without(f, id) \in PartialFunctions(Id, T)
        /\ DOMAIN Without(f, id) = DOMAIN f \ {id}
    BY <1>3, PartialFunctionIntro
  <1>5. IsFiniteSet(DOMAIN f)
    BY <1>1, FS_Subset, RegistryAssumption
  <1>6. /\ Cardinality(DOMAIN f \ {id}) <= Cardinality(DOMAIN f)
        /\ Cardinality(DOMAIN f) \in Nat /\ Cardinality(DOMAIN f \ {id}) \in Nat
    BY <1>5, FS_Subset, FS_CardinalityType
  <1>7. Cardinality(DOMAIN f \ {id}) <= MaxClients
    BY <1>6, RegistryAssumption
  <1> QED BY <1>4, <1>7

\* Adding an id to a partial function that is not full leaves it within
\* bounds; so does exchanging one id for another.
LEMMA WithinBounds ==
    ASSUME NEW D \in SUBSET Id, NEW id \in Id, Cardinality(D) <= MaxClients
    PROVE  /\ id \in D \/ Cardinality(D) < MaxClients
              => Cardinality(D \union {id}) <= MaxClients
           /\ \A old \in D : Cardinality((D \ {old}) \union {id}) <= MaxClients
  <1>1. IsFiniteSet(D) /\ Cardinality(D) \in Nat
    BY FS_Subset, FS_CardinalityType, RegistryAssumption
  <1>2. id \in D \/ Cardinality(D) < MaxClients
        => Cardinality(D \union {id}) <= MaxClients
    <2>1. Cardinality(D \union {id}) = IF id \in D THEN Cardinality(D)
                                                  ELSE Cardinality(D) + 1
      BY <1>1, FS_AddElement
    <2> QED BY <1>1, <2>1, RegistryAssumption
  <1>3. ASSUME NEW old \in D
        PROVE  Cardinality((D \ {old}) \union {id}) <= MaxClients
    <2>1. /\ IsFiniteSet(D \ {old})
          /\ Cardinality(D \ {old}) = Cardinality(D) - 1
          /\ Cardinality(D \ {old}) \in Nat
      BY <1>1, FS_RemoveElement, FS_CardinalityType
    <2>2. Cardinality((D \ {old}) \union {id})
              = IF id \in D \ {old} THEN Cardinality(D \ {old})
                                    ELSE Cardinality(D \ {old}) + 1
      BY <2>1, FS_AddElement
    <2> QED BY <1>1, <2>1, <2>2, RegistryAssumption
  <1> QED BY <1>2, <1>3

\* client_registry_update's entry: the registry stays one, and nobody but
\* the id it is called for comes or goes.
LEMMA EnteredKeeps ==
    ASSUME NEW reg \in PartialFunctions(Id, Entry),
           Cardinality(DOMAIN reg) <= MaxClients,
           NEW id \in Id, NEW name \in Name \union {NoName},
           NEW ip \in Ip \union {NoIp}, NEW overwrite \in BOOLEAN
    PROVE  LET res == Entered(reg, id, name, ip, overwrite)
           IN /\ res \in PartialFunctions(Id, Entry)
              /\ Cardinality(DOMAIN res) <= MaxClients
              /\ DOMAIN reg \subseteq DOMAIN res
              /\ DOMAIN res \subseteq DOMAIN reg \union {id}
  <1> DEFINE e == IF id \in DOMAIN reg THEN reg[id] ELSE NewEntry
             new == [ip    |-> IF ip # NoIp THEN ip ELSE e.ip,
                     name  |-> IF name # NoName /\ (overwrite \/ e.name = NoName)
                               THEN name ELSE e.name,
                     basic |-> e.basic]
             more == [x \in DOMAIN reg \union {id} |->
                          IF x = id THEN new ELSE reg[x]]
             full == id \notin DOMAIN reg /\ Cardinality(DOMAIN reg) >= MaxClients
  <1>1. DOMAIN reg \subseteq Id /\ reg \in [DOMAIN reg -> Entry]
    BY PartialFunctionElim
  <1>2. Entered(reg, id, name, ip, overwrite) = IF full THEN reg ELSE more
    BY DEF Entered
  <1>3. e \in Entry
    BY <1>1 DEF NewEntry, Entry
  <1>4. new \in Entry
    BY <1>3 DEF Entry
  <1> HIDE DEF e, new
  <1>5. more \in [DOMAIN reg \union {id} -> Entry]
    BY <1>1, <1>4
  <1>6. /\ more \in PartialFunctions(Id, Entry)
        /\ DOMAIN more = DOMAIN reg \union {id}
    BY <1>1, <1>5, PartialFunctionIntro
  <1> HIDE DEF more
  <1>7. ~full => Cardinality(DOMAIN reg \union {id}) <= MaxClients
    <2>1. Cardinality(DOMAIN reg) \in Nat
      BY <1>1, FS_Subset, FS_CardinalityType, RegistryAssumption
    <2> QED BY <1>1, <2>1, WithinBounds, RegistryAssumption
  <1> HIDE DEF full
  <1> QED BY <1>2, <1>6, <1>7

\* A file is moved whole: afterwards no id has a file that did not before,
\* except the new one, and the new one has all of the old one's records.
LEMMA RenamedMoves ==
    ASSUME NEW fs \in [Id -> SUBSET Record], NEW old \in Id, NEW new \in Id,
           old # new
    PROVE  LET res == Renamed(fs, old, new)
           IN /\ res \in [Id -> SUBSET Record]
              /\ res[old] = {}
              /\ fs[old] \subseteq res[new]
              /\ res[new] \subseteq fs[old] \union fs[new]
              /\ \A id \in Id \ {old, new} : res[id] = fs[id]
  BY DEF Renamed

\* A move leaves the other files alone, and the old id without a file and the new
\* one with its records, unless it fails.
LEMMA MovedKeeps ==
    ASSUME NEW fs \in [Id -> SUBSET Record], NEW old \in Id, NEW new \in Id,
           old # new, unmoved \subseteq Id, Moved(fs, old, new)
    PROVE  /\ files' \in [Id -> SUBSET Record]
           /\ unmoved' \subseteq Id /\ Unlisted \subseteq unmoved'
           /\ \A id \in Id \ {old, new} : files'[id] = fs[id]
           /\ old \notin unmoved' => files'[old] = {} /\ fs[old] \subseteq files'[new]
           /\ "file_error" \notin Events => files' = Renamed(fs, old, new)
  <1>1. Unlisted \subseteq Id
    BY DEF Unlisted
  <1>2. CASE files' = Renamed(fs, old, new) /\ unmoved' = Unlisted
    BY <1>1, <1>2, RenamedMoves
  <1>3. CASE /\ "file_error" \in Events /\ files' \in MisRenamed(fs, old, new)
             /\ unmoved' = Unlisted \union {old}
    <2>1. CASE files' = fs
      BY <1>1, <1>3, <2>1
    <2>2. ASSUME NEW part \in SUBSET fs[old], NEW rest \in {{}, fs[old]},
                 files' = [fs EXCEPT ![new] = part, ![old] = rest]
          PROVE  /\ files' \in [Id -> SUBSET Record]
                 /\ \A id \in Id \ {old, new} : files'[id] = fs[id]
      BY <2>2
    <2> QED BY <1>1, <1>3, <2>1, <2>2 DEF MisRenamed
  <1> QED BY <1>2, <1>3 DEF Moved

\* What client_registry_update leaves: a file that is there was there before,
\* under an id that is still registered if it was; and only the file of an id
\* unknown to the registry may have been overwritten, unless a move failed.
UpdateOutcome(fs, id, ip) ==
    /\ clients' \in PartialFunctions(Id, Entry)
    /\ Cardinality(DOMAIN clients') <= MaxClients
    /\ mappings' \in PartialFunctions(Id, Id)
    /\ Cardinality(DOMAIN mappings') <= MaxClients
    /\ files' \in [Id -> SUBSET Record] /\ unmoved' \subseteq Id
    /\ \A x \in Id \ {id} : files'[x] # {} =>
          /\ fs[x] # {}
          /\ x \in DOMAIN clients \union unmoved => x \in DOMAIN clients' \union unmoved'
    /\ \A x \in Id \ unmoved' : x # id \/ id \in DOMAIN clients =>
          \E y \in Id : fs[x] \subseteq files'[y]
    /\ ip = NoIp => /\ files' = fs /\ DOMAIN clients \subseteq DOMAIN clients'
                    /\ unmoved' = Unlisted

\* client_registry_update keeps the tables within their room and the files tracked.
LEMMA UpdateKeeps ==
    ASSUME TypeOK
    PROVE  \A fs \in [Id -> SUBSET Record], id \in Id,
              name \in Name \union {NoName}, ip \in Ip \union {NoIp},
              overwrite \in BOOLEAN :
                Update(fs, id, name, ip, overwrite) => UpdateOutcome(fs, id, ip)
  <1> SUFFICES ASSUME NEW fs \in [Id -> SUBSET Record], NEW id \in Id,
                      NEW name \in Name \union {NoName},
                      NEW ip \in Ip \union {NoIp}, NEW overwrite \in BOOLEAN,
                      Update(fs, id, name, ip, overwrite)
               PROVE  UpdateOutcome(fs, id, ip)
    OBVIOUS
  <1>0. unmoved \subseteq Id
    BY DEF TypeOK
  <1>1. CASE /\ Bound(id, ip) = {}
             /\ files' = fs
             /\ clients' = Entered(clients, id, name, ip, overwrite)
             /\ unmoved' = Unlisted
             /\ UNCHANGED mappings
    <2>1. /\ clients' \in PartialFunctions(Id, Entry)
          /\ Cardinality(DOMAIN clients') <= MaxClients
          /\ DOMAIN clients \subseteq DOMAIN clients'
      BY <1>1, EnteredKeeps DEF TypeOK
    <2> QED BY <1>0, <1>1, <2>1 DEF TypeOK, UpdateOutcome, Unlisted
  <1>2. ASSUME NEW old \in Bound(id, ip),
               Moved(fs, old, id),
               clients' = Entered(Without(clients, old), id, name, ip, overwrite),
               mappings' = Without(mappings, old)
        PROVE  UpdateOutcome(fs, id, ip)
    <2>1. /\ old \in DOMAIN clients /\ id \notin DOMAIN clients
          /\ old # id /\ old \in Id /\ ip # NoIp
      BY <1>2, PartialFunctionElim DEF Bound, TypeOK
    <2>2. /\ Without(clients, old) \in PartialFunctions(Id, Entry)
          /\ DOMAIN Without(clients, old) = DOMAIN clients \ {old}
          /\ Cardinality(DOMAIN Without(clients, old)) <= MaxClients
      BY WithoutShrinks DEF TypeOK
    <2>3. /\ clients' \in PartialFunctions(Id, Entry)
          /\ Cardinality(DOMAIN clients') <= MaxClients
          /\ DOMAIN clients \ {old} \subseteq DOMAIN clients'
      BY <1>2, <2>2, EnteredKeeps
    <2>4. /\ mappings' \in PartialFunctions(Id, Id)
          /\ Cardinality(DOMAIN mappings') <= MaxClients
      BY <1>2, WithoutShrinks DEF TypeOK
    <2>5. /\ files' \in [Id -> SUBSET Record]
          /\ unmoved' \subseteq Id /\ Unlisted \subseteq unmoved'
          /\ old \notin unmoved' => files'[old] = {} /\ fs[old] \subseteq files'[id]
          /\ \A x \in Id \ {old, id} : files'[x] = fs[x]
      BY <1>0, <1>2, <2>1, MovedKeeps
    <2>6. ASSUME NEW x \in Id \ {id}, files'[x] # {}
          PROVE  /\ fs[x] # {}
                 /\ x \in DOMAIN clients \union unmoved =>
                        x \in DOMAIN clients' \union unmoved'
      <3>1. x \in unmoved => x \in DOMAIN clients' \union unmoved'
        BY <2>5, <2>6 DEF Unlisted
      <3>2. x \in DOMAIN clients => x \in DOMAIN clients' \union unmoved'
        BY <2>3, <2>5, <2>6
      <3>3. fs[x] # {}
        <4>1. CASE x = old
          BY <1>2, <2>1, <2>6, <4>1 DEF Moved, Renamed
        <4>2. CASE x # old
          BY <2>5, <2>6, <4>2
        <4> QED BY <4>1, <4>2
      <3> QED BY <3>1, <3>2, <3>3
    <2>7. ASSUME NEW x \in Id \ unmoved', x # id
          PROVE  \E y \in Id : fs[x] \subseteq files'[y]
      BY <2>1, <2>5, <2>7
    <2> QED BY <2>1, <2>3, <2>4, <2>5, <2>6, <2>7 DEF UpdateOutcome
  <1> QED BY <1>1, <1>2 DEF Update

-----------------------------------------------------------------------------
\* Every record stored is still stored, unless its id was refused or its file
\* could not be moved.
RecordsKept ==
    \A id \in Id \ (refused \union unmoved \union unmoved') : files[id] \subseteq Stored'

\* What an upload does to the server, whatever becomes of its answer.
LEMMA ReceivedKeeps ==
    ASSUME TypeOK, FilesTracked, NEW d \in Device, Received(d)
    PROVE  /\ clients' \in PartialFunctions(Id, Entry)
           /\ Cardinality(DOMAIN clients') <= MaxClients
           /\ mappings' \in PartialFunctions(Id, Id)
           /\ Cardinality(DOMAIN mappings') <= MaxClients
           /\ files' \in [Id -> SUBSET Record]
           /\ refused' \subseteq Id /\ unmoved' \subseteq Id
           /\ FilesTracked'
           /\ RecordsKept
  <1> DEFINE s == devices[d]
             fs == [files EXCEPT ![s.id] = @ \union s.pending]
  <1>1. /\ s.id \in Id /\ s.name \in Name \union {NoName}
        /\ s.ip \in Ip \union {NoIp} /\ s.pending \subseteq Record
    BY DEF TypeOK, DeviceState
  <1>2. /\ fs \in [Id -> SUBSET Record]
        /\ \A x \in Id : files[x] \subseteq fs[x]
        /\ \A x \in Id \ {s.id} : fs[x] = files[x]
    BY <1>1 DEF TypeOK
  <1>3. /\ Update(fs, s.id, s.name, s.ip, FALSE)
        /\ refused' = {id \in refused \union {s.id} :
                           id \notin DOMAIN clients' /\ files'[id] # {}}
    BY DEF Received
  <1> HIDE DEF s, fs
  <1>4. UpdateOutcome(fs, s.id, s.ip)
    BY <1>1, <1>2, <1>3, UpdateKeeps
  <1>5. refused' \subseteq Id
    BY <1>1, <1>3 DEF TypeOK
  <1>6. ASSUME NEW x \in Id, files'[x] # {}
        PROVE  x \in DOMAIN clients' \union refused' \union unmoved'
    <2>1. CASE x = s.id
      BY <1>3, <1>6, <2>1
    <2>2. CASE x # s.id
      <3>1. /\ files[x] # {}
            /\ x \in DOMAIN clients \union unmoved => x \in DOMAIN clients' \union unmoved'
        BY <1>2, <1>4, <1>6, <2>2 DEF UpdateOutcome
      <3>2. x \in DOMAIN clients \union refused \union unmoved
        BY <3>1 DEF FilesTracked
      <3> QED BY <1>3, <1>6, <3>1, <3>2
    <2> QED BY <2>1, <2>2
  <1>7. FilesTracked'
    BY <1>6 DEF FilesTracked
  <1>8. RecordsKept
    <2>1. ASSUME NEW x \in Id \ (refused \union unmoved \union unmoved'),
                 NEW r \in files[x]
          PROVE  \E y \in Id : r \in files'[y]
      <3>1. x \in DOMAIN clients
        BY <2>1 DEF FilesTracked
      <3>2. PICK y \in Id : fs[x] \subseteq files'[y]
        BY <1>4, <2>1, <3>1 DEF UpdateOutcome
      <3> QED BY <1>2, <2>1, <3>2
    <2> QED BY <2>1 DEF RecordsKept, Stored
  <1> QED BY <1>4, <1>5, <1>7, <1>8 DEF UpdateOutcome

-----------------------------------------------------------------------------
\* The invariant: types, and every file under an id that is registered, was
\* refused, or could not give its file up.
RegistryInv == TypeOK /\ FilesTracked

\* One step from it: the invariant again, and no record is lost unless the step
\* deletes.
RegistryStep == RegistryInv' /\ (~Deletes => RecordsKept)

\* A step that leaves the files and the set of registered ids alone.
LEMMA FilesUntouched ==
    ASSUME RegistryInv, TypeOK', UNCHANGED files,
           DOMAIN clients \subseteq DOMAIN clients',
           refused \subseteq refused' \union DOMAIN clients',
           \A x \in unmoved : files[x] # {} => x \in unmoved' \union DOMAIN clients'
    PROVE  RegistryStep
  BY DEF RegistryInv, RegistryStep, FilesTracked, RecordsKept, Stored

\* An upload, with whatever takeover it brings, keeps the invariant.
LEMMA UploadStep ==
    ASSUME RegistryInv, NEW d \in Device, UploadApplied(d) \/ UploadUnread(d)
    PROVE  RegistryStep
  <1>1. /\ TypeOK /\ FilesTracked /\ Received(d)
        /\ UNCHANGED <<made, erased, requests>>
    BY DEF RegistryInv, UploadApplied, UploadUnread
  <1>2. /\ clients' \in PartialFunctions(Id, Entry)
        /\ Cardinality(DOMAIN clients') <= MaxClients
        /\ mappings' \in PartialFunctions(Id, Id)
        /\ Cardinality(DOMAIN mappings') <= MaxClients
        /\ files' \in [Id -> SUBSET Record]
        /\ refused' \subseteq Id /\ unmoved' \subseteq Id
        /\ FilesTracked'
        /\ RecordsKept
    BY <1>1, ReceivedKeeps
  <1>3. devices[d] \in DeviceState
    BY <1>1 DEF TypeOK
  <1>4. resolve_id(mappings', devices[d].id) \in Id
    BY <1>2, <1>3, PartialFunctionElim DEF resolve_id, DeviceState
  <1>5. Configured(devices[d]) \in DeviceState
    <2> DEFINE id == resolve_id(mappings', devices[d].id)
               e == IF id \in DOMAIN clients' THEN clients'[id] ELSE NewEntry
    <2>0. clients' \in [DOMAIN clients' -> Entry]
      BY <1>2, PartialFunctionElim
    <2>1. e \in Entry
      BY <2>0 DEF Entry, NewEntry
    <2> QED BY <1>3, <1>4, <2>1 DEF Configured, DeviceState, Entry
  <1>6. /\ devices' \in [Device -> DeviceState]
        /\ acked' \subseteq Record
    <2>1. devices \in [Device -> DeviceState] /\ acked \subseteq Record
      BY <1>1 DEF TypeOK
    <2>2. CASE UploadApplied(d)
      BY <1>3, <1>5, <2>1, <2>2 DEF UploadApplied, DeviceState
    <2>3. CASE UploadUnread(d)
      BY <1>3, <2>1, <2>3 DEF UploadUnread, DeviceState
    <2> QED BY <2>2, <2>3
  <1>7. TypeOK'
    BY <1>1, <1>2, <1>6 DEF TypeOK
  <1> QED BY <1>2, <1>7 DEF RegistryInv, RegistryStep

\* Steps of a logger alone leave the registry as it is.
LEMMA DeviceOnlyStep ==
    ASSUME RegistryInv, NEW d \in Device, Measure(d) \/ ChangeIp(d)
    PROVE  RegistryStep
  <1>1. TypeOK
    BY DEF RegistryInv
  <1>2. /\ UNCHANGED <<clients, mappings, files, acked, erased, refused, unmoved,
                       requests>>
        /\ made' \in [Device -> 0 .. MaxMade]
        /\ devices' \in [Device -> DeviceState]
    <2>1. CASE Measure(d)
      <3>1. made[d] + 1 \in 1 .. MaxMade /\ made'[d] = made[d] + 1
        BY <1>1, <2>1, RegistryAssumption DEF Measure, TypeOK
      <3>2. <<d, made'[d]>> \in Record
        BY <3>1 DEF Record
      <3>3. devices[d].pending \union {<<d, made'[d]>>} \in SUBSET Record
        BY <1>1, <3>2 DEF TypeOK, DeviceState
      <3>4. devices' \in [Device -> DeviceState]
        BY SMTT(30), <1>1, <2>1, <3>3 DEF Measure, TypeOK, DeviceState
      <3>5. made' \in [Device -> 0 .. MaxMade]
        BY <1>1, <2>1, <3>1, RegistryAssumption DEF Measure, TypeOK
      <3> QED BY <2>1, <3>4, <3>5 DEF Measure
    <2>2. CASE ChangeIp(d)
      BY SMTT(30), <1>1, <2>2 DEF ChangeIp, TypeOK, DeviceState
    <2> QED BY <2>1, <2>2
  <1>3. TypeOK'
    BY <1>1, <1>2 DEF TypeOK
  <1> QED BY <1>2, <1>3, FilesUntouched

\* Requests of the user are counted up to their bound.
LEMMA RequestCounted == ASSUME TypeOK, Request PROVE requests' \in 0 .. MaxRequests
  BY RegistryAssumption DEF TypeOK, Request

\* A rename by the user moves one file to an id that is free.
LEMMA ClientIdPostStep ==
    ASSUME RegistryInv, NEW id \in Id, NEW new \in Id, ClientIdPost(id, new)
    PROVE  RegistryStep
  <1> DEFINE old == resolve_id(mappings, id)
  <1>1. TypeOK /\ FilesTracked
    BY DEF RegistryInv
  <1>2. /\ clients \in [DOMAIN clients -> Entry] /\ DOMAIN clients \subseteq Id
        /\ mappings \in [DOMAIN mappings -> Id] /\ DOMAIN mappings \subseteq Id
        /\ Cardinality(DOMAIN clients) <= MaxClients
        /\ Cardinality(DOMAIN mappings) <= MaxClients
    BY <1>1, PartialFunctionElim DEF TypeOK
  <1>3. /\ old \in DOMAIN clients /\ old \in Id
        /\ new \notin DOMAIN clients /\ old # new
        /\ old \in DOMAIN mappings \/ Cardinality(DOMAIN mappings) < MaxClients
    BY <1>2 DEF ClientIdPost
  <1>4. /\ mappings' = [x \in DOMAIN mappings \union {old} |->
                             IF x = old THEN new ELSE mappings[x]]
        /\ clients' = [x \in (DOMAIN clients \ {old}) \union {new} |->
                            IF x = new THEN clients[old] ELSE clients[x]]
        /\ Moved(files, old, new)
        /\ refused' = refused \ {new}
        /\ requests' \in 0 .. MaxRequests
        /\ UNCHANGED <<devices, made, acked, erased>>
    BY <1>1, RequestCounted DEF ClientIdPost
  <1> HIDE DEF old
  <1>5. /\ mappings' \in PartialFunctions(Id, Id)
        /\ Cardinality(DOMAIN mappings') <= MaxClients
    <2>1. mappings' \in [DOMAIN mappings \union {old} -> Id]
      BY <1>2, <1>4
    <2>2. /\ mappings' \in PartialFunctions(Id, Id)
          /\ DOMAIN mappings' = DOMAIN mappings \union {old}
      BY ZenonT(40), <1>2, <1>3, <2>1, PartialFunctionIntro
    <2> QED BY <1>2, <1>3, <2>2, WithinBounds
  <1>6. /\ clients' \in PartialFunctions(Id, Entry)
        /\ DOMAIN clients' = (DOMAIN clients \ {old}) \union {new}
        /\ Cardinality(DOMAIN clients') <= MaxClients
    <2>1. clients' \in [(DOMAIN clients \ {old}) \union {new} -> Entry]
      BY <1>2, <1>3, <1>4
    <2>2. /\ clients' \in PartialFunctions(Id, Entry)
          /\ DOMAIN clients' = (DOMAIN clients \ {old}) \union {new}
      BY <1>2, <2>1, PartialFunctionIntro
    <2> QED BY <1>2, <1>3, <2>2, WithinBounds
  <1>7. /\ files' \in [Id -> SUBSET Record]
        /\ unmoved' \subseteq Id /\ Unlisted \subseteq unmoved'
        /\ old \notin unmoved' => files'[old] = {} /\ files[old] \subseteq files'[new]
        /\ \A x \in Id \ {old, new} : files'[x] = files[x]
    BY <1>1, <1>3, <1>4, MovedKeeps DEF TypeOK
  <1>8. TypeOK'
    BY <1>1, <1>4, <1>5, <1>6, <1>7 DEF TypeOK
  <1>9. FilesTracked'
    <2> SUFFICES ASSUME NEW x \in Id, files'[x] # {}
                 PROVE  x \in DOMAIN clients' \union refused' \union unmoved'
      BY DEF FilesTracked
    <2>1. CASE x \in {old, new}
      BY <1>6, <1>7, <2>1
    <2>2. CASE x \notin {old, new}
      <3>1. x \in DOMAIN clients \union refused \union unmoved
        BY <1>1, <1>7, <2>2 DEF FilesTracked
      <3>2. x \in unmoved => x \in DOMAIN clients' \union unmoved'
        BY <1>7 DEF Unlisted
      <3> QED BY <1>4, <1>6, <2>2, <3>1, <3>2
    <2> QED BY <2>1, <2>2
  <1>10. RecordsKept
    <2>1. \A x \in Id \ (refused \union unmoved) : x = new => files[x] = {}
      BY <1>1, <1>3 DEF FilesTracked
    <2> QED BY <1>3, <1>7, <2>1 DEF RecordsKept, Stored
  <1> QED BY <1>8, <1>9, <1>10 DEF RegistryInv, RegistryStep

\* A name, for a client that may be new.
LEMMA ClientNameStep ==
    ASSUME RegistryInv, NEW id \in Id, NEW name \in Name, ClientNameGet(id, name)
    PROVE  RegistryStep
  <1> DEFINE resolved == resolve_id(mappings, id)
  <1>1. /\ TypeOK
        /\ Update(files, resolved, name, NoIp, TRUE)
        /\ refused' = refused \ DOMAIN clients'
        /\ requests' \in 0 .. MaxRequests
        /\ UNCHANGED <<devices, made, acked, erased>>
    BY RequestCounted DEF ClientNameGet, RegistryInv
  <1>2. /\ resolved \in Id /\ files \in [Id -> SUBSET Record]
        /\ name \in Name \union {NoName} /\ NoIp \in Ip \union {NoIp}
    BY <1>1, PartialFunctionElim DEF resolve_id, TypeOK
  <1> HIDE DEF resolved
  <1>3. UpdateOutcome(files, resolved, NoIp)
    BY <1>1, <1>2, UpdateKeeps
  <1>4. TypeOK'
    BY <1>1, <1>3 DEF TypeOK, UpdateOutcome
  <1> QED BY <1>1, <1>3, <1>4, FilesUntouched DEF UpdateOutcome, Unlisted, RegistryInv

\* A mode, for a client that may be new.
LEMMA ClientBasicModeStep ==
    ASSUME RegistryInv, NEW id \in Id, NEW value \in BOOLEAN,
           ClientBasicModePost(id, value)
    PROVE  RegistryStep
  <1> DEFINE reg == Entered(clients, id, NoName, NoIp, FALSE)
  <1>1. /\ TypeOK /\ id \in DOMAIN reg
        /\ clients' = [reg EXCEPT ![id].basic = value]
        /\ refused' = refused \ {id} /\ unmoved' = unmoved \ {id}
        /\ requests' \in 0 .. MaxRequests
        /\ UNCHANGED <<mappings, files, devices, made, acked, erased>>
    BY RequestCounted DEF ClientBasicModePost, RegistryInv
  <1>2. /\ reg \in PartialFunctions(Id, Entry)
        /\ Cardinality(DOMAIN reg) <= MaxClients
        /\ DOMAIN clients \subseteq DOMAIN reg
    BY <1>1, EnteredKeeps DEF TypeOK
  <1> HIDE DEF reg
  <1>3. DOMAIN reg \subseteq Id /\ reg \in [DOMAIN reg -> Entry]
    BY <1>2, PartialFunctionElim
  <1>4. clients' \in [DOMAIN reg -> Entry] /\ DOMAIN clients' = DOMAIN reg
    BY <1>1, <1>3 DEF Entry
  <1>5. clients' \in PartialFunctions(Id, Entry)
    BY <1>3, <1>4, PartialFunctionIntro
  <1>6. TypeOK'
    BY <1>1, <1>2, <1>4, <1>5 DEF TypeOK
  <1> QED BY <1>1, <1>2, <1>4, <1>6, FilesUntouched

\* A deletion drops the entry and the file together.
LEMMA ClientDeleteStep ==
    ASSUME RegistryInv, NEW id \in Id, ClientDelete(id)
    PROVE  RegistryStep
  <1>0. Deletes
    BY DEF Deletes
  <1>1. /\ TypeOK /\ FilesTracked
        /\ clients' = Without(clients, id)
        /\ \/ files' = [files EXCEPT ![id] = {}] /\ unmoved' = unmoved
           \/ files' = files /\ unmoved' = unmoved \union {id}
        /\ erased' = erased \union files[id]
        /\ requests' \in 0 .. MaxRequests
        /\ UNCHANGED <<mappings, devices, made, acked, refused>>
    BY RequestCounted DEF ClientDelete, RegistryInv
  <1>2. /\ clients' \in PartialFunctions(Id, Entry)
        /\ DOMAIN clients' = DOMAIN clients \ {id}
        /\ Cardinality(DOMAIN clients') <= MaxClients
    BY <1>1, WithoutShrinks DEF TypeOK
  <1>3. TypeOK'
    BY <1>1, <1>2 DEF TypeOK
  <1>4. FilesTracked'
    BY <1>1, <1>2 DEF FilesTracked, TypeOK
  <1> QED BY <1>0, <1>3, <1>4 DEF RegistryInv, RegistryStep

-----------------------------------------------------------------------------
\* There is nothing to track at first.
LEMMA RegistryInit == Init => RegistryInv
  <1> SUFFICES ASSUME Init PROVE RegistryInv
    OBVIOUS
  <1>1. /\ clients \in PartialFunctions(Id, Entry) /\ DOMAIN clients = {}
        /\ mappings \in PartialFunctions(Id, Id) /\ DOMAIN mappings = {}
    <2>1. clients \in [{} -> Entry] /\ mappings \in [{} -> Id]
      BY DEF Init
    <2> QED BY <2>1, PartialFunctionIntro
  <1>2. Cardinality({}) = 0
    BY FS_EmptySet
  <1>3. devices \in [Device -> DeviceState]
    BY DEF Init, DeviceState
  <1> QED BY <1>1, <1>2, <1>3, RegistryAssumption
          DEF Init, RegistryInv, TypeOK, FilesTracked

\* Every step keeps the invariant and loses no record but by a deletion.
LEMMA RegistryNext == RegistryInv /\ [Next]_vars => [RegistryStep]_vars /\ RegistryInv'
  <1> SUFFICES ASSUME RegistryInv, [Next]_vars
               PROVE  [RegistryStep]_vars /\ RegistryInv'
    OBVIOUS
  <1>1. CASE \E d \in Device : DeviceStep(d)
    BY <1>1, UploadStep, DeviceOnlyStep DEF DeviceStep, RegistryStep
  <1>2. CASE UserStep
    BY <1>2, ClientIdPostStep, ClientNameStep, ClientBasicModeStep,
       ClientDeleteStep DEF UserStep, RegistryStep
  <1>3. CASE UNCHANGED vars
    BY <1>3 DEF RegistryInv, TypeOK, FilesTracked, vars
  <1> QED BY <1>1, <1>2, <1>3 DEF Next

\* Registry, mappings and files keep their types; neither table overflows.
THEOREM RegistryTypeOK == Spec => []TypeOK
  BY RegistryInit, RegistryNext, PTL DEF Spec, RegistryInv

\* For every registry size, set of loggers and order of requests, no file is
\* left behind under an id that is not listed, unless the full registry refused
\* it or its file could not be moved or removed.
THEOREM RegistryFilesTracked == Spec => []FilesTracked
  BY RegistryInit, RegistryNext, PTL DEF Spec, RegistryInv

\* Only a deletion loses stored records, but for those under an id the full
\* registry had refused and in files that could not be moved or were left behind.
THEOREM RegistryHistoryKept == Spec => HistoryKept
  <1>1. RegistryStep => (~Deletes => \A id \in Id \ (refused \union unmoved \union unmoved') :
                                        files[id] \subseteq Stored')
    BY DEF RegistryStep, RecordsKept
  <1> QED BY <1>1, RegistryInit, RegistryNext, PTL DEF Spec, HistoryKept

-----------------------------------------------------------------------------
\* Nobody changes address, takes another logger's id, or changes an id twice
\* before the logger has taken on the first change, and every file can be moved.
Settled ==
    Events \subseteq EventKinds \ {"ip_change", "taken_id", "impatience", "file_error"}

\* An id and another one that a pending rename in m links it to.
Linked(m, x, y) ==
    x = y \/ (x \in DOMAIN m /\ m[x] = y) \/ (y \in DOMAIN m /\ m[y] = x)

\* One rename is pending at a time, to another id.
OnePending(m) ==
    /\ \A x, y \in DOMAIN m : x = y
    /\ \A x \in DOMAIN m : m[x] # x

\* An id is that of one logger, also when it is still to learn of it.
Apart(m, dev) ==
    \A d, e \in Device, id \in Id :
        Linked(m, dev[d].id, id) /\ Linked(m, dev[e].id, id) => d = e

\* A file holds records of a logger that goes by its id.
Owned(m, dev, fs) ==
    \A id \in Id : \A r \in fs[id] : Linked(m, dev[r[1]].id, id)

\* An entry is bound to the address of the logger that goes by its id.
Attached(m, dev, reg) ==
    \A id \in DOMAIN reg : reg[id].ip # NoIp =>
        \E d \in Device : dev[d].ip = reg[id].ip /\ Linked(m, dev[d].id, id)

\* Loggers are told apart by their addresses, and upload their own records.
OwnRecords(dev) ==
    /\ \A d, e \in Device : dev[d].ip = dev[e].ip => d = e
    /\ \A d \in Device : \A r \in dev[d].pending : r[1] = d

\* Every id, file and entry belongs to one logger.
HomeInv ==
    /\ OnePending(mappings) /\ Apart(mappings, devices)
    /\ Owned(mappings, devices, files) /\ Attached(mappings, devices, clients)
    /\ OwnRecords(devices)

\* A file of one logger's records mixes none.
LEMMA HomeNotMixed == TypeOK /\ HomeInv => NotMixed
  <1> SUFFICES ASSUME TypeOK, HomeInv, NEW id \in Id,
                      NEW r \in files[id], NEW s \in files[id]
               PROVE  r[1] = s[1]
    BY DEF NotMixed
  <1>1. r[1] \in Device /\ s[1] \in Device
    BY DEF TypeOK, Record
  <1>2. Linked(mappings, devices[r[1]].id, id) /\ Linked(mappings, devices[s[1]].id, id)
    BY DEF HomeInv, Owned
  <1> QED BY <1>1, <1>2 DEF HomeInv, Apart

\* Following a pending rename leads to an id of the same logger.
LEMMA RoutedHome ==
    ASSUME NEW m, OnePending(m), NEW x, NEW z
    PROVE  Linked(m, resolve_id(m, x), z) <=> Linked(m, x, z)
  <1>1. CASE x \notin DOMAIN m
    BY <1>1 DEF resolve_id
  <1>2. CASE x \in DOMAIN m
    <2>1. resolve_id(m, x) = m[x] /\ m[x] \notin DOMAIN m
      BY <1>2 DEF resolve_id, OnePending
    <2>2. \A y \in DOMAIN m : y = x
      BY <1>2 DEF OnePending
    <2> QED BY <1>2, <2>1, <2>2 DEF Linked
  <1> QED BY <1>1, <1>2

\* Forgetting renames links no ids.
LEMMA WithoutUnlinks ==
    ASSUME NEW m, NEW old, NEW x, NEW y
    PROVE  /\ Linked(Without(m, old), x, y) => Linked(m, x, y)
           /\ Linked(m, x, y) /\ x # old /\ y # old => Linked(Without(m, old), x, y)
           /\ OnePending(m) => OnePending(Without(m, old))
  <1>1. /\ DOMAIN Without(m, old) = DOMAIN m \ {old}
        /\ \A z \in DOMAIN m \ {old} : Without(m, old)[z] = m[z]
    BY DEF Without, Restrict
  <1> QED BY <1>1 DEF Linked, OnePending

\* The entries client_registry_update leaves.
LEMMA EnteredEntries ==
    ASSUME NEW reg, NEW id, NEW name, NEW ip, NEW overwrite \in BOOLEAN,
           NEW res, res = Entered(reg, id, name, ip, overwrite)
    PROVE  /\ \A x \in DOMAIN res \ {id} : x \in DOMAIN reg /\ res[x] = reg[x]
           /\ id \in DOMAIN res /\ res[id].ip # NoIp =>
                  \/ res[id].ip = ip
                  \/ (id \in DOMAIN reg /\ res[id].ip = reg[id].ip)
  <1> DEFINE e == IF id \in DOMAIN reg THEN reg[id] ELSE NewEntry
             new == [ip    |-> IF ip # NoIp THEN ip ELSE e.ip,
                     name  |-> IF name # NoName /\ (overwrite \/ e.name = NoName)
                               THEN name ELSE e.name,
                     basic |-> e.basic]
             more == [x \in DOMAIN reg \union {id} |->
                          IF x = id THEN new ELSE reg[x]]
             full == id \notin DOMAIN reg /\ Cardinality(DOMAIN reg) >= MaxClients
  <1>1. Entered(reg, id, name, ip, overwrite) = IF full THEN reg ELSE more
    BY DEF Entered
  <1>2. /\ DOMAIN more = DOMAIN reg \union {id} /\ more[id] = new
        /\ \A x \in DOMAIN reg \ {id} : more[x] = reg[x]
    OBVIOUS
  <1>3. new.ip # NoIp => new.ip = ip \/ (id \in DOMAIN reg /\ new.ip = reg[id].ip)
    BY DEF NewEntry
  <1> HIDE DEF new, more, full
  <1> QED BY <1>1, <1>2, <1>3

\* What client_registry_update takes over for a logger is the logger's own, and
\* the rename that led to it is forgotten.
LEMMA UpdateHome ==
    ASSUME Settled, TypeOK, HomeInv, NEW d \in Device, NEW name
    PROVE  \A fs \in [Id -> SUBSET Record], overwrite \in BOOLEAN :
              /\ Update(fs, devices[d].id, name, devices[d].ip, overwrite)
              /\ Owned(mappings, devices, fs)
              => /\ OnePending(mappings') /\ Apart(mappings', devices)
                 /\ Owned(mappings', devices, files')
                 /\ Attached(mappings', devices, clients')
  <1> DEFINE id == devices[d].id
             ip == devices[d].ip
  <1> SUFFICES ASSUME NEW fs \in [Id -> SUBSET Record], NEW overwrite \in BOOLEAN,
                      Update(fs, id, name, ip, overwrite), Owned(mappings, devices, fs)
               PROVE  /\ OnePending(mappings') /\ Apart(mappings', devices)
                      /\ Owned(mappings', devices, files')
                      /\ Attached(mappings', devices, clients')
    OBVIOUS
  <1>1. /\ id \in Id /\ ip \in Ip /\ ip # NoIp
        /\ clients \in [DOMAIN clients -> Entry] /\ DOMAIN clients \subseteq Id
    BY PartialFunctionElim, RegistryAssumption DEF TypeOK, DeviceState
  <1>2. /\ OnePending(mappings) /\ Apart(mappings, devices)
        /\ Attached(mappings, devices, clients) /\ OwnRecords(devices)
    BY DEF HomeInv
  <1>3. Update(fs, id, name, ip, overwrite)
    OBVIOUS
  <1>4. /\ Owned(mappings, devices, fs)
        /\ \A x \in Id : \A r \in fs[x] : r[1] \in Device
    BY DEF Record
  <1> HIDE DEF id, ip
  <1>0. id = devices[d].id /\ ip = devices[d].ip
    BY DEF id, ip
  <1>5. ASSUME NEW reg, NEW m, NEW res, Attached(m, devices, reg),
               res = Entered(reg, id, name, ip, overwrite)
        PROVE  Attached(m, devices, res)
    <2> SUFFICES ASSUME NEW x \in DOMAIN res, res[x].ip # NoIp
                 PROVE  \E e \in Device : /\ devices[e].ip = res[x].ip
                                          /\ Linked(m, devices[e].id, x)
      BY DEF Attached
    <2>1. /\ \A y \in DOMAIN res \ {id} : y \in DOMAIN reg /\ res[y] = reg[y]
          /\ id \in DOMAIN res /\ res[id].ip # NoIp =>
                 \/ res[id].ip = ip
                 \/ (id \in DOMAIN reg /\ res[id].ip = reg[id].ip)
      BY <1>5, EnteredEntries
    <2>2. CASE x # id
      BY <1>5, <2>1, <2>2 DEF Attached
    <2>3. CASE x = id /\ res[id].ip = ip
      BY <1>0, <2>3 DEF Linked
    <2>4. CASE x = id /\ id \in DOMAIN reg /\ res[id].ip = reg[id].ip
      BY <1>5, <2>4 DEF Attached
    <2> QED BY <1>5, <2>1, <2>2, <2>3, <2>4
  <1>6. CASE /\ files' = fs
             /\ clients' = Entered(clients, id, name, ip, overwrite)
             /\ mappings' = mappings
    <2>1. Attached(mappings', devices, clients')
      BY <1>2, <1>5, <1>6
    <2> QED BY <1>2, <1>4, <1>6, <2>1
  <1>7. ASSUME NEW old \in Bound(id, ip),
               Moved(fs, old, id),
               clients' = Entered(Without(clients, old), id, name, ip, overwrite),
               mappings' = Without(mappings, old)
        PROVE  /\ OnePending(mappings') /\ Apart(mappings', devices)
               /\ Owned(mappings', devices, files')
               /\ Attached(mappings', devices, clients')
    <2>1. /\ old \in DOMAIN clients /\ id \notin DOMAIN clients /\ old # id
          /\ old \in Id /\ clients[old].ip = ip
      BY <1>1, <1>7 DEF Bound
    <2>2. Linked(mappings, id, old)
      <3>1. PICK e \in Device : devices[e].ip = ip /\ Linked(mappings, devices[e].id, old)
        BY <1>1, <1>2, <2>1 DEF Attached
      <3> QED BY <1>0, <1>2, <3>1 DEF OwnRecords
    <2>3. ASSUME NEW e \in Device, NEW x \in Id, Linked(mappings, devices[e].id, x),
                 e = d => x # old
          PROVE  Linked(mappings', devices[e].id, x)
      <3>1. CASE e = d
        BY <1>0, <1>7, <2>1, <2>3, <3>1, WithoutUnlinks
      <3>2. CASE e # d
        <4>1. ~Linked(mappings, devices[e].id, old)
          BY <1>0, <1>2, <2>1, <2>2, <3>2 DEF Apart
        <4>2. x # old /\ devices[e].id # old
          BY <2>3, <4>1 DEF Linked
        <4> QED BY <1>7, <2>3, <4>2, WithoutUnlinks
      <3> QED BY <3>1, <3>2
    <2>4. OnePending(mappings') /\ Apart(mappings', devices)
      BY <1>2, <1>7, WithoutUnlinks DEF Apart
    <2>5. Owned(mappings', devices, files')
      <3> SUFFICES ASSUME NEW x \in Id, NEW r \in files'[x]
                   PROVE  Linked(mappings', devices[r[1]].id, x)
        BY DEF Owned
      <3>1. /\ files'[old] = {} /\ files'[id] \subseteq fs[old] \union fs[id]
            /\ \A y \in Id \ {old, id} : files'[y] = fs[y]
            /\ fs[old] # {} => files'[id] = fs[old]
        <4>1. files' = Renamed(fs, old, id)
          BY <1>7 DEF Moved, Settled
        <4> QED BY <1>1, <1>3, <2>1, <4>1, RenamedMoves DEF Renamed
      <3>2. CASE x = id
        <4>1. r[1] \in Device /\ Linked(mappings, devices[r[1]].id, id)
          <5>1. CASE r \in fs[id]
            BY <1>1, <1>4, <5>1 DEF Owned
          <5>2. CASE r \in fs[old]
            <6>1. r[1] \in Device /\ Linked(mappings, devices[r[1]].id, old)
              BY <1>4, <2>1, <5>2 DEF Owned
            <6>2. r[1] = d
              BY <1>0, <1>2, <2>1, <2>2, <6>1 DEF Apart
            <6> QED BY <1>0, <6>2 DEF Linked
          <5> QED BY <3>1, <3>2, <5>1, <5>2
        <4> QED BY <1>1, <2>1, <2>3, <3>2, <4>1
      <3>3. CASE x # id
        <4>1. x # old /\ r \in fs[x]
          BY <3>1, <3>3
        <4> QED BY <1>4, <2>3, <4>1 DEF Owned
      <3> QED BY <3>2, <3>3
    <2>6. Attached(mappings', devices, clients')
      <3>1. /\ DOMAIN Without(clients, old) = DOMAIN clients \ {old}
            /\ \A y \in DOMAIN clients \ {old} : Without(clients, old)[y] = clients[y]
        BY DEF Without, Restrict
      <3>2. ASSUME NEW y \in DOMAIN Without(clients, old),
                   Without(clients, old)[y].ip # NoIp
            PROVE  \E e \in Device : /\ devices[e].ip = Without(clients, old)[y].ip
                                     /\ Linked(mappings', devices[e].id, y)
        <4>1. y \in DOMAIN clients \ {old} /\ y \in Id /\ clients[y].ip # NoIp
          BY <1>1, <3>1, <3>2
        <4>2. PICK e \in Device : /\ devices[e].ip = clients[y].ip
                                  /\ Linked(mappings, devices[e].id, y)
          BY <1>2, <4>1 DEF Attached
        <4>3. Linked(mappings', devices[e].id, y)
          BY <2>3, <4>1, <4>2
        <4> QED BY <3>1, <4>1, <4>2, <4>3
      <3>3. Attached(mappings', devices, Without(clients, old))
        BY <3>2 DEF Attached
      <3> QED BY <1>5, <1>7, <3>3
    <2> QED BY <2>4, <2>5, <2>6
  <1> QED BY <1>3, <1>6, <1>7 DEF Update

\* An upload gives the records to the logger's own file.
LEMMA UploadHome ==
    ASSUME Settled, TypeOK, HomeInv, NEW d \in Device, Received(d)
    PROVE  /\ OnePending(mappings') /\ Apart(mappings', devices)
           /\ Owned(mappings', devices, files')
           /\ Attached(mappings', devices, clients')
  <1> DEFINE id == devices[d].id
             fs == [files EXCEPT ![id] = @ \union devices[d].pending]
  <1>1. /\ id \in Id
        /\ fs \in [Id -> SUBSET Record]
        /\ \A x \in Id : \A r \in fs[x] :
               r \in files[x] \/ (x = id /\ r \in devices[d].pending)
    BY DEF TypeOK, DeviceState
  <1>2. Update(fs, id, devices[d].name, devices[d].ip, FALSE)
    BY DEF Received
  <1>3. Owned(mappings, devices, fs)
    BY <1>1 DEF HomeInv, Owned, OwnRecords, Linked
  <1> HIDE DEF fs
  <1> QED BY <1>1, <1>2, <1>3, UpdateHome

\* An upload, whether its answer is read or not.
LEMMA UploadHomeStep ==
    ASSUME Settled, TypeOK, HomeInv, NEW d \in Device,
           UploadApplied(d) \/ UploadUnread(d)
    PROVE  HomeInv'
  <1>1. /\ OnePending(mappings') /\ Apart(mappings', devices)
        /\ Owned(mappings', devices, files')
        /\ Attached(mappings', devices, clients')
    BY UploadHome DEF UploadApplied, UploadUnread
  <1>2. /\ OwnRecords(devices)
        /\ devices \in [Device -> DeviceState] /\ devices[d] \in DeviceState
    BY DEF HomeInv, TypeOK
  <1>3. /\ DOMAIN devices' = Device
        /\ \A e \in Device : /\ devices'[e].ip = devices[e].ip
                             /\ devices'[e].pending \subseteq devices[e].pending
                             /\ \/ devices'[e].id = devices[e].id
                                \/ devices'[e].id = resolve_id(mappings', devices[e].id)
    <2>1. CASE devices' = [devices EXCEPT ![d] = Configured(@)]
      <3>1. /\ Configured(devices[d]).ip = devices[d].ip
            /\ Configured(devices[d]).pending = {}
            /\ Configured(devices[d]).id = resolve_id(mappings', devices[d].id)
        BY <1>2 DEF Configured, DeviceState
      <3> QED BY <1>2, <2>1, <3>1
    <2>2. CASE devices' = [devices EXCEPT ![d].pending = {}]
      BY <1>2, <2>2 DEF DeviceState
    <2>3. CASE UNCHANGED devices
      BY <1>2, <2>3
    <2> QED BY <2>1, <2>2, <2>3 DEF UploadApplied, UploadUnread
  <1>4. \A e \in Device : \A z :
            Linked(mappings', devices'[e].id, z) <=> Linked(mappings', devices[e].id, z)
    BY <1>1, <1>3, RoutedHome
  <1>5. OwnRecords(devices')
    BY <1>2, <1>3 DEF OwnRecords
  <1>6. Apart(mappings', devices')
    BY <1>1, <1>4 DEF Apart
  <1>7. Owned(mappings', devices', files')
    <2>1. files' \in [Id -> SUBSET Record]
      <3>1. Received(d) /\ devices[d].id \in Id
        BY <1>2 DEF UploadApplied, UploadUnread, DeviceState
      <3>2. [files EXCEPT ![devices[d].id] = @ \union devices[d].pending]
                \in [Id -> SUBSET Record]
        BY <1>2, <3>1 DEF TypeOK, DeviceState
      <3>3. /\ devices[d].name \in Name \union {NoName}
            /\ devices[d].ip \in Ip \union {NoIp}
        BY <1>2 DEF DeviceState
      <3> QED BY <3>1, <3>2, <3>3, UpdateKeeps DEF Received, UpdateOutcome
    <2>2. \A id \in Id : \A r \in files'[id] : r[1] \in Device
      BY <2>1 DEF Record
    <2> QED BY <1>1, <1>4, <2>2 DEF Owned
  <1>8. Attached(mappings', devices', clients')
    BY <1>1, <1>3, <1>4 DEF Attached
  <1> QED BY <1>1, <1>5, <1>6, <1>7, <1>8 DEF HomeInv

\* A record measured is the logger's own.
LEMMA MeasureHome ==
    ASSUME TypeOK, HomeInv, NEW d \in Device, Measure(d)
    PROVE  HomeInv'
  <1>1. /\ UNCHANGED <<clients, mappings, files>>
        /\ devices' = [devices EXCEPT ![d].pending = @ \union {<<d, made'[d]>>}]
        /\ devices \in [Device -> DeviceState]
    BY DEF Measure, TypeOK
  <1>2. /\ DOMAIN devices' = Device
        /\ \A e \in Device : /\ devices'[e].ip = devices[e].ip
                             /\ devices'[e].id = devices[e].id
                             /\ \A r \in devices'[e].pending :
                                    r \in devices[e].pending \/ r[1] = e
    BY <1>1 DEF DeviceState
  <1>3. \A id \in Id : \A r \in files[id] : r[1] \in Device
    BY DEF TypeOK, Record
  <1> QED BY <1>1, <1>2, <1>3 DEF HomeInv, Apart, Owned, Attached, OwnRecords

\* A rename, while no other is pending: the logger goes by both ids now, and
\* nobody goes by the new one yet.
LEMMA ClientIdPostHome ==
    ASSUME Settled, TypeOK, HomeInv, NEW id \in Id, NEW new \in Id, ClientIdPost(id, new)
    PROVE  HomeInv'
  <1> DEFINE old == resolve_id(mappings, id)
  <1>1. /\ old \in DOMAIN clients /\ new \notin DOMAIN clients /\ DOMAIN mappings = {}
        /\ \A d \in Device : devices[d].id = new => devices[d].ip = clients[old].ip
        /\ mappings' = [x \in DOMAIN mappings \union {old} |->
                             IF x = old THEN new ELSE mappings[x]]
        /\ clients' = [x \in (DOMAIN clients \ {old}) \union {new} |->
                            IF x = new THEN clients[old] ELSE clients[x]]
        /\ files' = Renamed(files, old, new)
        /\ devices' = devices
    BY DEF ClientIdPost, Moved, Settled
  <1>2. old = id
    BY <1>1 DEF resolve_id
  <1> HIDE DEF old
  <1>3. /\ old \in Id /\ old # new
        /\ \A x, y : Linked(mappings, x, y) <=> x = y
        /\ \A x, y : Linked(mappings', x, y) <=>
                      x = y \/ (x = old /\ y = new) \/ (x = new /\ y = old)
    <2>1. DOMAIN mappings' = {old} /\ mappings'[old] = new
      BY <1>1
    <2>2. \A x, y : (x \in {old} /\ mappings'[x] = y) <=> (x = old /\ y = new)
      BY <2>1
    <2>3. old # new
      BY <1>1
    <2> QED BY <1>1, <1>2, <2>1, <2>2, <2>3 DEF Linked
  <1>4. \A d \in Device : devices[d].id # new
    <2> SUFFICES ASSUME NEW d \in Device, devices[d].id = new
                 PROVE  FALSE
      OBVIOUS
    <2>1. devices[d].ip = clients[old].ip /\ clients[old].ip # NoIp
      BY <1>1, RegistryAssumption DEF TypeOK, DeviceState
    <2>2. PICK e \in Device : devices[e].ip = clients[old].ip /\ devices[e].id = old
      BY <1>1, <1>3, <2>1 DEF HomeInv, Attached
    <2> QED BY <1>3, <2>1, <2>2 DEF HomeInv, OwnRecords
  <1>5. OnePending(mappings')
    BY <1>1, <1>3 DEF OnePending
  <1>6. Apart(mappings', devices')
    <2>1. \A d, e \in Device : devices[d].id = devices[e].id => d = e
      BY <1>3, PartialFunctionElim DEF HomeInv, Apart, TypeOK, DeviceState
    <2>2. ASSUME NEW d \in Device, NEW x, Linked(mappings', devices[d].id, x)
          PROVE  IF x = new THEN devices[d].id = old ELSE devices[d].id = x
      <3>1. \/ devices[d].id = x \/ (devices[d].id = old /\ x = new)
            \/ (devices[d].id = new /\ x = old)
        BY <1>3, <2>2
      <3> QED BY <1>4, <3>1
    <2>3. devices' = devices
      BY <1>1
    <2>4. ASSUME NEW d \in Device, NEW e \in Device, NEW x \in Id,
                 Linked(mappings', devices[d].id, x), Linked(mappings', devices[e].id, x)
          PROVE  d = e
      <3>1. devices[d].id = devices[e].id
        BY <2>2, <2>4
      <3> QED BY <2>1, <3>1
    <2> QED BY <2>3, <2>4 DEF Apart
  <1>7. Owned(mappings', devices', files')
    <2>1. /\ \A x \in Id : \A r \in files[x] : r[1] \in Device /\ devices[r[1]].id = x
      BY <1>3 DEF TypeOK, Record, HomeInv, Owned
    <2>2. files[new] = {}
      BY <1>4, <2>1 DEF TypeOK
    <2>3. /\ files'[old] = {} /\ files'[new] \subseteq files[old] \union files[new]
          /\ \A x \in Id \ {old, new} : files'[x] = files[x]
      BY <1>1, <1>3, RenamedMoves DEF TypeOK
    <2>4. ASSUME NEW x \in Id, NEW r \in files'[x]
          PROVE  Linked(mappings', devices[r[1]].id, x)
      <3>1. CASE x = new
        BY <1>3, <2>1, <2>2, <2>3, <2>4, <3>1
      <3>2. CASE x # new
        BY <1>3, <2>1, <2>3, <2>4, <3>2
      <3> QED BY <3>1, <3>2
    <2> QED BY <1>1, <2>4 DEF Owned
  <1>8. Attached(mappings', devices', clients')
    <2>1. \A x \in DOMAIN clients : clients[x].ip # NoIp =>
              \E d \in Device : devices[d].ip = clients[x].ip /\ devices[d].id = x
      BY <1>3 DEF HomeInv, Attached
    <2>2. ASSUME NEW x \in DOMAIN clients', clients'[x].ip # NoIp
          PROVE  \E d \in Device : /\ devices[d].ip = clients'[x].ip
                                   /\ Linked(mappings', devices[d].id, x)
      <3>1. CASE x = new
        BY <1>1, <1>3, <2>1, <2>2, <3>1
      <3>2. CASE x # new
        BY <1>1, <1>3, <2>1, <2>2, <3>2
      <3> QED BY <3>1, <3>2
    <2> QED BY <1>1, <2>2 DEF Attached
  <1> QED BY <1>1, <1>5, <1>6, <1>7, <1>8 DEF HomeInv

\* A request that binds no entry to an address and moves no file.
LEMMA TableHome ==
    ASSUME TypeOK, HomeInv, UNCHANGED <<mappings, devices>>,
           \A id \in Id : files'[id] \subseteq files[id],
           \A x \in DOMAIN clients' : clients'[x].ip # NoIp =>
               x \in DOMAIN clients /\ clients'[x].ip = clients[x].ip
    PROVE  HomeInv'
  BY DEF HomeInv, Owned, Attached

\* A name neither binds an entry nor moves a file.
LEMMA ClientNameHome ==
    ASSUME TypeOK, HomeInv, NEW id \in Id, NEW name \in Name, ClientNameGet(id, name)
    PROVE  HomeInv'
  <1> DEFINE x == resolve_id(mappings, id)
  <1>1. /\ Update(files, x, name, NoIp, TRUE) /\ devices' = devices
    BY DEF ClientNameGet
  <1> HIDE DEF x
  <1>2. Bound(x, NoIp) = {}
    BY DEF Bound
  <1>3. /\ files' = files /\ mappings' = mappings
        /\ clients' = Entered(clients, x, name, NoIp, TRUE)
    BY <1>1, <1>2 DEF Update
  <1>4. \A y \in DOMAIN clients' : clients'[y].ip # NoIp =>
            y \in DOMAIN clients /\ clients'[y].ip = clients[y].ip
    BY <1>3 DEF Entered, NewEntry
  <1> QED BY <1>1, <1>3, <1>4, TableHome

\* Neither does a mode.
LEMMA ClientBasicModeHome ==
    ASSUME TypeOK, HomeInv, NEW id \in Id, NEW value \in BOOLEAN,
           ClientBasicModePost(id, value)
    PROVE  HomeInv'
  <1> DEFINE reg == Entered(clients, id, NoName, NoIp, FALSE)
  <1>1. /\ clients' = [reg EXCEPT ![id].basic = value]
        /\ UNCHANGED <<mappings, files, devices>>
    BY DEF ClientBasicModePost
  <1>2. /\ reg \in PartialFunctions(Id, Entry)
    BY EnteredKeeps DEF TypeOK
  <1>3. \A y \in DOMAIN reg : reg[y].ip # NoIp =>
            y \in DOMAIN clients /\ reg[y].ip = clients[y].ip
    BY DEF Entered, NewEntry
  <1> HIDE DEF reg
  <1>4. reg \in [DOMAIN reg -> Entry]
    BY <1>2, PartialFunctionElim
  <1>5. DOMAIN clients' = DOMAIN reg /\ \A y \in DOMAIN reg : clients'[y].ip = reg[y].ip
    BY <1>1, <1>4 DEF Entry
  <1> QED BY <1>1, <1>3, <1>5, TableHome

\* Neither does a deletion.
LEMMA ClientDeleteHome ==
    ASSUME TypeOK, HomeInv, NEW id \in Id, ClientDelete(id)
    PROVE  HomeInv'
  <1>0. clients \in [DOMAIN clients -> Entry] /\ files \in [Id -> SUBSET Record]
    BY PartialFunctionElim DEF TypeOK
  <1>1. /\ clients' = Without(clients, id)
        /\ files' = [files EXCEPT ![id] = {}] \/ files' = files
        /\ UNCHANGED <<mappings, devices>>
    BY DEF ClientDelete
  <1>2. /\ \A x \in DOMAIN clients' : x \in DOMAIN clients /\ clients'[x] = clients[x]
        /\ \A x \in Id : files'[x] \subseteq files[x]
    BY <1>0, <1>1 DEF Without, Restrict
  <1> QED BY <1>1, <1>2, TableHome

\* No two loggers' records get into one file, whatever the user and the
\* network do, for any number of loggers and any size of the registry, as long
\* as addresses stay, files can be moved, and an id is changed, to one nobody
\* has, only once the logger has taken on the last change.
THEOREM RegistryNotMixed == Settled => (Spec => []NotMixed)
  <1> SUFFICES ASSUME Settled PROVE Spec => []NotMixed
    OBVIOUS
  <1>1. Init => HomeInv
    <2> SUFFICES ASSUME Init PROVE HomeInv
      OBVIOUS
    <2>1. /\ mappings = [id \in {} |-> id] /\ clients = [id \in {} |-> NewEntry]
          /\ files = [id \in Id |-> {}]
          /\ \A d \in Device : devices[d].pending = {}
          /\ \A d, e \in Device :
                 devices[d].id = devices[e].id \/ devices[d].ip = devices[e].ip => d = e
      BY DEF Init
    <2> QED BY <2>1 DEF HomeInv, OnePending, Apart, Owned, Attached, OwnRecords, Linked
  <1>2. TypeOK /\ HomeInv /\ [Next]_vars => HomeInv'
    <2> SUFFICES ASSUME TypeOK, HomeInv, [Next]_vars PROVE HomeInv'
      OBVIOUS
    <2>1. CASE \E d \in Device : DeviceStep(d)
      <3>1. ~\E d \in Device : ChangeIp(d)
        BY DEF ChangeIp, Settled
      <3> QED BY <2>1, <3>1, UploadHomeStep, MeasureHome DEF DeviceStep
    <2>2. CASE UserStep
      <3>1. CASE \E id, new \in Id : ClientIdPost(id, new)
        BY <3>1, ClientIdPostHome
      <3>2. CASE \E id \in Id, name \in Name : ClientNameGet(id, name)
        BY <3>2, ClientNameHome
      <3>3. CASE \E id \in Id, value \in BOOLEAN : ClientBasicModePost(id, value)
        BY <3>3, ClientBasicModeHome
      <3>4. CASE \E id \in Id : ClientDelete(id)
        BY <3>4, ClientDeleteHome
      <3> QED BY <2>2, <3>1, <3>2, <3>3, <3>4 DEF UserStep
    <2>3. CASE UNCHANGED vars
      BY <2>3 DEF HomeInv, vars
    <2> QED BY <2>1, <2>2, <2>3 DEF Next
  <1> QED BY <1>1, <1>2, HomeNotMixed, RegistryTypeOK, PTL DEF Spec
=============================================================================
