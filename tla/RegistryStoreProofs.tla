------------------------ MODULE RegistryStoreProofs -------------------------
(***************************************************************************)
(* Theorems about RegistryStore, for every number of slots, loggers and ids, *)
(* and any resets, failed writes of values and failed moves of files.      *)
(***************************************************************************)
EXTENDS RegistryStore, WellFoundedInduction, SequenceTheorems, TLAPS

\* A set of numbers from 1 on that is not empty has a least element.
LEMMA LeastOf ==
    ASSUME NEW S, NEW n \in Nat, \A i \in S : i \in 1 .. n, S # {}
    PROVE  \E s \in S : \A t \in 1 .. s - 1 : t \notin S
  <1>1. S \in SUBSET Nat
    BY SMT
  <1>2. PICK s \in S : \A t \in S : ~(<<t, s>> \in OpToRel(<, Nat))
    BY <1>1, WFMin, NatLessThanWellFounded
  <1>3. \A t \in S : ~(t < s)
    BY <1>1, <1>2 DEF OpToRel
  <1>4. \A t \in 1 .. s - 1 : t < s
    BY <1>1
  <1> QED BY <1>3, <1>4

\* The parts of a registry.
LEMMA RegistryParts ==
    ASSUME NEW reg \in Registry
    PROVE  /\ reg.clients \in [Slot -> Entry] /\ reg.modes \in [Slot -> BOOLEAN]
           /\ reg.count \in 0 .. MaxClients /\ reg.count \in Nat
           /\ reg.maps \in [Slot -> Mapping]
           /\ reg.map_count \in 0 .. MaxClients /\ reg.map_count \in Nat
           /\ Used(reg) \subseteq Slot /\ MaxClients \in Nat
           /\ \A s \in Used(reg) : s \in Slot
  BY StoreAssumption DEF Registry, Used, Slot

\* The empty registry is one.
LEMMA EmptyIsRegistry == Empty \in Registry
  BY StoreAssumption DEF Empty, Registry, Entry, Mapping, NoEntry, NoMapping, Slot

\* What holds of the arrays of a registry, used or not: a slot without an id
\* has no address, and a rename that is there leads to an id.
RegOk(reg) ==
    /\ \A s \in Slot : reg.clients[s].id = NoId => reg.clients[s].ip = NoIp
    /\ \A s \in Slot : reg.maps[s].old \in Id => reg.maps[s].new \in Id

\* client_registry_get finds an id that is listed.
LEMMA GetFinds ==
    ASSUME NEW reg \in Registry, NEW id
    PROVE  /\ \A s \in Get(reg, id) : s \in Used(reg) /\ s \in Slot /\ reg.clients[s].id = id
           /\ Get(reg, id) = {} <=> id \notin Listed(reg)
           /\ Get(reg, id) = {} => \A s \in Used(reg) : reg.clients[s].id # id
  <1>1. \A s \in Get(reg, id) : s \in Used(reg) /\ s \in Slot /\ reg.clients[s].id = id
    BY RegistryParts DEF Get
  <1>2. ASSUME NEW s \in Used(reg), reg.clients[s].id = id
        PROVE  Get(reg, id) # {}
    <2> DEFINE S == {t \in Used(reg) : reg.clients[t].id = id}
    <2>1. S # {} /\ \A t \in S : t \in 1 .. reg.count
      BY <1>2 DEF Used
    <2>2. reg.count \in Nat
      BY RegistryParts
    <2>3. PICK l \in S : \A t \in 1 .. l - 1 : t \notin S
      BY <2>1, <2>2, LeastOf
    <2>4. \A t \in 1 .. l - 1 : t \in Used(reg)
      BY <2>1, <2>2, <2>3 DEF Used
    <2> QED BY <2>3, <2>4 DEF Get
  <1> QED BY <1>1, <1>2 DEF Listed

\* A pending rename of an id is in the table, and leads to an id.
LEMMA PendingFound ==
    ASSUME NEW reg \in Registry, RegOk(reg), NEW id \in Id
    PROVE  /\ \A s \in Pending(reg, id) : s \in 1 .. reg.map_count /\ s \in Slot
           /\ resolve_id(reg, id) \in Id
  <1>1. \A s \in Pending(reg, id) :
            s \in 1 .. reg.map_count /\ s \in Slot /\ reg.maps[s].old = id
    BY RegistryParts DEF Pending, Slot
  <1>2. CASE Pending(reg, id) = {}
    BY <1>1, <1>2 DEF resolve_id
  <1>3. CASE Pending(reg, id) # {}
    <2>1. (CHOOSE s \in Pending(reg, id) : TRUE) \in Pending(reg, id)
      BY <1>3
    <2> QED BY <1>1, <1>3, <2>1 DEF resolve_id, RegOk
  <1> QED BY <1>1, <1>2, <1>3

-----------------------------------------------------------------------------
\* A table in RAM against the values in flash and the requests not saved: no id
\* is listed twice, what the count in flash covers behind the table has no id,
\* and what it does not cover belongs to a request that is not saved.
Table(reg, n, T) ==
    /\ reg \in Registry /\ RegOk(reg)
    /\ \A s, t \in Used(reg) :
          reg.clients[s].id = reg.clients[t].id /\ reg.clients[s].id # NoId => s = t
    /\ \A s \in Slot : s > reg.count /\ s <= n => reg.clients[s].id = NoId
    /\ \A s \in Used(reg) : s > n => reg.clients[s].id \in T \union {NoId}

\* Every entry has an id, and the name and mode that want has for it but for
\* those lost; slots behind the table have no name.
Fits(reg, want) ==
    /\ \A s \in Used(reg) :
          /\ reg.clients[s].id \in Id
          /\ Agrees(want[reg.clients[s].id], reg.clients[s].name, reg.modes[s])
    /\ \A s \in Slot : s > reg.count => reg.clients[s].name = NoName

\* What moves up in an array, and what stays.
LEMMA ShiftedSlots ==
    ASSUME NEW f, NEW s \in Nat, NEW n \in Nat, NEW zero, NEW t \in Slot
    PROVE  /\ t < s \/ t > n => Shifted(f, s, n, zero)[t] = f[t]
           /\ s <= t /\ t = n => Shifted(f, s, n, zero)[t] = zero
           /\ s <= t /\ t < n => Shifted(f, s, n, zero)[t] = f[t + 1]
  <1>1. t \in Nat
    BY StoreAssumption DEF Slot
  <1>2. Shifted(f, s, n, zero)[t] = IF t < s \/ t > n THEN f[t]
                                    ELSE IF t = n THEN zero ELSE f[t + 1]
    BY DEF Shifted
  <1> QED BY <1>1, <1>2

\* The modes of a table after an entry was dropped.
LEMMA RemovedModes ==
    ASSUME NEW reg \in Registry, NEW s \in Used(reg), NEW r, r = Removed(reg, s)
    PROVE  /\ \A t \in Slot : t < s \/ t > reg.count => r.modes[t] = reg.modes[t]
           /\ \A t \in Slot : s <= t /\ t < reg.count => r.modes[t] = reg.modes[t + 1]
  <1>0. /\ r.modes = [t \in Slot |-> IF t < s \/ t > reg.count THEN reg.modes[t]
                         ELSE IF t = reg.count THEN TRUE ELSE reg.modes[t + 1]]
    BY DEF Removed, Registry, Shifted
  <1>2. ASSUME NEW t \in Slot, t < s \/ t > reg.count PROVE r.modes[t] = reg.modes[t]
    BY <1>0, <1>2
  <1>4. ASSUME NEW t \in Slot, s <= t, t < reg.count PROVE r.modes[t] = reg.modes[t + 1]
    <2>0. t \in Nat /\ s \in Nat /\ reg.count \in Nat
      BY RegistryParts, StoreAssumption DEF Slot, Used
    <2>1. ~(t < s \/ t > reg.count) /\ t # reg.count
      BY <2>0, <1>4
    <2> QED BY Zenon, <1>0, <2>1
  <1> QED BY <1>2, <1>4

\* An array with the type of its elements keeps it.
LEMMA ShiftedType ==
    ASSUME NEW S, NEW f \in [Slot -> S], NEW s \in Nat, NEW n \in 0 .. MaxClients,
           NEW zero \in S
    PROVE  Shifted(f, s, n, zero) \in [Slot -> S]
  <1>1. ASSUME NEW t \in Slot
        PROVE  (IF t < s \/ t > n THEN f[t] ELSE IF t = n THEN zero ELSE f[t + 1]) \in S
    BY StoreAssumption DEF Slot
  <1> QED BY <1>1 DEF Shifted

\* An entry dropped, slot by slot.
LEMMA RemovedSlots ==
    ASSUME NEW reg \in Registry, RegOk(reg), NEW s \in Used(reg)
    PROVE  LET r == Removed(reg, s)
           IN /\ r \in Registry /\ RegOk(r) /\ r.count = reg.count - 1
              /\ \A t \in Slot :
                    /\ t < s \/ t > reg.count =>
                           r.clients[t] = reg.clients[t] /\ r.modes[t] = reg.modes[t]
                    /\ t = reg.count => r.clients[t] = NoEntry
                    /\ s <= t /\ t < reg.count =>
                           /\ t + 1 \in Used(reg) /\ t + 1 \in Slot
                           /\ r.clients[t] = reg.clients[t + 1]
                           /\ r.modes[t] = reg.modes[t + 1]
  <1> DEFINE c == Shifted(reg.clients, s, reg.count, NoEntry)
             m == Shifted(reg.modes, s, reg.count, TRUE)
             r == Removed(reg, s)
  <1>1. /\ reg.clients \in [Slot -> Entry] /\ reg.modes \in [Slot -> BOOLEAN]
        /\ reg.count \in 1 .. MaxClients /\ reg.count \in 0 .. MaxClients
        /\ MaxClients \in Nat /\ s \in 1 .. reg.count /\ s \in Nat /\ reg.count \in Nat
        /\ reg.count - 1 \in 0 .. MaxClients
    BY RegistryParts DEF Used
  <1>2. NoEntry \in Entry /\ TRUE \in BOOLEAN /\ NoEntry.id = NoId /\ NoEntry.ip = NoIp
    BY DEF NoEntry, Entry
  <1>3. r = [reg EXCEPT !.clients = c, !.modes = m, !.count = reg.count - 1]
    BY DEF Removed, Registry
  <1>4. c \in [Slot -> Entry] /\ m \in [Slot -> BOOLEAN]
    BY <1>1, <1>2, ShiftedType
  <1>5. \A t \in Slot : s <= t /\ t < reg.count => t + 1 \in Slot /\ t + 1 \in Used(reg)
    BY <1>1 DEF Slot, Used
  <1>6. \A t \in Slot :
            /\ t < s \/ t > reg.count => c[t] = reg.clients[t] /\ m[t] = reg.modes[t]
            /\ t = reg.count => c[t] = NoEntry
            /\ s <= t /\ t < reg.count =>
                   c[t] = reg.clients[t + 1] /\ m[t] = reg.modes[t + 1]
    <2>1. \A t \in Slot : /\ t < s \/ t > reg.count => c[t] = reg.clients[t]
                          /\ s <= t /\ t = reg.count => c[t] = NoEntry
                          /\ s <= t /\ t < reg.count => c[t] = reg.clients[t + 1]
      BY <1>1, ShiftedSlots
    <2>2. \A t \in Slot : /\ t < s \/ t > reg.count => m[t] = reg.modes[t]
                          /\ s <= t /\ t < reg.count => m[t] = reg.modes[t + 1]
      <3>1. r.modes = m
        BY <1>3 DEF Registry
      <3>2. r = Removed(reg, s)
        OBVIOUS
      <3> HIDE DEF m, r
      <3>3. /\ \A t \in Slot : t < s \/ t > reg.count => r.modes[t] = reg.modes[t]
            /\ \A t \in Slot : s <= t /\ t < reg.count => r.modes[t] = reg.modes[t + 1]
        BY <3>2, RemovedModes
      <3> QED BY <3>1, <3>3
    <2> HIDE DEF c, m
    <2> QED BY <1>1, <2>1, <2>2
  <1> HIDE DEF c, m, r
  <1>7. /\ r \in Registry /\ r.clients = c /\ r.modes = m /\ r.count = reg.count - 1
        /\ r.maps = reg.maps
    BY <1>1, <1>3, <1>4 DEF Registry
  <1>8. RegOk(r)
    <2>1. ASSUME NEW t \in Slot, c[t].id = NoId PROVE c[t].ip = NoIp
      <3>1. t < s \/ t > reg.count \/ t = reg.count \/ (s <= t /\ t < reg.count)
        BY <1>1 DEF Slot
      <3> QED BY <1>2, <1>5, <1>6, <2>1, <3>1 DEF RegOk
    <2> QED BY <1>7, <2>1 DEF RegOk
  <1> QED BY <1>5, <1>6, <1>7, <1>8 DEF r

\* Dropping an entry keeps the table, and all others stay in it.
LEMMA RemovedTable ==
    ASSUME NEW reg, NEW n \in Nat, NEW T, Table(reg, n, T), NEW s \in Used(reg)
    PROVE  LET r == Removed(reg, s)
           IN /\ Table(r, n, T)
              /\ Listed(reg) \subseteq Listed(r) \union {reg.clients[s].id}
              /\ \A t \in Used(r) : \E u \in Used(reg) :
                     /\ u # s /\ r.clients[t] = reg.clients[u] /\ r.modes[t] = reg.modes[u]
              /\ \A want, wish : /\ Fits(reg, want)
                                 /\ \A x \in Id \ {reg.clients[s].id} : wish[x] = want[x]
                                 => Fits(r, wish)
  <1> DEFINE r == Removed(reg, s)
  <1>0. /\ reg \in Registry /\ RegOk(reg) /\ reg.count \in Nat /\ MaxClients \in Nat
        /\ s \in 1 .. reg.count /\ reg.count <= MaxClients /\ s \in Slot
        /\ Used(reg) = 1 .. reg.count
    BY RegistryParts DEF Table, Used
  <1>1. /\ r \in Registry /\ RegOk(r) /\ r.count = reg.count - 1
        /\ \A t \in Slot :
              /\ t < s \/ t > reg.count =>
                     r.clients[t] = reg.clients[t] /\ r.modes[t] = reg.modes[t]
              /\ t = reg.count => r.clients[t] = NoEntry
              /\ s <= t /\ t < reg.count =>
                     /\ t + 1 \in Used(reg) /\ t + 1 \in Slot
                     /\ r.clients[t] = reg.clients[t + 1]
                     /\ r.modes[t] = reg.modes[t + 1]
    BY <1>0, RemovedSlots
  <1> HIDE DEF r
  <1> DEFINE from(t) == IF t < s THEN t ELSE t + 1
  <1>2. ASSUME NEW t \in Used(r)
        PROVE  /\ from(t) \in Used(reg) /\ from(t) # s /\ from(t) >= t
               /\ r.clients[t] = reg.clients[from(t)] /\ r.modes[t] = reg.modes[from(t)]
    <2>1. t \in Slot /\ t \in Nat /\ t < reg.count /\ t \in Used(reg)
      BY <1>0, <1>1 DEF Used, Slot
    <2>2. CASE t < s
      BY <1>0, <1>1, <2>1, <2>2
    <2>3. CASE ~(t < s)
      BY <1>0, <1>1, <2>1, <2>3
    <2> QED BY <2>2, <2>3
  <1>3. \A t, u \in Used(r) : from(t) = from(u) => t = u
    BY <1>0, <1>1 DEF Used
  <1>4. \A u \in Used(reg) \ {s} : \E t \in Used(r) : from(t) = u
    <2> SUFFICES ASSUME NEW u \in Used(reg) \ {s} PROVE \E t \in Used(r) : from(t) = u
      OBVIOUS
    <2>1. CASE u < s
      BY <1>0, <1>1, <2>1 DEF Used
    <2>2. CASE u > s
      <3>1. u - 1 \in Used(r) /\ from(u - 1) = u
        BY <1>0, <1>1, <2>2 DEF Used
      <3> QED BY <3>1
    <2> QED BY <1>0, <2>1, <2>2
  <1> HIDE DEF from
  <1>5. Table(r, n, T)
    <2>1. \A t, u \in Used(r) :
              r.clients[t].id = r.clients[u].id /\ r.clients[t].id # NoId => t = u
      BY <1>2, <1>3 DEF Table
    <2>2. \A t \in Slot : t > r.count /\ t <= n => r.clients[t].id = NoId
      BY <1>0, <1>1 DEF Table, NoEntry, Slot
    <2>3. ASSUME NEW t \in Used(r), t > n PROVE r.clients[t].id \in T \union {NoId}
      <3>1. from(t) \in Used(reg) /\ from(t) > n
        BY <1>0, <1>1, <1>2, <2>3 DEF Used
      <3> QED BY <1>2, <3>1 DEF Table
    <2> QED BY <1>1, <2>1, <2>2, <2>3 DEF Table
  <1>6. Listed(reg) \subseteq Listed(r) \union {reg.clients[s].id}
    <2> SUFFICES ASSUME NEW u \in Used(reg)
                 PROVE  reg.clients[u].id \in Listed(r) \union {reg.clients[s].id}
      BY DEF Listed
    <2>1. CASE u # s
      BY <1>2, <1>4, <2>1 DEF Listed
    <2> QED BY <2>1
  <1>7. ASSUME NEW want, NEW wish, Fits(reg, want),
               \A x \in Id \ {reg.clients[s].id} : wish[x] = want[x]
        PROVE  Fits(r, wish)
    <2>1. ASSUME NEW t \in Used(r)
          PROVE  /\ r.clients[t].id \in Id
                 /\ Agrees(wish[r.clients[t].id], r.clients[t].name, r.modes[t])
      <3>1. /\ from(t) \in Used(reg) /\ from(t) # s
            /\ r.clients[t] = reg.clients[from(t)] /\ r.modes[t] = reg.modes[from(t)]
        BY <1>2
      <3>2. reg.clients[from(t)].id \in Id /\ reg.clients[s].id \in Id
        BY <1>0, <1>7, <3>1 DEF Fits
      <3>3. reg.clients[from(t)].id # reg.clients[s].id
        BY <1>0, <3>1, <3>2, StoreAssumption DEF Table
      <3> QED BY <1>7, <3>1, <3>2, <3>3 DEF Fits
    <2>2. \A t \in Slot : t > r.count => r.clients[t].name = NoName
      BY <1>0, <1>1, <1>7 DEF Fits, NoEntry, Slot
    <2> QED BY <2>1, <2>2 DEF Fits
  <1>8. \A t \in Used(r) : \E u \in Used(reg) :
            /\ u # s /\ r.clients[t] = reg.clients[u] /\ r.modes[t] = reg.modes[u]
    BY <1>2
  <1> QED BY <1>5, <1>6, <1>7, <1>8 DEF r

\* A table stays one as more requests are not saved.
LEMMA TableGrows ==
    ASSUME NEW reg, NEW n, NEW T, NEW U, Table(reg, n, T), T \subseteq U
    PROVE  Table(reg, n, U)
  BY DEF Table

\* A table with the same ids in the same slots is a table too.
LEMMA SameIds ==
    ASSUME NEW reg, NEW n, NEW T, Table(reg, n, T),
           NEW r \in Registry, RegOk(r), r.count = reg.count,
           \A t \in Slot : r.clients[t].id = reg.clients[t].id
    PROVE  Table(r, n, T) /\ Listed(r) = Listed(reg)
  <1>1. Used(r) = Used(reg) /\ \A t \in Used(reg) : t \in Slot
    BY RegistryParts DEF Table, Used
  <1>2. Table(r, n, T)
    BY <1>1 DEF Table
  <1>3. Listed(r) = Listed(reg)
    BY <1>1 DEF Listed
  <1> QED BY <1>2, <1>3

\* What holds once an entry and its mode are replaced.
EntryKept(reg, n, T, e, b, r) ==
    /\ Table(r, n, T) /\ Listed(r) = Listed(reg)
    /\ \A want, wish :
          /\ Fits(reg, want)
          /\ \A x \in Id \ {e.id} : wish[x] = want[x]
          /\ Agrees(wish[e.id], e.name, b)
          => Fits(r, wish)

\* An entry and its mode replaced by others for the same id.
LEMMA EntrySet ==
    ASSUME NEW reg, NEW n, NEW T, Table(reg, n, T), NEW s \in Used(reg),
           NEW e \in Entry, NEW b, e.id = reg.clients[s].id, e.id \in Id,
           NEW r \in Registry, r.clients = [reg.clients EXCEPT ![s] = e],
           r.modes = [reg.modes EXCEPT ![s] = b], r.count = reg.count, r.maps = reg.maps
    PROVE  EntryKept(reg, n, T, e, b, r)
  <1>0. /\ reg \in Registry /\ RegOk(reg) /\ s \in Slot /\ s \in 1 .. reg.count
        /\ reg.count \in Nat
        /\ reg.clients \in [Slot -> Entry] /\ reg.modes \in [Slot -> BOOLEAN]
    BY RegistryParts DEF Table, Used
  <1>1. \A t \in Slot : /\ t # s => r.clients[t] = reg.clients[t]
                        /\ t = s => r.clients[t] = e
    BY <1>0
  <1>2. \A t \in Slot : /\ t # s => r.modes[t] = reg.modes[t]
    BY <1>0
  <1>3. r.modes[s] = b
    BY <1>0
  <1>4. RegOk(r)
    BY <1>0, <1>1, StoreAssumption DEF RegOk
  <1>5. Table(r, n, T) /\ Listed(r) = Listed(reg)
    <2>1. \A t \in Slot : r.clients[t].id = reg.clients[t].id
      BY <1>1
    <2> QED BY <1>4, <2>1, SameIds
  <1>6. ASSUME NEW want, NEW wish, Fits(reg, want),
               \A x \in Id \ {e.id} : wish[x] = want[x],
               Agrees(wish[e.id], e.name, b)
        PROVE  Fits(r, wish)
    <2>1. Used(r) = Used(reg) /\ \A t \in Used(reg) : t \in Slot
      BY <1>0, RegistryParts DEF Used
    <2>2. ASSUME NEW t \in Used(r)
          PROVE  /\ r.clients[t].id \in Id
                 /\ Agrees(wish[r.clients[t].id], r.clients[t].name, r.modes[t])
      <3>1. CASE t = s
        BY <1>1, <1>3, <1>6, <2>1, <3>1
      <3>2. CASE t # s
        <4>1. /\ reg.clients[t].id \in Id /\ r.clients[t] = reg.clients[t]
              /\ r.modes[t] = reg.modes[t]
              /\ Agrees(want[reg.clients[t].id], reg.clients[t].name, reg.modes[t])
          BY <1>1, <1>2, <1>6, <2>1, <3>2 DEF Fits
        <4>2. reg.clients[t].id # e.id
          BY <2>1, <3>2, <4>1, StoreAssumption DEF Table
        <4> QED BY <1>6, <4>1, <4>2
      <3> QED BY <3>1, <3>2
    <2>3. \A t \in Slot : t > r.count => r.clients[t].name = NoName
      <3>1. \A t \in Slot : t > r.count => t # s
        BY <1>0
      <3> QED BY <1>1, <1>6, <3>1 DEF Fits
    <2> QED BY <2>2, <2>3 DEF Fits
  <1> QED BY <1>5, <1>6 DEF EntryKept

\* An id with an entry has one slot of it.
LEMMA OneSlot ==
    ASSUME NEW reg, NEW n, NEW T, Table(reg, n, T), NEW id \in Id, NEW s \in Get(reg, id)
    PROVE  /\ s \in Used(reg) /\ s \in Slot /\ reg.clients[s].id = id
           /\ \A t \in Used(reg) : reg.clients[t].id = id => t = s
           /\ Get(reg, id) = {s}
  <1>1. reg \in Registry
    BY DEF Table
  <1>2. \A t \in Get(reg, id) : t \in Used(reg) /\ t \in Slot /\ reg.clients[t].id = id
    BY <1>1, GetFinds
  <1>3. \A t \in Used(reg) : reg.clients[t].id = id => t = s
    BY <1>2, StoreAssumption DEF Table
  <1> QED BY <1>2, <1>3

\* What an upload makes of a wish: it gives a name to a client that has none.
Says(new, wish, name) ==
    /\ new.name = IF wish.name = NoName THEN name ELSE wish.name
    /\ new.basic = wish.basic /\ new.lost = wish.lost

\* The two ways an upload changes what a client should have.
LEMMA UploadWishes ==
    ASSUME NEW w \in Wanted, NEW name \in Name \union {NoName}
    PROVE  /\ Told(w, name) \in Wanted /\ TakenOver(w, name) \in Wanted
           /\ Fresh \in Wanted
           /\ Says(Told(w, name), w, name)
           /\ Agrees(TakenOver(w, name), name, TRUE)
  <1>1. /\ Told(w, name) \in Wanted /\ Says(Told(w, name), w, name) /\ Fresh \in Wanted
    BY DEF Told, Wanted, Says, Fresh
  <1>2. PICK t \in Wanted : t = Told(w, name)
    BY <1>1
  <1>3. PICK l \in SUBSET {"name", "basic"} :
            l = (IF t.name = name THEN {} ELSE {"name"})
                \union (IF t.basic THEN {} ELSE {"basic"})
    OBVIOUS
  <1>4. TakenOver(w, name) = [t EXCEPT !.lost = l]
    BY <1>2, <1>3 DEF TakenOver, Wanted
  <1>5. t.basic \in BOOLEAN
    BY DEF Wanted
  <1>6. TakenOver(w, name) \in Wanted
    BY <1>4 DEF Wanted
  <1>7. /\ TakenOver(w, name).name = t.name /\ TakenOver(w, name).basic = t.basic
        /\ TakenOver(w, name).lost = l
    BY <1>4 DEF Wanted
  <1>8. /\ "name" \in l \/ t.name = name
        /\ "basic" \in l \/ t.basic = TRUE
    BY <1>3, <1>5
  <1>9. Agrees(TakenOver(w, name), name, TRUE)
    BY <1>7, <1>8 DEF Agrees
  <1> QED BY <1>1, <1>6, <1>9

\* What an upload fills in.
LEMMA SeenTable ==
    ASSUME NEW reg, NEW n, NEW T, Table(reg, n, T), NEW id \in Id,
           NEW name \in Name \union {NoName}, NEW d \in Device,
           NEW r, r = Seen(reg, id, name, d)
    PROVE  /\ Table(r, n, T) /\ Listed(r) = Listed(reg)
           /\ \A want, wish :
                 /\ Fits(reg, want)
                 /\ \A x \in Id \ {id} : wish[x] = want[x]
                 /\ Says(wish[id], want[id], name)
                 => Fits(r, wish)
  <1>0. /\ reg \in Registry /\ RegOk(reg) /\ reg.count \in Nat
        /\ reg.clients \in [Slot -> Entry] /\ reg.modes \in [Slot -> BOOLEAN]
    BY RegistryParts DEF Table
  <1> DEFINE c == [s \in Slot |->
                     IF s \notin Get(reg, id) THEN reg.clients[s]
                     ELSE [id |-> id, ip |-> d,
                           name |-> IF reg.clients[s].name = NoName THEN name
                                    ELSE reg.clients[s].name]]
  <1>1. /\ r.clients = c /\ r.modes = reg.modes /\ r.count = reg.count /\ r.maps = reg.maps
        /\ r.map_count = reg.map_count /\ r = [reg EXCEPT !.clients = c]
    BY <1>0 DEF Seen, Registry
  <1>2. CASE Get(reg, id) = {}
    <2>1. c = reg.clients
      BY <1>0, <1>2
    <2>2. r = reg
      BY <1>0, <1>1, <2>1 DEF Registry
    <2>3. ASSUME NEW want, NEW wish, Fits(reg, want), \A x \in Id \ {id} : wish[x] = want[x]
          PROVE  Fits(reg, wish)
      <3>1. \A s \in Used(reg) : reg.clients[s].id # id
        BY <1>0, <1>2, GetFinds
      <3> QED BY <2>3, <3>1 DEF Fits
    <2> QED BY <2>2, <2>3
  <1>3. ASSUME NEW s \in Get(reg, id)
        PROVE  /\ Table(r, n, T) /\ Listed(r) = Listed(reg)
               /\ \A want, wish :
                     /\ Fits(reg, want)
                     /\ \A x \in Id \ {id} : wish[x] = want[x]
                     /\ Says(wish[id], want[id], name)
                     => Fits(r, wish)
    <2> DEFINE e == [id |-> id, ip |-> d,
                     name |-> IF reg.clients[s].name = NoName THEN name
                              ELSE reg.clients[s].name]
    <2>1. /\ s \in Used(reg) /\ s \in Slot /\ reg.clients[s].id = id /\ Get(reg, id) = {s}
      BY OneSlot
    <2>2. reg.clients[s] \in Entry /\ e \in Entry /\ e.id = id
      BY <1>0, <2>1 DEF Entry
    <2>3. c = [reg.clients EXCEPT ![s] = e]
      BY <1>0, <2>1
    <2>4. c \in [Slot -> Entry]
      BY <1>0, <2>2, <2>3
    <2>5. r \in Registry
      BY <1>0, <1>1, <2>4 DEF Registry
    <2>6. PICK b : b = reg.modes[s]
      OBVIOUS
    <2>9. r.modes = [reg.modes EXCEPT ![s] = b]
      BY <1>0, <1>1, <2>1, <2>6
    <2> HIDE DEF c, e
    <2>7. /\ Table(r, n, T) /\ Listed(r) = Listed(reg)
          /\ \A want, wish :
                 /\ Fits(reg, want)
                 /\ \A x \in Id \ {id} : wish[x] = want[x]
                 /\ Agrees(wish[id], e.name, b)
                 => Fits(r, wish)
      <3>1. r.clients = [reg.clients EXCEPT ![s] = e] /\ e.id = reg.clients[s].id
        BY <1>1, <2>1, <2>2, <2>3
      <3>2. r.count = reg.count /\ r.maps = reg.maps /\ e.id \in Id
        BY <1>1, <2>2
      <3>3. EntryKept(reg, n, T, e, b, r)
        BY <2>1, <2>2, <2>5, <2>9, <3>1, <3>2, EntrySet
      <3> QED BY <2>2, <3>3 DEF EntryKept
    <2>8. ASSUME NEW want, NEW wish, Fits(reg, want), Says(wish[id], want[id], name)
          PROVE  Agrees(wish[id], e.name, b)
      <3>1. Agrees(want[id], reg.clients[s].name, reg.modes[s])
        BY <2>1, <2>8 DEF Fits
      <3> QED BY <2>6, <2>8, <3>1 DEF e, Agrees, Says
    <2> QED BY <2>7, <2>8
  <1> QED BY <1>2, <1>3

\* An id that gets an entry, when there is room for one.
LEMMA AddedTable ==
    ASSUME NEW reg, NEW n \in Nat, NEW T, Table(reg, n, T), NEW id \in Id, id \in T,
           NEW r, r = Added(reg, id)
    PROVE  /\ Table(r, n, T)
           /\ Listed(reg) \subseteq Listed(r)
           /\ \A want, wish :
                 /\ Fits(reg, want)
                 /\ \A x \in Id \ {id} : wish[x] = want[x]
                 /\ wish[id] = IF id \in Listed(reg) THEN want[id] ELSE Fresh
                 => Fits(r, wish)
  <1>0. /\ reg \in Registry /\ RegOk(reg) /\ reg.count \in Nat /\ MaxClients \in Nat
        /\ reg.clients \in [Slot -> Entry] /\ reg.modes \in [Slot -> BOOLEAN]
        /\ reg.count <= MaxClients /\ Used(reg) = 1 .. reg.count
        /\ \A t \in Used(reg) : t \in Slot
    BY RegistryParts DEF Table, Used
  <1>1. CASE Get(reg, id) # {} \/ ~Room(reg)
    <2>1. r = reg
      BY <1>1 DEF Added
    <2>2. ASSUME NEW want, NEW wish, Fits(reg, want),
                 \A x \in Id \ {id} : wish[x] = want[x],
                 wish[id] = IF id \in Listed(reg) THEN want[id] ELSE Fresh
          PROVE  Fits(reg, wish)
      <3>1. ASSUME NEW s \in Used(reg) PROVE wish[reg.clients[s].id] = want[reg.clients[s].id]
        <4>1. reg.clients[s].id \in Id /\ reg.clients[s].id \in Listed(reg)
          BY <2>2 DEF Fits, Listed
        <4>2. CASE reg.clients[s].id = id
          BY <2>2, <4>1, <4>2
        <4>3. CASE reg.clients[s].id # id
          BY <2>2, <4>1, <4>3
        <4> QED BY <4>2, <4>3
      <3> QED BY <2>2, <3>1 DEF Fits
    <2> QED BY <2>1, <2>2
  <1>2. CASE Get(reg, id) = {} /\ Room(reg)
    <2> DEFINE s == reg.count + 1
               e == [reg.clients[s] EXCEPT !.id = id]
    <2>1. s \in Slot /\ s \notin Used(reg) /\ s \in Nat
      BY <1>0, <1>2 DEF Room, Slot
    <2>2. /\ r = [reg EXCEPT !.clients[s].id = id, !.modes[s] = TRUE, !.count = s]
      BY <1>2 DEF Added
    <2>3. /\ r.count = s /\ r.maps = reg.maps
          /\ r.clients = [reg.clients EXCEPT ![s] = e]
          /\ r.modes = [reg.modes EXCEPT ![s] = TRUE]
      BY <1>0, <2>2 DEF Registry
    <2>4. /\ e \in Entry /\ e.id = id /\ e.name = reg.clients[s].name
          /\ e.ip = reg.clients[s].ip
      BY <1>0, <2>1 DEF Entry
    <2>5. r \in Registry
      <3>1. r.clients \in [Slot -> Entry] /\ r.modes \in [Slot -> BOOLEAN]
        BY ZenonT(40), <1>0, <2>3, <2>4
      <3>2. r.count \in 0 .. MaxClients
        BY <1>0, <2>1, <2>3 DEF Slot
      <3> QED BY <1>0, <2>2, <3>1, <3>2 DEF Registry
    <2>6. r.modes[s] = Fresh.basic /\ \A t \in Slot : t # s => r.modes[t] = reg.modes[t]
      BY ZenonT(40), <1>0, <2>1, <2>3 DEF Fresh
    <2>7. \A t \in Slot : /\ t # s => r.clients[t] = reg.clients[t]
                          /\ t = s => r.clients[t] = e
      BY <1>0, <2>1, <2>3
    <2>8. Used(r) = Used(reg) \union {s}
      BY <1>0, <2>1, <2>3 DEF Used
    <2>9. \A t \in Used(reg) : reg.clients[t].id # id
      BY <1>0, <1>2, GetFinds
    <2> HIDE DEF s, e
    <2>10. Table(r, n, T)
      <3>1. RegOk(r)
        BY <1>0, <2>3, <2>4, <2>7, StoreAssumption DEF RegOk
      <3>2. ASSUME NEW t \in Used(r), NEW u \in Used(r),
                   r.clients[t].id = r.clients[u].id, r.clients[t].id # NoId
            PROVE  t = u
        <4>1. CASE t = s /\ u = s
          BY <4>1
        <4>2. CASE t # s /\ u # s
          BY <1>0, <2>7, <2>8, <3>2, <4>2 DEF Table
        <4>3. CASE t = s /\ u # s
          BY <1>0, <2>1, <2>4, <2>7, <2>8, <2>9, <3>2, <4>3
        <4>4. CASE t # s /\ u = s
          BY <1>0, <2>1, <2>4, <2>7, <2>8, <2>9, <3>2, <4>4
        <4> QED BY <4>1, <4>2, <4>3, <4>4
      <3>3. \A t \in Slot : t > r.count /\ t <= n => r.clients[t].id = NoId
        <4>1. \A t \in Slot : t > s => t # s /\ t > reg.count
          BY <1>0 DEF Slot, s
        <4> QED BY <2>3, <2>7, <4>1 DEF Table
      <3>4. \A t \in Used(r) : t > n => r.clients[t].id \in T \union {NoId}
        BY <1>0, <2>1, <2>4, <2>7, <2>8 DEF Table
      <3> QED BY <2>5, <3>1, <3>2, <3>3, <3>4 DEF Table
    <2>11. Listed(reg) \subseteq Listed(r)
      <3>1. \A t \in Used(reg) : t \in Used(r) /\ r.clients[t].id = reg.clients[t].id
        BY <1>0, <2>1, <2>7, <2>8
      <3> QED BY <3>1 DEF Listed
    <2>12. ASSUME NEW want, NEW wish, Fits(reg, want),
                  \A x \in Id \ {id} : wish[x] = want[x],
                  wish[id] = IF id \in Listed(reg) THEN want[id] ELSE Fresh
           PROVE  Fits(r, wish)
      <3>1. wish[id] = Fresh /\ e.name = NoName
        <4>1. id \notin Listed(reg)
          BY <2>9 DEF Listed
        <4>2. s > reg.count
          BY <1>0 DEF s
        <4> QED BY <2>1, <2>4, <2>12, <4>1, <4>2 DEF Fits
      <3>2. ASSUME NEW t \in Used(reg)
            PROVE  /\ r.clients[t].id \in Id
                   /\ Agrees(wish[r.clients[t].id], r.clients[t].name, r.modes[t])
        <4>1. r.clients[t] = reg.clients[t] /\ r.modes[t] = reg.modes[t]
          BY <1>0, <2>1, <2>6, <2>7
        <4>2. reg.clients[t].id \in Id \ {id}
          BY <2>9, <2>12 DEF Fits
        <4> QED BY <2>12, <4>1, <4>2 DEF Fits
      <3>3. /\ r.clients[s].id \in Id
            /\ Agrees(wish[r.clients[s].id], r.clients[s].name, r.modes[s])
        <4>1. Agrees(Fresh, NoName, Fresh.basic)
          BY DEF Fresh, Agrees
        <4> QED BY <2>1, <2>4, <2>6, <2>7, <3>1, <4>1
      <3>4. \A t \in Slot : t > r.count => r.clients[t].name = NoName
        <4>1. \A t \in Slot : t > s => t # s /\ t > reg.count
          BY <1>0 DEF Slot, s
        <4> QED BY <2>3, <2>7, <2>12, <4>1 DEF Fits
      <3> QED BY <2>8, <3>2, <3>3, <3>4 DEF Fits
    <2> QED BY <2>10, <2>11, <2>12
  <1> QED BY <1>1, <1>2

\* Forgetting a rename leaves the entries as they are.
LEMMA ClearedTable ==
    ASSUME NEW reg, NEW n, NEW T, Table(reg, n, T), NEW id \in Id,
           NEW r, r = Cleared(reg, id)
    PROVE  /\ Table(r, n, T)
           /\ r.clients = reg.clients /\ r.modes = reg.modes /\ r.count = reg.count
  <1>0. /\ reg \in Registry /\ RegOk(reg)
        /\ reg.maps \in [Slot -> Mapping] /\ reg.map_count \in 0 .. MaxClients
        /\ reg.map_count \in Nat /\ MaxClients \in Nat
    BY RegistryParts DEF Table
  <1>1. CASE Pending(reg, id) = {}
    BY <1>1 DEF Cleared
  <1>2. CASE Pending(reg, id) # {}
    <2>1. PICK s : s = CHOOSE t \in Pending(reg, id) : TRUE
      OBVIOUS
    <2>2. s \in Pending(reg, id)
      BY <1>2, <2>1
    <2>3. s \in 1 .. reg.map_count /\ s \in Nat /\ s \in Slot
      BY <1>0, <2>2 DEF Pending, Slot
    <2> DEFINE m == Shifted(reg.maps, s, reg.map_count, NoMapping)
    <2>4. r = [reg EXCEPT !.maps = m, !.map_count = reg.map_count - 1]
      BY <1>0, <1>2, <2>1 DEF Cleared, Registry
    <2>5. m \in [Slot -> Mapping]
      <3>1. NoMapping \in Mapping
        BY DEF NoMapping, Mapping
      <3> QED BY <1>0, <2>3, <3>1, ShiftedType
    <2>6. \A t \in Slot : m[t].old \in Id => m[t].new \in Id
      <3> SUFFICES ASSUME NEW t \in Slot, m[t].old \in Id PROVE m[t].new \in Id
        OBVIOUS
      <3>1. t \in Nat /\ NoMapping.old \notin Id
        BY StoreAssumption DEF Slot, NoMapping
      <3>2. CASE t < s \/ t > reg.map_count
        BY <1>0, <2>3, <3>2, ShiftedSlots DEF RegOk
      <3>3. CASE s <= t /\ t = reg.map_count
        BY <1>0, <2>3, <3>1, <3>3, ShiftedSlots
      <3>4. CASE s <= t /\ t < reg.map_count
        <4>1. t + 1 \in Slot
          BY <1>0, <3>1, <3>4 DEF Slot
        <4> QED BY <1>0, <2>3, <3>4, <4>1, ShiftedSlots DEF RegOk
      <3> QED BY <1>0, <2>3, <3>1, <3>2, <3>3, <3>4
    <2> HIDE DEF m
    <2>7. r.maps = m /\ r \in Registry
      <3>1. reg.map_count - 1 \in 0 .. MaxClients
        BY <1>0, <2>3
      <3> QED BY <1>0, <2>4, <2>5, <3>1 DEF Registry
    <2>8. r.clients = reg.clients /\ r.modes = reg.modes /\ r.count = reg.count
      BY <1>0, <2>4 DEF Registry
    <2>9. RegOk(r)
      BY <1>0, <2>6, <2>7, <2>8 DEF RegOk
    <2>10. Table(r, n, T)
      BY <2>7, <2>8, <2>9, SameIds
    <2> QED BY <2>8, <2>10
  <1> QED BY <1>1, <1>2

\* What holds once an entry that was there or was added is replaced.
AfterSet(reg, n, T, id, a, s, e, b, r) ==
    /\ Table(r, n, T)
    /\ Listed(reg) \subseteq Listed(r)
    /\ \A want, wish, w :
          /\ Fits(reg, want)
          /\ \A x \in Id \ {id} : wish[x] = want[x]
          /\ w = IF id \in Listed(reg) THEN want[id] ELSE Fresh
          => /\ Agrees(w, a.clients[s].name, a.modes[s])
             /\ Agrees(wish[id], e.name, b) => Fits(r, wish)

\* An entry replaced by another for the same id, one that is added when it is
\* not there.
LEMMA AddedAndSet ==
    ASSUME NEW reg, NEW n \in Nat, NEW T, Table(reg, n, T), NEW id \in Id, id \in T,
           NEW a, a = Added(reg, id), NEW s \in Get(a, id),
           NEW e \in Entry, NEW b, e.id = id,
           NEW r \in Registry, r.clients = [a.clients EXCEPT ![s] = e],
           r.modes = [a.modes EXCEPT ![s] = b], r.count = a.count, r.maps = a.maps
    PROVE  AfterSet(reg, n, T, id, a, s, e, b, r)
  <1>1. /\ Table(a, n, T)
        /\ Listed(reg) \subseteq Listed(a)
        /\ \A want, wish :
              /\ Fits(reg, want)
              /\ \A x \in Id \ {id} : wish[x] = want[x]
              /\ wish[id] = IF id \in Listed(reg) THEN want[id] ELSE Fresh
              => Fits(a, wish)
    BY AddedTable
  <1>2. s \in Used(a) /\ s \in Slot /\ a.clients[s].id = id
    BY <1>1, OneSlot
  <1>3. EntryKept(a, n, T, e, b, r)
    <2>1. Table(a, n, T) /\ e.id = a.clients[s].id /\ e.id \in Id
      BY <1>1, <1>2
    <2> QED BY <1>2, <2>1, EntrySet
  <1>4. Table(r, n, T) /\ Listed(r) = Listed(a)
    BY <1>3 DEF EntryKept
  <1>5. \A want, wish :
            /\ Fits(a, want)
            /\ \A x \in Id \ {e.id} : wish[x] = want[x]
            /\ Agrees(wish[e.id], e.name, b)
            => Fits(r, wish)
    BY <1>3 DEF EntryKept
  <1>6. ASSUME NEW want, NEW wish, NEW w, Fits(reg, want),
               \A x \in Id \ {id} : wish[x] = want[x],
               w = IF id \in Listed(reg) THEN want[id] ELSE Fresh
        PROVE  /\ Agrees(w, a.clients[s].name, a.modes[s])
               /\ Agrees(wish[id], e.name, b) => Fits(r, wish)
    <2> DEFINE mid == [x \in Id |-> IF x = id THEN w ELSE want[x]]
    <2>1. mid[id] = w /\ \A x \in Id \ {id} : mid[x] = want[x]
      OBVIOUS
    <2> HIDE DEF mid
    <2>2. Fits(a, mid)
      BY <1>1, <1>6, <2>1
    <2>3. Agrees(w, a.clients[s].name, a.modes[s])
      BY ZenonT(40), <1>2, <2>1, <2>2 DEF Fits
    <2>4. \A x \in Id \ {id} : wish[x] = mid[x]
      BY <1>6, <2>1
    <2>5. ASSUME Agrees(wish[id], e.name, b) PROVE Fits(r, wish)
      BY <1>5, <2>2, <2>4, <2>5
    <2> QED BY <2>3, <2>5
  <1> QED BY <1>1, <1>4, <1>6 DEF AfterSet

\* The entry another id takes over is dropped, with a rename of its id that is
\* still pending.
LEMMA FreedTable ==
    ASSUME NEW reg, NEW n \in Nat, NEW T, Table(reg, n, T), NEW s \in Used(reg),
           NEW old \in Id, reg.clients[s].id = old,
           NEW r, r = Removed(Cleared(reg, old), s)
    PROVE  /\ Table(r, n, T)
           /\ Listed(reg) \subseteq Listed(r) \union {old}
           /\ Listed(r) \subseteq Listed(reg)
           /\ \A want, wish : /\ Fits(reg, want)
                              /\ \A x \in Id \ {old} : wish[x] = want[x]
                              => Fits(r, wish)
  <1>1. PICK c : c = Cleared(reg, old)
    OBVIOUS
  <1>2. /\ Table(c, n, T)
        /\ c.clients = reg.clients /\ c.modes = reg.modes /\ c.count = reg.count
    BY <1>1, ClearedTable
  <1>3. Used(c) = Used(reg) /\ Listed(c) = Listed(reg) /\ s \in Used(c)
    BY <1>2 DEF Used, Listed
  <1>4. \A want : Fits(reg, want) => Fits(c, want)
    BY <1>2, <1>3 DEF Fits
  <1>5. /\ Table(r, n, T)
        /\ Listed(c) \subseteq Listed(r) \union {c.clients[s].id}
        /\ \A t \in Used(r) : \E u \in Used(c) :
               /\ u # s /\ r.clients[t] = c.clients[u] /\ r.modes[t] = c.modes[u]
        /\ \A want, wish : /\ Fits(c, want)
                           /\ \A x \in Id \ {c.clients[s].id} : wish[x] = want[x]
                           => Fits(r, wish)
    BY <1>1, <1>2, <1>3, RemovedTable
  <1>6. Listed(r) \subseteq Listed(reg)
    <2>1. ASSUME NEW t \in Used(r) PROVE r.clients[t].id \in Listed(c)
      <3>1. PICK u \in Used(c) : r.clients[t] = c.clients[u]
        BY <1>5
      <3> QED BY <3>1 DEF Listed
    <2> QED BY <1>3, <2>1 DEF Listed
  <1>7. c.clients[s].id = old
    BY <1>2
  <1> QED BY <1>3, <1>4, <1>5, <1>6, <1>7

\* What holds of the table after an upload.
AfterUpload(reg, n, T, id, name, r) ==
    /\ Table(r, n, T)
    /\ Listed(reg) \subseteq Listed(r)
    /\ \A want, wish, w :
          /\ Fits(reg, want)
          /\ \A x \in Id \ {id} : wish[x] = want[x]
          /\ w = IF id \in Listed(reg) THEN want[id] ELSE Fresh
          /\ Says(wish[id], w, name)
          => Fits(r, wish)

\* What an upload leaves in the table once an entry has been freed for it.
LEMMA UploadedTable ==
    ASSUME NEW reg, NEW n \in Nat, NEW T, Table(reg, n, T), NEW id \in Id, id \in T,
           NEW name \in Name \union {NoName}, NEW d \in Device,
           NEW r, r = Seen(Added(reg, id), id, name, d)
    PROVE  AfterUpload(reg, n, T, id, name, r)
  <1>1. PICK a : a = Added(reg, id)
    OBVIOUS
  <1>2. /\ Table(a, n, T)
        /\ Listed(reg) \subseteq Listed(a)
        /\ \A want, wish :
              /\ Fits(reg, want)
              /\ \A x \in Id \ {id} : wish[x] = want[x]
              /\ wish[id] = IF id \in Listed(reg) THEN want[id] ELSE Fresh
              => Fits(a, wish)
    BY SMTT(30), <1>1, AddedTable
  <1>3. /\ Table(r, n, T) /\ Listed(r) = Listed(a)
        /\ \A want, wish :
              /\ Fits(a, want)
              /\ \A x \in Id \ {id} : wish[x] = want[x]
              /\ Says(wish[id], want[id], name)
              => Fits(r, wish)
    BY <1>1, <1>2, SeenTable
  <1>4. ASSUME NEW want, NEW wish, NEW w, Fits(reg, want),
               \A x \in Id \ {id} : wish[x] = want[x],
               w = IF id \in Listed(reg) THEN want[id] ELSE Fresh,
               Says(wish[id], w, name)
        PROVE  Fits(r, wish)
    <2> DEFINE mid == [x \in Id |-> IF x = id THEN w ELSE want[x]]
    <2>1. mid[id] = w /\ \A x \in Id \ {id} : mid[x] = want[x]
      OBVIOUS
    <2> HIDE DEF mid
    <2>2. Fits(a, mid)
      BY <1>2, <1>4, <2>1
    <2>3. \A x \in Id \ {id} : wish[x] = mid[x]
      BY <1>4, <2>1
    <2>4. Says(wish[id], mid[id], name)
      BY <1>4, <2>1
    <2> QED BY <1>3, <2>2, <2>3, <2>4
  <1> QED BY <1>2, <1>3, <1>4 DEF AfterUpload

\* What holds once a client is renamed.
AfterRename(reg, n, T, old, new, r) ==
    /\ Table(r, n, T)
    /\ Listed(reg) \subseteq Listed(r) \union {old} /\ new \in Listed(r)
    /\ \A want, wish :
          /\ Fits(reg, want)
          /\ \A x \in Id \ {old, new} : wish[x] = want[x]
          /\ wish[new] = want[old]
          => Fits(r, wish)

\* A client renamed, and the rename remembered.
LEMMA RenamedTable ==
    ASSUME NEW reg, NEW n \in Nat, NEW T, Table(reg, n, T),
           NEW old \in Id, NEW new \in Id, new \in T, Get(reg, new) = {},
           NEW s \in Get(reg, old), Pending(reg, old) # {} \/ reg.map_count < MaxClients,
           NEW r, r = [Remembered(reg, old, new) EXCEPT !.clients[s].id = new]
    PROVE  AfterRename(reg, n, T, old, new, r)
  <1>0. /\ reg \in Registry /\ RegOk(reg) /\ reg.count \in Nat /\ MaxClients \in Nat
        /\ reg.clients \in [Slot -> Entry] /\ reg.maps \in [Slot -> Mapping]
        /\ reg.map_count \in 0 .. MaxClients /\ reg.map_count \in Nat
        /\ Used(reg) = 1 .. reg.count /\ \A t \in Used(reg) : t \in Slot
    BY RegistryParts DEF Table, Used
  <1>1. /\ s \in Used(reg) /\ s \in Slot /\ reg.clients[s].id = old
        /\ \A t \in Used(reg) : reg.clients[t].id = old => t = s
    BY OneSlot
  <1>2. \A t \in Used(reg) : reg.clients[t].id # new
    BY <1>0, GetFinds
  <1>3. PICK m : m = IF Pending(reg, old) # {} THEN CHOOSE q \in Pending(reg, old) : TRUE
                     ELSE reg.map_count + 1
    OBVIOUS
  <1>4. m \in Slot
    <2>1. CASE Pending(reg, old) # {}
      BY <1>0, <1>3, <2>1 DEF Pending, Slot
    <2>2. CASE Pending(reg, old) = {}
      BY <1>0, <1>3, <2>2 DEF Slot
    <2> QED BY <2>1, <2>2
  <1> DEFINE e == [reg.clients[s] EXCEPT !.id = new]
             map == [old |-> old, new |-> new]
             k == IF m > reg.map_count THEN m ELSE reg.map_count
  <1>5. r = [reg EXCEPT !.maps = [reg.maps EXCEPT ![m] = map], !.map_count = k,
                        !.clients = [reg.clients EXCEPT ![s] = e]]
    BY <1>0, <1>1, <1>3 DEF Remembered, Registry
  <1>6. e \in Entry /\ map \in Mapping /\ k \in 0 .. MaxClients /\ e.id = new
    <2>1. reg.clients[s] \in Entry
      BY <1>0, <1>1
    <2> QED BY <1>0, <1>4, <2>1 DEF Entry, Mapping, Slot
  <1>7. /\ r \in Registry /\ r.count = reg.count /\ r.modes = reg.modes
        /\ r.clients = [reg.clients EXCEPT ![s] = e]
        /\ r.maps = [reg.maps EXCEPT ![m] = map]
    <2>1. /\ [reg.clients EXCEPT ![s] = e] \in [Slot -> Entry]
          /\ [reg.maps EXCEPT ![m] = map] \in [Slot -> Mapping]
      BY <1>0, <1>6
    <2> QED BY <1>0, <1>5, <1>6, <2>1 DEF Registry
  <1>8. e.name = reg.clients[s].name
    BY <1>0, <1>1 DEF Entry
  <1>9. map.new \in Id
    OBVIOUS
  <1> HIDE DEF e, map, k
  <1>10. \A t \in Slot : /\ t # s => r.clients[t] = reg.clients[t]
                         /\ t = s => r.clients[t] = e
    BY <1>0, <1>1, <1>7
  <1>11. Used(r) = Used(reg)
    BY <1>7 DEF Used
  <1>12. Table(r, n, T)
    <2>1. RegOk(r)
      <3>1. \A t \in Slot : r.clients[t].id = NoId => r.clients[t].ip = NoIp
        BY <1>0, <1>6, <1>10, StoreAssumption DEF RegOk
      <3>2. \A t \in Slot : r.maps[t] = IF t = m THEN map ELSE reg.maps[t]
        BY <1>0, <1>4, <1>7
      <3> QED BY <1>0, <1>9, <3>1, <3>2 DEF RegOk
    <2>2. ASSUME NEW t \in Used(r), NEW u \in Used(r),
                 r.clients[t].id = r.clients[u].id, r.clients[t].id # NoId
          PROVE  t = u
      <3>1. CASE t = s /\ u = s
        BY <3>1
      <3>2. CASE t # s /\ u # s
        BY <1>0, <1>10, <1>11, <2>2, <3>2 DEF Table
      <3>3. CASE t = s /\ u # s
        BY <1>0, <1>1, <1>2, <1>6, <1>10, <1>11, <2>2, <3>3
      <3>4. CASE t # s /\ u = s
        BY <1>0, <1>1, <1>2, <1>6, <1>10, <1>11, <2>2, <3>4
      <3> QED BY <3>1, <3>2, <3>3, <3>4
    <2>3. \A t \in Slot : t > r.count /\ t <= n => r.clients[t].id = NoId
      <3>1. \A t \in Slot : t > r.count => t # s
        BY <1>0, <1>1, <1>7
      <3> QED BY <1>7, <1>10, <3>1 DEF Table
    <2>4. \A t \in Used(r) : t > n => r.clients[t].id \in T \union {NoId}
      BY <1>0, <1>6, <1>10, <1>11 DEF Table
    <2> QED BY <1>7, <2>1, <2>2, <2>3, <2>4 DEF Table
  <1>13. Listed(reg) \subseteq Listed(r) \union {old}
    <2> SUFFICES ASSUME NEW t \in Used(reg)
                 PROVE  reg.clients[t].id \in Listed(r) \union {old}
      BY DEF Listed
    <2>1. CASE t = s
      BY <1>1, <2>1
    <2>2. CASE t # s
      BY <1>0, <1>10, <1>11, <2>2 DEF Listed
    <2> QED BY <2>1, <2>2
  <1>14. new \in Listed(r)
    BY <1>1, <1>6, <1>10, <1>11 DEF Listed
  <1>15. ASSUME NEW want, NEW wish, Fits(reg, want),
                \A x \in Id \ {old, new} : wish[x] = want[x], wish[new] = want[old]
         PROVE  Fits(r, wish)
    <2>1. ASSUME NEW t \in Used(r)
          PROVE  /\ r.clients[t].id \in Id
                 /\ Agrees(wish[r.clients[t].id], r.clients[t].name, r.modes[t])
      <3>1. CASE t = s
        <4>1. /\ r.clients[t].id = new /\ r.clients[t].name = reg.clients[s].name
              /\ r.modes[t] = reg.modes[s]
          BY <1>1, <1>6, <1>7, <1>8, <1>10, <3>1
        <4>2. Agrees(want[old], reg.clients[s].name, reg.modes[s])
          BY <1>1, <1>15 DEF Fits
        <4> QED BY <1>15, <4>1, <4>2
      <3>2. CASE t # s
        <4>1. r.clients[t] = reg.clients[t] /\ r.modes[t] = reg.modes[t]
          BY <1>0, <1>7, <1>10, <1>11, <3>2
        <4>2. reg.clients[t].id \in Id \ {old, new}
          BY <1>1, <1>2, <1>11, <1>15, <3>2 DEF Fits
        <4> QED BY <1>11, <1>15, <4>1, <4>2 DEF Fits
      <3> QED BY <3>1, <3>2
    <2>2. \A t \in Slot : t > r.count => r.clients[t].name = NoName
      <3>1. \A t \in Slot : t > r.count => t # s
        BY <1>0, <1>1, <1>7
      <3> QED BY <1>7, <1>10, <1>15, <3>1 DEF Fits
    <2> QED BY <2>1, <2>2 DEF Fits
  <1> QED BY <1>12, <1>13, <1>14, <1>15 DEF AfterRename

-----------------------------------------------------------------------------
\* The value that is written after another one.
After == [clients |-> "modes", modes |-> "count", count |-> "maps", maps |-> "map_count"]

\* What a request has to do: a move first, the values in their order, and a
\* removal or an answer last.
Shape(q) ==
    /\ \A i \in 1 .. Len(q) : q[i][1] = "move" =>
           i = 1 /\ Len(q) > 1 /\ q[2] = <<"write", "clients">>
    /\ \A i \in 1 .. Len(q) : q[i][1] \in {"unlink", "answer"} => i = Len(q)
    /\ \A i \in 1 .. Len(q) : q[i][1] = "write" /\ q[i][2] # "map_count" =>
           i < Len(q) /\ q[i + 1] = <<"write", After[q[i][2]]>>
    /\ \A i \in 1 .. Len(q) : q[i][1] = "write" /\ q[i][2] = "map_count" /\ i < Len(q) =>
           q[i + 1][1] \in {"unlink", "answer"}

\* The files a request still has to remove, and to move.
Doomed(q) == {id \in Id : \E i \in 1 .. Len(q) : q[i][1] = "unlink" /\ q[i][2] = id}
Moving(q) == {id \in Id : \E i \in 1 .. Len(q) : q[i][1] = "move" /\ q[i][2] = id}

\* A step is of one of four kinds.
LEMMA StepKinds ==
    /\ DOMAIN Empty = {"clients", "modes", "count", "maps", "map_count"}
    /\ \A x \in Step :
          /\ x[1] \in {"write", "move", "unlink", "answer"}
          /\ x[1] = "write" => x = <<"write", x[2]>> /\ x[2] \in DOMAIN Empty
          /\ x[1] = "move" => x = <<"move", x[2], x[3]>> /\ x[2] \in Id /\ x[3] \in Id
          /\ x[1] = "unlink" => x = <<"unlink", x[2]>> /\ x[2] \in Id
          /\ x[1] = "answer" => x = <<"answer", x[2]>> /\ x[2] \in Device
  <1>1. DOMAIN Empty = {"clients", "modes", "count", "maps", "map_count"}
    BY DEF Empty
  <1>2. ASSUME NEW x \in Step
        PROVE  /\ x[1] \in {"write", "move", "unlink", "answer"}
               /\ x[1] = "write" => x = <<"write", x[2]>> /\ x[2] \in DOMAIN Empty
               /\ x[1] = "move" => x = <<"move", x[2], x[3]>> /\ x[2] \in Id /\ x[3] \in Id
               /\ x[1] = "unlink" => x = <<"unlink", x[2]>> /\ x[2] \in Id
               /\ x[1] = "answer" => x = <<"answer", x[2]>> /\ x[2] \in Device
    <2>1. CASE x \in {"write"} \X DOMAIN Empty
      BY <2>1
    <2>2. CASE x \in {"move"} \X Id \X Id
      BY <2>2
    <2>3. CASE x \in {"unlink"} \X Id
      BY <2>3
    <2>4. CASE x \in {"answer"} \X Device
      BY <2>4
    <2> QED BY <2>1, <2>2, <2>3, <2>4 DEF Step
  <1> QED BY <1>1, <1>2

\* p is what is left of q after k steps.
Leaves(q, k, p) == Len(p) = Len(q) - k /\ \A i \in 1 .. Len(p) : p[i] = q[i + k]

\* What is left of a request is one, with no move any more.
LEMMA LeftOver ==
    ASSUME NEW q \in Seq(Step), Shape(q), NEW k \in 1 .. Len(q),
           NEW p \in Seq(Step), Leaves(q, k, p)
    PROVE  /\ Shape(p) /\ Moving(p) = {}
           /\ Doomed(p) \subseteq Doomed(q)
           /\ (\A i \in 1 .. k : q[i][1] # "unlink") => Doomed(q) \subseteq Doomed(p)
           /\ (\E i \in 1 .. k : q[i][1] = "unlink") => p = <<>>
  <1>0. /\ Len(q) \in Nat /\ Len(p) \in Nat /\ k \in Nat /\ k >= 1 /\ k <= Len(q)
        /\ Len(p) = Len(q) - k
    BY DEF Leaves
  <1>1. \A i \in 1 .. Len(p) : i + k \in 1 .. Len(q) /\ i + k # 1
    BY <1>0
  <1>11. \A i \in 1 .. Len(p) : p[i] = q[i + k]
    BY DEF Leaves
  <1>2. \A i \in 1 .. Len(p) : p[i][1] # "move"
    BY <1>1, <1>11 DEF Shape
  <1>3. ASSUME NEW j \in 1 .. Len(p), p[j][1] \in {"unlink", "answer"} PROVE j = Len(p)
    <2>1. j + k = Len(q)
      BY <1>1, <1>3, <1>11 DEF Shape
    <2> QED BY <1>0, <2>1
  <1>4. ASSUME NEW i \in 1 .. Len(p), p[i][1] = "write", p[i][2] # "map_count"
        PROVE  i < Len(p) /\ p[i + 1] = <<"write", After[p[i][2]]>>
    <2>1. i + k < Len(q) /\ q[(i + k) + 1] = <<"write", After[q[i + k][2]]>>
      BY <1>1, <1>4, <1>11 DEF Shape
    <2>2. i < Len(p) /\ i + 1 \in 1 .. Len(p) /\ (i + 1) + k = (i + k) + 1
      BY <1>0, <2>1
    <2> QED BY <1>11, <2>1, <2>2
  <1>5. ASSUME NEW i \in 1 .. Len(p), p[i][1] = "write", p[i][2] = "map_count", i < Len(p)
        PROVE  p[i + 1][1] \in {"unlink", "answer"}
    <2>1. i + k < Len(q) /\ i + 1 \in 1 .. Len(p) /\ (i + 1) + k = (i + k) + 1
      BY <1>0, <1>5
    <2>2. q[(i + k) + 1][1] \in {"unlink", "answer"}
      BY <1>1, <1>5, <1>11, <2>1 DEF Shape
    <2> QED BY <1>11, <2>1, <2>2
  <1>6. Shape(p)
    BY <1>2, <1>3, <1>4, <1>5 DEF Shape
  <1>7. Moving(p) = {}
    BY <1>2 DEF Moving
  <1>8. Doomed(p) \subseteq Doomed(q)
    BY <1>1, <1>11 DEF Doomed
  <1>9. ASSUME \A i \in 1 .. k : q[i][1] # "unlink" PROVE Doomed(q) \subseteq Doomed(p)
    <2> SUFFICES ASSUME NEW id \in Id, NEW i \in 1 .. Len(q), q[i][1] = "unlink", q[i][2] = id
                 PROVE  id \in Doomed(p)
      BY DEF Doomed
    <2>1. i - k \in 1 .. Len(p) /\ (i - k) + k = i
      BY <1>0, <1>9
    <2> QED BY <1>11, <2>1 DEF Doomed
  <1>10. ASSUME NEW i \in 1 .. k, q[i][1] = "unlink" PROVE p = <<>>
    <2>1. i = Len(q)
      BY <1>0, <1>10 DEF Shape
    <2>2. Len(p) = 0
      BY <1>0, <2>1
    <2> QED BY <2>2
  <1> QED BY <1>6, <1>7, <1>8, <1>9, <1>10

\* The request after its first step.
LEMMA TailLeft ==
    ASSUME NEW q \in Seq(Step), q # <<>>
    PROVE  /\ Head(q) = q[1] /\ q[1] \in Step /\ Len(q) \in Nat /\ 1 \in 1 .. Len(q)
           /\ Tail(q) \in Seq(Step) /\ Leaves(q, 1, Tail(q))
  BY DEF Leaves

\* The five writes of a save.
LEMMA SaveSteps ==
    /\ Save \in Seq(Step) /\ Len(Save) = 5
    /\ Save[1] = <<"write", "clients">> /\ Save[2] = <<"write", "modes">>
    /\ Save[3] = <<"write", "count">> /\ Save[4] = <<"write", "maps">>
    /\ Save[5] = <<"write", "map_count">>
  <1>1. PICK v : v = <<"clients", "modes", "count", "maps", "map_count">>
    OBVIOUS
  <1>2. /\ DOMAIN v = 1 .. 5 /\ v[1] = "clients" /\ v[2] = "modes" /\ v[3] = "count"
        /\ v[4] = "maps" /\ v[5] = "map_count"
    BY <1>1
  <1>3. Save = [i \in 1 .. 5 |-> <<"write", v[i]>>]
    BY <1>1, <1>2 DEF Save, Written
  <1>4. /\ <<"write", "clients">> \in Step /\ <<"write", "modes">> \in Step
        /\ <<"write", "count">> \in Step /\ <<"write", "maps">> \in Step
        /\ <<"write", "map_count">> \in Step
    BY StepKinds DEF Step
  <1>5. /\ Save[1] = <<"write", "clients">> /\ Save[2] = <<"write", "modes">>
        /\ Save[3] = <<"write", "count">> /\ Save[4] = <<"write", "maps">>
        /\ Save[5] = <<"write", "map_count">>
    BY <1>2, <1>3
  <1>6. \A i \in 1 .. 5 : Save[i] \in Step
    <2>1. \A i \in 1 .. 5 : i = 1 \/ i = 2 \/ i = 3 \/ i = 4 \/ i = 5
      OBVIOUS
    <2> QED BY <1>4, <1>5, <2>1
  <1>7. Save \in [1 .. 5 -> Step]
    BY <1>3, <1>6
  <1>8. Save \in Seq(Step)
    BY <1>7, SeqDef
  <1>9. Len(Save) = 5
    BY <1>7, <1>8, LenProperties
  <1> QED BY <1>5, <1>8, <1>9

\* What may come before a save, and after it.
Front(m) == Len(m) <= 1 /\ (Len(m) = 1 => m[1][1] = "move")
Rear(r) == Len(r) <= 1 /\ (Len(r) = 1 => r[1][1] \in {"unlink", "answer"})

\* q is m, the five writes and r.
Whole(q, m, r) ==
    /\ q \in Seq(Step) /\ Len(q) = Len(m) + 5 + Len(r)
    /\ \A i \in 1 .. Len(m) : q[i] = m[i]
    /\ \A i \in 1 .. 5 : q[Len(m) + i] = Save[i]
    /\ \A i \in 1 .. Len(r) : q[Len(m) + 5 + i] = r[i]

\* A whole request: perhaps a move, the five values, perhaps a removal or an
\* answer.
LEMMA WholeRequest ==
    ASSUME NEW m \in Seq(Step), Front(m), NEW r \in Seq(Step), Rear(r),
           NEW q, Whole(q, m, r)
    PROVE  /\ q \in Seq(Step) /\ Shape(q) /\ q # <<>>
           /\ q[1][1] = "write" => q[1][2] = "clients"
           /\ \A i \in 1 .. Len(q) : /\ q[i][1] = "move" => Len(m) = 1 /\ q[i] = m[1]
                                     /\ q[i][1] = "unlink" => Len(r) = 1 /\ q[i] = r[1]
  <1>1. PICK a \in 0 .. 1 : a = Len(m)
    <2>1. PICK n \in Nat : n = Len(m)
      BY LenProperties
    <2>2. n <= 1
      BY <2>1 DEF Front
    <2>3. n \in 0 .. 1
      BY <2>2
    <2> QED BY <2>1, <2>3
  <1>2. PICK b \in 0 .. 1 : b = Len(r)
    <2>1. PICK n \in Nat : n = Len(r)
      BY LenProperties
    <2>2. n <= 1
      BY <2>1 DEF Rear
    <2>3. n \in 0 .. 1
      BY <2>2
    <2> QED BY <2>1, <2>3
  <1>3. q \in Seq(Step) /\ Len(q) = a + 5 + b
    BY <1>1, <1>2 DEF Whole
  <1>4. /\ a = 1 => q[1] = m[1]
        /\ q[a + 1] = Save[1] /\ q[a + 2] = Save[2] /\ q[a + 3] = Save[3]
        /\ q[a + 4] = Save[4] /\ q[a + 5] = Save[5]
        /\ b = 1 => q[a + 6] = r[1]
    BY <1>1, <1>2 DEF Whole
  <1>5. \A i \in 1 .. Len(q) : \/ a = 1 /\ i = 1
                               \/ i = a + 1 \/ i = a + 2 \/ i = a + 3
                               \/ i = a + 4 \/ i = a + 5
                               \/ b = 1 /\ i = a + 6
    BY <1>3
  <1>6. /\ a = 1 => q[1][1] = "move"
        /\ b = 1 => q[a + 6][1] \in {"unlink", "answer"}
    BY <1>1, <1>2, <1>4 DEF Front, Rear
  <1>7. /\ q[a + 1] = <<"write", "clients">> /\ q[a + 2] = <<"write", "modes">>
        /\ q[a + 3] = <<"write", "count">> /\ q[a + 4] = <<"write", "maps">>
        /\ q[a + 5] = <<"write", "map_count">>
    BY <1>4, SaveSteps
  <1>8. ASSUME NEW i \in 1 .. Len(q), q[i][1] = "move"
        PROVE  i = 1 /\ a = 1 /\ q[2] = <<"write", "clients">>
    <2>1. a = 1 /\ i = 1
      BY SMTT(30), <1>5, <1>6, <1>7, <1>8
    <2> QED BY <1>7, <2>1
  <1>9. ASSUME NEW i \in 1 .. Len(q), q[i][1] \in {"unlink", "answer"}
        PROVE  i = Len(q) /\ b = 1 /\ i = a + 6
    <2>1. b = 1 /\ i = a + 6
      BY SMTT(30), <1>5, <1>6, <1>7, <1>9
    <2> QED BY <1>3, <2>1
  <1>10. ASSUME NEW i \in 1 .. Len(q), q[i][1] = "write", q[i][2] # "map_count"
         PROVE  i < Len(q) /\ q[i + 1] = <<"write", After[q[i][2]]>>
    <2>1. i = a + 1 \/ i = a + 2 \/ i = a + 3 \/ i = a + 4
      BY <1>5, <1>6, <1>7, <1>10
    <2>2. CASE i = a + 1
      BY <1>3, <1>7, <2>2 DEF After
    <2>3. CASE i = a + 2
      BY <1>3, <1>7, <2>3 DEF After
    <2>4. CASE i = a + 3
      BY <1>3, <1>7, <2>4 DEF After
    <2>5. CASE i = a + 4
      BY <1>3, <1>7, <2>5 DEF After
    <2> QED BY <2>1, <2>2, <2>3, <2>4, <2>5
  <1>11. ASSUME NEW i \in 1 .. Len(q), q[i][1] = "write", q[i][2] = "map_count", i < Len(q)
         PROVE  q[i + 1][1] \in {"unlink", "answer"}
    <2>1. i # a + 1 /\ i # a + 2 /\ i # a + 3 /\ i # a + 4
      BY <1>7, <1>11
    <2>2. ~(a = 1 /\ i = 1)
      BY <1>6, <1>11
    <2>3. i # a + 6
      BY <1>3, <1>11
    <2>4. i = a + 5
      BY <1>5, <2>1, <2>2, <2>3
    <2> QED BY <1>3, <1>6, <1>11, <2>4
  <1>12. Shape(q)
    <2>1. Len(q) > 1
      BY <1>3
    <2> QED BY <1>8, <1>9, <1>10, <1>11, <2>1 DEF Shape
  <1>13. q[1][1] = "write" => q[1][2] = "clients"
    <2>1. CASE a = 0
      BY <1>7, <2>1
    <2>2. CASE a = 1
      BY <1>6, <2>2
    <2> QED BY <2>1, <2>2
  <1> QED BY SMTT(30), <1>1, <1>2, <1>3, <1>4, <1>8, <1>9, <1>12, <1>13

\* The values before v are written.
SavedUpTo(v, f, reg) ==
    /\ v # "clients" => f.clients = reg.clients
    /\ v \notin {"clients", "modes"} => f.modes = reg.modes
    /\ v \notin {"clients", "modes", "count"} => f.count = reg.count

\* What is in flash with one value written.
Stored(f, reg, v) == [f EXCEPT ![v] = reg[v]]

\* One value written to flash.
LEMMA ValueSaved ==
    ASSUME NEW f \in Registry, NEW reg \in Registry,
           NEW v, v \in {"clients", "modes", "count", "maps", "map_count"},
           NEW w, w = Stored(f, reg, v)
    PROVE  /\ w \in Registry
           /\ w.clients = (IF v = "clients" THEN reg.clients ELSE f.clients)
           /\ w.modes = (IF v = "modes" THEN reg.modes ELSE f.modes)
           /\ w.count = (IF v = "count" THEN reg.count ELSE f.count)
           /\ w.maps = (IF v = "maps" THEN reg.maps ELSE f.maps)
           /\ w.map_count = (IF v = "map_count" THEN reg.map_count ELSE f.map_count)
  <1>0. v \in {"clients", "modes", "count", "maps", "map_count"}
    OBVIOUS
  <1>1. CASE v = "clients"
    BY <1>1 DEF Registry, Stored
  <1>2. CASE v = "modes"
    BY <1>2 DEF Registry, Stored
  <1>3. CASE v = "count"
    BY <1>3 DEF Registry, Stored
  <1>4. CASE v = "maps"
    BY <1>4 DEF Registry, Stored
  <1>5. CASE v = "map_count"
    BY <1>5 DEF Registry, Stored
  <1> QED BY <1>0, <1>1, <1>2, <1>3, <1>4, <1>5

\* Against its own count, a table is one when no id is in it twice.
LEMMA OwnTable ==
    ASSUME NEW reg \in Registry, RegOk(reg), NEW T,
           \A s, t \in Used(reg) :
               reg.clients[s].id = reg.clients[t].id /\ reg.clients[s].id # NoId => s = t
    PROVE  Table(reg, reg.count, T)
  <1>1. reg.count \in Nat /\ \A s \in Slot : s \in Nat
    BY RegistryParts, StoreAssumption DEF Slot
  <1>2. \A s \in Slot : ~(s > reg.count /\ s <= reg.count)
    BY <1>1
  <1>3. \A s \in Used(reg) : ~(s > reg.count)
    BY <1>1 DEF Used
  <1> QED BY <1>2, <1>3 DEF Table

\* What holds of flash after a value was written.
AfterWrite(v, f, reg, T, w) ==
    /\ Table(w, w.count, {}) /\ Table(reg, w.count, T)
    /\ v = "map_count" => Table(reg, w.count, {})
    /\ v = "map_count" => \A want : Fits(reg, want) => Fits(w, want)
    /\ SavedUpTo(v, w, reg)
    /\ v = "clients" => w.clients = reg.clients
    /\ v = "modes" => w.modes = reg.modes
    /\ v \in {"count", "map_count"} => w.count = reg.count
    /\ v = "map_count" => Listed(w) = Listed(reg)
    /\ v \notin {"clients", "count"} => Listed(w) = Listed(f)
    /\ v \in {"clients", "count"} =>
           Listed(reg) \subseteq Listed(w) \union T \union {NoId}

\* A value written, as the tables in RAM and in flash see it.
LEMMA SavedTables ==
    ASSUME NEW f, NEW reg, NEW T, Table(reg, f.count, T), Table(f, f.count, {}),
           NEW v \in {"clients", "modes", "count", "maps", "map_count"},
           SavedUpTo(v, f, reg),
           NEW w, w = Stored(f, reg, v)
    PROVE  AfterWrite(v, f, reg, T, w)
  <1> USE DEF AfterWrite
  <1>0. /\ f \in Registry /\ reg \in Registry /\ RegOk(f) /\ RegOk(reg)
        /\ f.count \in Nat /\ reg.count \in Nat
    BY RegistryParts DEF Table
  <1>1. /\ w \in Registry
        /\ w.clients = (IF v = "clients" THEN reg.clients ELSE f.clients)
        /\ w.modes = (IF v = "modes" THEN reg.modes ELSE f.modes)
        /\ w.count = (IF v = "count" THEN reg.count ELSE f.count)
        /\ w.maps = (IF v = "maps" THEN reg.maps ELSE f.maps)
    <2>1. /\ w \in Registry
          /\ w.clients = (IF v = "clients" THEN reg.clients ELSE f.clients)
      BY <1>0, ValueSaved
    <2>2. w.modes = (IF v = "modes" THEN reg.modes ELSE f.modes)
      BY <1>0, ValueSaved
    <2>3. w.count = (IF v = "count" THEN reg.count ELSE f.count)
      BY <1>0, ValueSaved
    <2>4. w.maps = (IF v = "maps" THEN reg.maps ELSE f.maps)
      BY <1>0, ValueSaved
    <2> QED BY <2>1, <2>2, <2>3, <2>4
  <1>2. RegOk(w) /\ w.count \in Nat
    BY <1>0, <1>1 DEF RegOk
  <1>3. v \in {"clients", "modes", "count", "maps", "map_count"}
    OBVIOUS
  <1>4. CASE v = "clients"
    <2>1. Used(w) = Used(f) /\ w.clients = reg.clients /\ w.count = f.count
      BY <1>1, <1>4 DEF Used
    <2>2. ASSUME NEW s \in Used(f), NEW t \in Used(f),
                 reg.clients[s].id = reg.clients[t].id, reg.clients[s].id # NoId
          PROVE  s = t
      <3>1. s \in Slot /\ t \in Slot /\ s \in 1 .. f.count /\ t \in 1 .. f.count
        BY <1>0, RegistryParts DEF Used
      <3>2. s <= reg.count /\ t <= reg.count
        BY <1>0, <2>2, <3>1 DEF Table
      <3> QED BY <1>0, <2>2, <3>1, <3>2 DEF Table, Used
    <2>3. Table(w, w.count, {})
      BY <1>1, <1>2, <2>1, <2>2, OwnTable
    <2>4. Listed(reg) \subseteq Listed(w) \union T \union {NoId}
      <3> SUFFICES ASSUME NEW s \in Used(reg)
                   PROVE  reg.clients[s].id \in Listed(w) \union T \union {NoId}
        BY DEF Listed
      <3>1. CASE s > f.count
        BY <3>1 DEF Table
      <3>2. CASE ~(s > f.count)
        <4>1. s \in Used(w)
          BY <1>0, <2>1, <3>2 DEF Used
        <4> QED BY <2>1, <4>1 DEF Listed
      <3> QED BY <3>1, <3>2
    <2> QED BY <1>1, <1>4, <2>1, <2>3, <2>4 DEF SavedUpTo
  <1>5. CASE v = "count"
    <2>1. /\ w.clients = reg.clients /\ w.count = reg.count /\ w.modes = reg.modes
          /\ Used(w) = Used(reg)
      BY <1>1, <1>5 DEF Used, SavedUpTo
    <2>2. Table(w, w.count, {}) /\ Table(reg, reg.count, T)
      <3>1. \A s, t \in Used(reg) :
                reg.clients[s].id = reg.clients[t].id /\ reg.clients[s].id # NoId => s = t
        BY DEF Table
      <3> QED BY <1>0, <1>1, <1>2, <2>1, <3>1, OwnTable
    <2>3. Listed(reg) = Listed(w)
      BY <2>1 DEF Listed
    <2> QED BY <1>1, <1>5, <2>1, <2>2, <2>3 DEF SavedUpTo
  <1>6. CASE v \in {"modes", "maps"}
    <2>1. w.clients = f.clients /\ w.count = f.count /\ Used(w) = Used(f)
      BY <1>1, <1>6 DEF Used
    <2>2. Table(w, w.count, {})
      <3>1. \A s, t \in Used(f) :
                f.clients[s].id = f.clients[t].id /\ f.clients[s].id # NoId => s = t
        BY DEF Table
      <3> QED BY <1>1, <1>2, <2>1, <3>1, OwnTable
    <2>3. Listed(w) = Listed(f)
      BY <2>1 DEF Listed
    <2> QED BY <1>1, <1>6, <2>1, <2>2, <2>3 DEF SavedUpTo
  <1>7. CASE v = "map_count"
    <2>1. /\ w.clients = f.clients /\ w.count = f.count /\ w.modes = f.modes
          /\ f.clients = reg.clients /\ f.count = reg.count /\ f.modes = reg.modes
          /\ Used(w) = Used(f) /\ Used(w) = Used(reg)
      BY <1>1, <1>7 DEF Used, SavedUpTo
    <2>2. Table(w, w.count, {}) /\ Table(reg, reg.count, {})
      <3>1. \A s, t \in Used(reg) :
                reg.clients[s].id = reg.clients[t].id /\ reg.clients[s].id # NoId => s = t
        BY DEF Table
      <3> QED BY <1>0, <1>1, <1>2, <2>1, <3>1, OwnTable
    <2>3. Listed(w) = Listed(f) /\ Listed(w) = Listed(reg)
      BY <2>1 DEF Listed
    <2>4. \A want : Fits(reg, want) => Fits(w, want)
      BY <2>1 DEF Fits
    <2> QED BY <1>1, <1>7, <2>1, <2>2, <2>3, <2>4 DEF SavedUpTo
  <1> QED BY <1>3, <1>4, <1>5, <1>6, <1>7

-----------------------------------------------------------------------------
\* The files, while requests are under way and cut off: each one is listed in
\* RAM unless a request turned down or cut off is about its id or the request
\* under way has still to move or to remove it, and listed in flash unless a
\* request that is not saved is about its id.
FilesInv ==
    /\ Doomed(todo) \subseteq touched /\ Moving(todo) \subseteq touched
    /\ \A i \in 1 .. Len(todo) : todo[i][1] = "move" =>
           /\ todo[i][3] \in touched
           /\ todo[i][3] \in Listed(mem) \union excused
    /\ files \subseteq Listed(mem) \union excused \union Doomed(todo) \union Moving(todo)
    /\ files \subseteq Listed(nvs) \union excused \union touched

\* Names and modes, until a reset falls into a save.
KeptInv ==
    ~torn => /\ Fits(mem, chosen)
             /\ ~mixed => Fits(nvs, kept)

RegInv ==
    /\ TypeOK
    /\ Table(mem, nvs.count, touched) /\ Table(nvs, nvs.count, {})
    /\ Shape(todo)
    /\ todo # <<>> /\ todo[1][1] = "write" => SavedUpTo(todo[1][2], nvs, mem)
    /\ FilesInv
    /\ KeptInv

\* The invariant says what the runs check.
LEMMA RegInvSays == RegInv => TypeOK /\ ListedOnce /\ EntriesKept
  <1> SUFFICES ASSUME RegInv PROVE TypeOK /\ ListedOnce /\ EntriesKept
    OBVIOUS
  <1>1. ListedOnce
    <2>1. \A s, t \in Used(mem) :
              mem.clients[s].id = mem.clients[t].id /\ mem.clients[s].id # NoId => s = t
      BY DEF RegInv, Table
    <2>2. files \subseteq Listed(mem) \union touched \union excused
      BY DEF RegInv, FilesInv
    <2> QED BY <2>1, <2>2 DEF ListedOnce
  <1>2. EntriesKept
    BY DEF RegInv, KeptInv, Fits, EntriesKept
  <1> QED BY <1>1, <1>2 DEF RegInv

\* A new board.
LEMMA RegInit == Init => RegInv
  <1> SUFFICES ASSUME Init PROVE RegInv
    OBVIOUS
  <1>1. /\ mem = Empty /\ nvs = Empty /\ files = {} /\ todo = <<>>
        /\ touched = {} /\ excused = {} /\ torn = FALSE /\ mixed = FALSE
        /\ chosen = [id \in Id |-> Fresh] /\ kept = chosen
    BY DEF Init
  <1>2. Empty \in Registry
    BY EmptyIsRegistry
  <1>3. Empty.count = 0 /\ Used(Empty) = {}
    BY DEF Empty, Used
  <1>4. RegOk(Empty)
    BY StoreAssumption DEF Empty, RegOk, NoEntry, NoMapping
  <1>5. Table(Empty, 0, {})
    BY <1>2, <1>3, <1>4, OwnTable
  <1>6. TypeOK
    <2>1. Fresh \in Wanted
      BY DEF Fresh, Wanted
    <2>2. [id \in Id |-> Fresh] \in [Id -> Wanted]
      BY <2>1
    <2>3. dev \in [Device -> [id : Id, name : Name \union {NoName}]]
      BY DEF Init
    <2>4. requests \in 0 .. MaxRequests /\ faults \in 0 .. MaxFaults
      BY StoreAssumption DEF Init
    <2>5. todo \in Seq(Step)
      BY <1>1
    <2> QED BY <1>1, <1>2, <2>2, <2>3, <2>4, <2>5 DEF TypeOK
  <1>7. Shape(todo)
    BY <1>1 DEF Shape
  <1>8. FilesInv
    BY <1>1 DEF FilesInv, Doomed, Moving
  <1>9. KeptInv
    <2>1. \A s \in Slot : Empty.clients[s].name = NoName
      BY DEF Empty, NoEntry
    <2>2. Fits(Empty, chosen)
      BY <1>3, <2>1 DEF Fits
    <2> QED BY <1>1, <2>2 DEF KeptInv
  <1> QED BY <1>1, <1>3, <1>5, <1>6, <1>7, <1>8, <1>9 DEF RegInv

\* A reset: what is in flash is what is in RAM again.
LEMMA RegReset == RegInv /\ Reset => RegInv'
  <1> SUFFICES ASSUME RegInv, Reset PROVE RegInv'
    OBVIOUS
  <1>0. TypeOK
    BY DEF RegInv
  <1>1. /\ faults < MaxFaults /\ faults' = faults + 1 /\ mem' = Loaded /\ todo' = <<>>
        /\ torn' = (torn \/ mixed) /\ mixed' = FALSE
        /\ excused' = excused \union touched /\ touched' = {} /\ chosen' = kept
        /\ nvs' = nvs /\ files' = files /\ dev' = dev /\ requests' = requests /\ kept' = kept
    BY DEF Reset
  <1>2. mem' = nvs
    <2>1. nvs \in Registry
      BY <1>0 DEF TypeOK
    <2>2. Valid(nvs.count) = nvs.count /\ Valid(nvs.map_count) = nvs.map_count
      BY <2>1, RegistryParts, StoreAssumption DEF Valid, Slot
    <2>3. Loaded = nvs
      BY <2>1, <2>2 DEF Loaded, Registry
    <2> QED BY <1>1, <2>3
  <1>3. TypeOK'
    <2>1. faults' \in 0 .. MaxFaults
      BY <1>0, <1>1, StoreAssumption DEF TypeOK
    <2>2. torn' \in BOOLEAN /\ mixed' \in BOOLEAN
      BY <1>0, <1>1 DEF TypeOK
    <2>3. todo' \in Seq(Step)
      BY <1>1
    <2> QED BY <1>0, <1>1, <1>2, <2>1, <2>2, <2>3 DEF TypeOK
  <1>4. Table(mem', nvs'.count, touched') /\ Table(nvs', nvs'.count, {})
    BY <1>1, <1>2 DEF RegInv
  <1>5. Shape(todo')
    BY <1>1 DEF Shape
  <1>6. FilesInv'
    <2>1. Doomed(todo') = {} /\ Moving(todo') = {} /\ Len(todo') = 0
      BY <1>1 DEF Doomed, Moving
    <2>2. files' \subseteq Listed(mem') \union excused'
      BY <1>1, <1>2 DEF RegInv, FilesInv
    <2> QED BY <1>1, <1>2, <2>1, <2>2 DEF FilesInv
  <1>7. KeptInv'
    BY <1>1, <1>2 DEF RegInv, KeptInv
  <1> QED BY <1>1, <1>3, <1>4, <1>5, <1>6, <1>7 DEF RegInv

\* The next step of a request is done: what is left.
LEMMA NextStep ==
    ASSUME TypeOK, Shape(todo), todo # <<>>, todo' = Tail(todo)
    PROVE  /\ todo[1] \in Step /\ Head(todo) = todo[1] /\ 1 \in 1 .. Len(todo)
           /\ Len(todo) \in Nat
           /\ todo' \in Seq(Step) /\ Shape(todo') /\ Leaves(todo, 1, todo')
           /\ Moving(todo') = {} /\ Doomed(todo') \subseteq Doomed(todo)
           /\ todo[1][1] # "unlink" => Doomed(todo') = Doomed(todo)
           /\ todo[1][1] = "unlink" => todo' = <<>>
  <1>1. todo \in Seq(Step)
    BY DEF TypeOK
  <1>2. /\ Head(todo) = todo[1] /\ todo[1] \in Step /\ Len(todo) \in Nat
        /\ 1 \in 1 .. Len(todo) /\ todo' \in Seq(Step) /\ Leaves(todo, 1, todo')
    BY <1>1, TailLeft
  <1>3. /\ Shape(todo') /\ Moving(todo') = {} /\ Doomed(todo') \subseteq Doomed(todo)
        /\ (\A i \in 1 .. 1 : todo[i][1] # "unlink") => Doomed(todo) \subseteq Doomed(todo')
        /\ (\E i \in 1 .. 1 : todo[i][1] = "unlink") => todo' = <<>>
    BY ZenonT(40), <1>1, <1>2, LeftOver
  <1>4. \A i : i \in 1 .. 1 <=> i = 1
    OBVIOUS
  <1>5. todo[1][1] # "unlink" => Doomed(todo) \subseteq Doomed(todo')
    BY <1>3, <1>4
  <1>6. todo[1][1] = "unlink" => todo' = <<>>
    BY <1>3, <1>4
  <1> QED BY <1>2, <1>3, <1>5, <1>6

\* A value is written.
LEMMA RegWrite == RegInv /\ Write => RegInv'
  <1> SUFFICES ASSUME RegInv, Write PROVE RegInv'
    OBVIOUS
  <1> DEFINE value == Head(todo)[2]
  <1>0. TypeOK /\ Shape(todo)
    BY DEF RegInv
  <1>1. /\ todo # <<>> /\ Head(todo)[1] = "write" /\ todo' = Tail(todo)
        /\ mem' = mem /\ requests' = requests /\ faults' = faults /\ torn' = torn
        /\ chosen' = chosen /\ files' = files /\ dev' = dev
        /\ nvs' = [nvs EXCEPT ![value] = mem[value]]
        /\ mixed' = (value # "map_count")
    BY DEF Write, Do
  <1>2. /\ mixed' => kept' = kept /\ excused' = excused /\ touched' = touched
        /\ ~mixed' => /\ kept' = chosen /\ excused' = excused \ Listed(mem)
                      /\ touched' = {id \in Id : <<"unlink", id>> \in
                                                     {todo'[i] : i \in DOMAIN todo'}}
    BY DEF Write
  <1>3. /\ todo[1] \in Step /\ Head(todo) = todo[1] /\ 1 \in 1 .. Len(todo)
        /\ Len(todo) \in Nat
        /\ todo' \in Seq(Step) /\ Shape(todo') /\ Leaves(todo, 1, todo')
        /\ Moving(todo') = {} /\ Doomed(todo') \subseteq Doomed(todo)
        /\ todo[1][1] # "unlink" => Doomed(todo') = Doomed(todo)
    BY <1>0, <1>1, NextStep
  <1>4. /\ todo[1] = <<"write", value>> /\ value = todo[1][2]
        /\ value \in {"clients", "modes", "count", "maps", "map_count"}
    BY <1>1, <1>3, StepKinds
  <1>5. SavedUpTo(value, nvs, mem) /\ Table(mem, nvs.count, touched)
        /\ Table(nvs, nvs.count, {})
    BY <1>1, <1>3, <1>4 DEF RegInv
  <1> HIDE DEF value
  <1>6. nvs' = Stored(nvs, mem, value)
    BY <1>1 DEF Stored
  <1>7. /\ Table(nvs', nvs'.count, {}) /\ Table(mem, nvs'.count, touched)
        /\ value = "map_count" => Table(mem, nvs'.count, {})
        /\ value = "map_count" => \A want : Fits(mem, want) => Fits(nvs', want)
        /\ SavedUpTo(value, nvs', mem)
        /\ value = "clients" => nvs'.clients = mem.clients
        /\ value = "modes" => nvs'.modes = mem.modes
        /\ value \in {"count", "map_count"} => nvs'.count = mem.count
        /\ value = "map_count" => Listed(nvs') = Listed(mem)
        /\ value \notin {"clients", "count"} => Listed(nvs') = Listed(nvs)
        /\ value \in {"clients", "count"} =>
               Listed(mem) \subseteq Listed(nvs') \union touched \union {NoId}
    <2>1. AfterWrite(value, nvs, mem, touched, nvs')
      BY <1>4, <1>5, <1>6, SavedTables
    <2> QED BY <2>1 DEF AfterWrite
  <1>8. Moving(todo) = {}
    BY <1>0, <1>1, <1>3 DEF Moving, Shape
  <1>9. ~mixed' => touched' = Doomed(todo')
    <2>1. ASSUME NEW i \in 1 .. Len(todo'), NEW id
          PROVE  todo'[i] = <<"unlink", id>> <=> todo'[i][1] = "unlink" /\ todo'[i][2] = id
      BY <1>3, StepKinds
    <2>2. DOMAIN todo' = 1 .. Len(todo')
      BY <1>3
    <2>3. ASSUME NEW id
          PROVE  <<"unlink", id>> \in {todo'[i] : i \in DOMAIN todo'}
                     <=> \E i \in 1 .. Len(todo') : todo'[i][1] = "unlink" /\ todo'[i][2] = id
      BY <2>1, <2>2
    <2> QED BY <1>2, <2>3 DEF Doomed
  <1>10. files \subseteq Listed(mem) \union excused \union Doomed(todo')
    BY <1>1, <1>3, <1>8 DEF RegInv, FilesInv
  <1>11. files \subseteq Id /\ NoId \notin Id
    BY <1>0, StoreAssumption DEF TypeOK
  <1>12. TypeOK'
    <2>1. nvs' \in Registry
      BY <1>7 DEF Table
    <2>2. mixed' \in BOOLEAN
      BY <1>1
    <2>3. touched' \subseteq Id /\ excused' \subseteq Id /\
          kept' \in [Id -> Wanted]
      BY <1>0, <1>2, <2>2 DEF TypeOK
    <2> QED BY <1>0, <1>1, <1>3, <2>1, <2>2, <2>3 DEF TypeOK
  <1>13. Table(mem', nvs'.count, touched')
    <2>1. CASE mixed'
      BY <1>1, <1>2, <1>7, <2>1
    <2>2. CASE ~mixed'
      <3>1. Table(mem, nvs'.count, {})
        BY <1>1, <1>7, <2>2
      <3> QED BY <1>1, <3>1, TableGrows
    <2> QED BY <2>1, <2>2
  <1>14. todo' # <<>> /\ todo'[1][1] = "write" => SavedUpTo(todo'[1][2], nvs', mem')
    <2> SUFFICES ASSUME todo' # <<>>, todo'[1][1] = "write"
                 PROVE  SavedUpTo(todo'[1][2], nvs', mem)
      BY <1>1
    <2>1. 1 \in 1 .. Len(todo') /\ todo'[1] = todo[2] /\ Len(todo') = Len(todo) - 1
          /\ 1 < Len(todo)
      BY <1>3 DEF Leaves
    <2>2. value # "map_count"
      BY <1>0, <1>3, <1>4, <2>1 DEF Shape
    <2>3. todo[2] = <<"write", After[value]>>
      <3>1. todo[1 + 1] = <<"write", After[value]>>
        BY <1>0, <1>3, <1>4, <2>2 DEF Shape
      <3> QED BY <3>1
    <2>4. todo'[1][2] = After[value]
      BY <2>1, <2>3
    <2>5. SavedUpTo(After[value], nvs', mem)
      BY <1>4, <1>7, <2>2 DEF SavedUpTo, After
    <2> QED BY <2>4, <2>5
  <1>15. FilesInv'
    <2>1. \A i \in 1 .. Len(todo') : todo'[i][1] # "move"
      <3>1. \A i \in 1 .. Len(todo') : todo'[i] = todo[i + 1] /\ i + 1 \in 1 .. Len(todo)
                                       /\ i + 1 # 1
        BY <1>3 DEF Leaves
      <3> QED BY <1>0, <3>1 DEF Shape
    <2>2. Doomed(todo') \subseteq touched'
      BY <1>2, <1>3, <1>9 DEF RegInv, FilesInv
    <2>3. files \subseteq Listed(mem) \union excused' \union Doomed(todo')
      BY <1>2, <1>10
    <2>4. files \subseteq Listed(nvs') \union excused' \union touched'
      <3>1. CASE value = "map_count"
        BY <1>1, <1>7, <1>9, <2>3, <3>1
      <3>2. CASE value \in {"clients", "count"}
        <4>1. mixed'
          BY <1>1, <3>2
        <4> QED BY <1>2, <1>7, <1>11, <2>2, <2>3, <3>2, <4>1
      <3>3. CASE value \in {"modes", "maps"}
        <4>1. mixed' /\ Listed(nvs') = Listed(nvs)
          BY <1>1, <1>7, <3>3
        <4> QED BY <1>2, <4>1 DEF RegInv, FilesInv
      <3> QED BY <1>4, <3>1, <3>2, <3>3
    <2> QED BY <1>1, <1>3, <2>1, <2>2, <2>3, <2>4 DEF FilesInv
  <1>16. KeptInv'
    <2> SUFFICES ASSUME ~torn' PROVE Fits(mem', chosen') /\ (~mixed' => Fits(nvs', kept'))
      BY DEF KeptInv
    <2>1. Fits(mem, chosen)
      BY <1>1 DEF RegInv, KeptInv
    <2>2. ~mixed' => Fits(nvs', kept')
      BY <1>1, <1>2, <1>7, <2>1
    <2> QED BY <1>1, <2>1, <2>2
  <1> QED BY <1>3, <1>7, <1>12, <1>13, <1>14, <1>15, <1>16 DEF RegInv

\* A step that leaves both tables alone keeps what is said of them.
LEMMA SameTables ==
    ASSUME RegInv, mem' = mem, nvs' = nvs, touched' = touched, torn' = torn, mixed' = mixed,
           chosen' = chosen, kept' = kept
    PROVE  /\ Table(mem', nvs'.count, touched') /\ Table(nvs', nvs'.count, {})
           /\ KeptInv'
  <1>1. Table(mem, nvs.count, touched) /\ Table(nvs, nvs.count, {}) /\ KeptInv
    BY DEF RegInv
  <1>2. KeptInv'
    BY <1>1 DEF KeptInv
  <1> QED BY <1>1, <1>2

\* The writes left of a save are given up.
LEMMA RegWriteFails == RegInv /\ WriteFails => RegInv'
  <1> SUFFICES ASSUME RegInv, WriteFails PROVE RegInv'
    OBVIOUS
  <1>0. TypeOK /\ Shape(todo) /\ FilesInv
    BY DEF RegInv
  <1>1. /\ faults < MaxFaults /\ faults' = faults + 1
        /\ mem' = mem /\ nvs' = nvs /\ files' = files /\ dev' = dev /\ requests' = requests
        /\ mixed' = mixed /\ torn' = torn /\ touched' = touched /\ excused' = excused
        /\ chosen' = chosen /\ kept' = kept
    BY DEF WriteFails, ghosts
  <1>2. PICK n \in 1 .. Len(todo) :
            /\ \A i \in 1 .. n : todo[i][1] = "write"
            /\ n < Len(todo) => todo[n + 1][1] # "write"
            /\ todo' = SubSeq(todo, n + 1, Len(todo))
    BY DEF WriteFails
  <1>3. todo \in Seq(Step) /\ Len(todo) \in Nat /\ n \in Nat
    BY <1>0 DEF TypeOK
  <1>4. /\ todo' \in Seq(Step) /\ Len(todo') = Len(todo) - n
        /\ \A i \in 1 .. Len(todo') : todo'[i] = todo[i + n]
    BY <1>2, <1>3
  <1>5. Leaves(todo, n, todo')
    BY <1>4 DEF Leaves
  <1>6. /\ Shape(todo') /\ Moving(todo') = {} /\ Doomed(todo') \subseteq Doomed(todo)
        /\ Doomed(todo) \subseteq Doomed(todo')
    <2>1. todo' \in Seq(Step)
      BY <1>4
    <2>2. \A i \in 1 .. n : todo[i][1] # "unlink"
      BY <1>2
    <2> QED BY <1>0, <1>3, <1>5, <2>1, <2>2, LeftOver
  <1>7. Moving(todo) = {}
    <2>1. 1 \in 1 .. n /\ 1 \in 1 .. Len(todo)
      BY <1>3
    <2>2. todo[1][1] # "move"
      BY <1>2, <2>1
    <2> QED BY <1>0, <2>2 DEF Moving, Shape
  <1>8. \A i \in 1 .. Len(todo') : todo'[i][1] # "move"
    <2>1. \A i \in 1 .. Len(todo') : i + n \in 1 .. Len(todo) /\ i + n # 1
      BY <1>3, <1>4
    <2> QED BY <1>0, <1>4, <2>1 DEF Shape
  <1>9. todo' # <<>> => todo'[1][1] # "write"
    <2> SUFFICES ASSUME todo' # <<>> PROVE todo'[1][1] # "write"
      OBVIOUS
    <2>1. 1 \in 1 .. Len(todo')
      BY <1>4
    <2>2. n < Len(todo) /\ todo'[1] = todo[1 + n] /\ 1 + n = n + 1
      BY <1>3, <1>4, <2>1
    <2> QED BY <1>2, <2>2
  <1>10. TypeOK'
    <2>1. faults' \in 0 .. MaxFaults
      BY <1>0, <1>1, StoreAssumption DEF TypeOK
    <2> QED BY <1>0, <1>1, <1>4, <2>1 DEF TypeOK
  <1>11. FilesInv'
    BY <1>0, <1>1, <1>6, <1>7, <1>8 DEF FilesInv
  <1> QED BY <1>1, <1>6, <1>9, <1>10, <1>11, SameTables DEF RegInv

\* A file is moved.
LEMMA RegMoveFile == RegInv /\ MoveFile => RegInv'
  <1> SUFFICES ASSUME RegInv, MoveFile PROVE RegInv'
    OBVIOUS
  <1> DEFINE old == Head(todo)[2]
             new == Head(todo)[3]
  <1>0. TypeOK /\ Shape(todo) /\ FilesInv
    BY DEF RegInv
  <1>1. /\ todo # <<>> /\ Head(todo)[1] = "move" /\ todo' = Tail(todo)
        /\ mem' = mem /\ requests' = requests /\ faults' = faults /\ torn' = torn
        /\ chosen' = chosen /\ nvs' = nvs /\ dev' = dev /\ mixed' = mixed
        /\ touched' = touched /\ excused' = excused /\ kept' = kept
        /\ files' = IF old \in files THEN (files \ {old}) \union {new} ELSE files
    BY DEF MoveFile, Do
  <1>3. /\ todo[1] \in Step /\ Head(todo) = todo[1] /\ 1 \in 1 .. Len(todo)
        /\ Len(todo) \in Nat
        /\ todo' \in Seq(Step) /\ Shape(todo') /\ Leaves(todo, 1, todo')
        /\ Moving(todo') = {} /\ Doomed(todo') \subseteq Doomed(todo)
        /\ todo[1][1] # "unlink" => Doomed(todo') = Doomed(todo)
    BY <1>0, <1>1, NextStep
  <1>4. /\ todo[1][1] = "move" /\ todo[1][2] = old /\ todo[1][3] = new
        /\ old \in Id /\ new \in Id
    BY <1>1, <1>3, StepKinds
  <1> HIDE DEF old, new
  <1>5. Moving(todo) \subseteq {old}
    BY <1>0, <1>4 DEF Moving, Shape
  <1>6. new \in touched /\ new \in Listed(mem) \union excused
    BY <1>0, <1>3, <1>4 DEF FilesInv
  <1>7. \A i \in 1 .. Len(todo') : todo'[i] = todo[i + 1] /\ i + 1 \in 1 .. Len(todo)
                                   /\ i + 1 # 1
    BY <1>3 DEF Leaves
  <1>8. \A i \in 1 .. Len(todo') : todo'[i][1] # "move"
    BY <1>0, <1>7 DEF Shape
  <1>9. todo' # <<>> => todo'[1] = <<"write", "clients">>
    <2>1. todo[2] = <<"write", "clients">>
      BY <1>0, <1>3, <1>4 DEF Shape
    <2>2. todo' # <<>> => 1 \in 1 .. Len(todo')
      BY <1>3
    <2>3. todo' # <<>> => todo'[1] = todo[1 + 1]
      BY <1>7, <2>2
    <2> QED BY <2>1, <2>3
  <1>10. SavedUpTo("clients", nvs', mem')
    BY DEF SavedUpTo
  <1>11. TypeOK'
    BY <1>0, <1>1, <1>3, <1>4 DEF TypeOK
  <1>12. FilesInv'
    <2>1. Doomed(todo') = Doomed(todo)
      BY <1>3, <1>4
    <2>2. files' \subseteq Listed(mem) \union excused \union Doomed(todo)
      BY <1>0, <1>1, <1>5, <1>6 DEF FilesInv
    <2>3. files' \subseteq Listed(nvs) \union excused \union touched
      BY <1>0, <1>1, <1>6 DEF FilesInv
    <2> QED BY <1>0, <1>1, <1>3, <1>8, <2>1, <2>2, <2>3 DEF FilesInv
  <1> QED BY <1>1, <1>3, <1>9, <1>10, <1>11, <1>12, SameTables DEF RegInv

\* A file is left by a move or a removal that fails.
LEMMA RegFileFails == RegInv /\ FileFails => RegInv'
  <1> SUFFICES ASSUME RegInv, FileFails PROVE RegInv'
    OBVIOUS
  <1> DEFINE op == Head(todo)
  <1>0. TypeOK /\ Shape(todo) /\ FilesInv
    BY DEF RegInv
  <1>1. /\ faults < MaxFaults /\ faults' = faults + 1
        /\ todo # <<>> /\ op[1] \in {"move", "unlink"} /\ op[2] \in files
        /\ todo' = Tail(todo)
        /\ mem' = mem /\ requests' = requests /\ torn' = torn
        /\ chosen' = chosen /\ nvs' = nvs /\ dev' = dev /\ mixed' = mixed
        /\ touched' = touched /\ kept' = kept
        /\ excused' = excused \union {op[2]}
        /\ op[1] = "unlink" => files' = files
        /\ op[1] = "move" => files' \subseteq files \union {op[3]}
    BY DEF FileFails
  <1>3. /\ todo[1] \in Step /\ op = todo[1] /\ 1 \in 1 .. Len(todo)
        /\ Len(todo) \in Nat
        /\ todo' \in Seq(Step) /\ Shape(todo') /\ Leaves(todo, 1, todo')
        /\ Moving(todo') = {} /\ Doomed(todo') \subseteq Doomed(todo)
        /\ todo[1][1] # "unlink" => Doomed(todo') = Doomed(todo)
        /\ todo[1][1] = "unlink" => todo' = <<>>
    BY <1>0, <1>1, NextStep
  <1>4. op[2] \in Id /\ (op[1] = "move" => op[3] \in Id)
    BY <1>1, <1>3, StepKinds
  <1> HIDE DEF op
  <1>5. \A i \in 1 .. Len(todo') : todo'[i] = todo[i + 1] /\ i + 1 \in 1 .. Len(todo)
                                   /\ i + 1 # 1
    BY <1>3 DEF Leaves
  <1>6. \A i \in 1 .. Len(todo') : todo'[i][1] # "move"
    BY <1>0, <1>5 DEF Shape
  <1>7. Moving(todo) \union Doomed(todo) \subseteq {op[2]} \union Doomed(todo')
    <2>1. CASE op[1] = "move"
      <3>1. Moving(todo) \subseteq {op[2]}
        BY <1>0, <1>3 DEF Moving, Shape
      <3> QED BY <1>3, <2>1, <3>1
    <2>2. CASE op[1] = "unlink"
      <3>1. \A i \in 1 .. Len(todo) : i = 1
        BY <1>0, <1>3, <2>2 DEF Shape
      <3> QED BY <1>3, <3>1 DEF Moving, Doomed
    <2> QED BY <1>1, <2>1, <2>2
  <1>8. op[1] = "move" => op[3] \in touched /\ op[3] \in Listed(mem) \union excused
    BY <1>0, <1>3 DEF FilesInv
  <1>9. TypeOK'
    <2>1. faults' \in 0 .. MaxFaults
      BY <1>0, <1>1, StoreAssumption DEF TypeOK
    <2>2. files' \subseteq Id /\ excused' \subseteq Id
      BY <1>0, <1>1, <1>4 DEF TypeOK
    <2> QED BY <1>0, <1>1, <1>3, <2>1, <2>2 DEF TypeOK
  <1>10. FilesInv'
    <2>1. files' \subseteq Listed(mem) \union excused' \union Doomed(todo')
      BY <1>0, <1>1, <1>7, <1>8 DEF FilesInv
    <2>2. files' \subseteq Listed(nvs) \union excused' \union touched
      BY <1>0, <1>1, <1>8 DEF FilesInv
    <2>3. Doomed(todo') \subseteq touched
      BY <1>0, <1>3 DEF FilesInv
    <2> QED BY <1>1, <1>3, <1>6, <2>1, <2>2, <2>3 DEF FilesInv
  <1>11. todo' # <<>> => todo'[1] = <<"write", "clients">>
    <2> SUFFICES ASSUME todo' # <<>> PROVE todo'[1] = <<"write", "clients">>
      OBVIOUS
    <2>1. todo[1][1] = "move"
      BY <1>1, <1>3
    <2>2. todo[2] = <<"write", "clients">>
      BY <1>0, <1>3, <2>1 DEF Shape
    <2>3. 1 \in 1 .. Len(todo')
      BY <1>3
    <2>4. todo'[1] = todo[1 + 1]
      BY <1>5, <2>3
    <2> QED BY <2>2, <2>4
  <1>12. SavedUpTo("clients", nvs', mem')
    BY DEF SavedUpTo
  <1> QED BY <1>1, <1>3, <1>9, <1>10, <1>11, <1>12, SameTables DEF RegInv

\* A file is removed.
LEMMA RegUnlink == RegInv /\ Unlink => RegInv'
  <1> SUFFICES ASSUME RegInv, Unlink PROVE RegInv'
    OBVIOUS
  <1> DEFINE id == Head(todo)[2]
  <1>0. TypeOK /\ Shape(todo) /\ FilesInv
    BY DEF RegInv
  <1>1. /\ todo # <<>> /\ Head(todo)[1] = "unlink" /\ todo' = Tail(todo)
        /\ mem' = mem /\ requests' = requests /\ faults' = faults /\ torn' = torn
        /\ chosen' = chosen /\ nvs' = nvs /\ dev' = dev /\ mixed' = mixed
        /\ touched' = touched /\ excused' = excused /\ kept' = kept
        /\ files' = files \ {id}
    BY DEF Unlink, Do
  <1>2. /\ Head(todo) = todo[1] /\ 1 \in 1 .. Len(todo) /\ Len(todo) \in Nat
        /\ todo' \in Seq(Step) /\ Shape(todo') /\ todo[1][1] = "unlink" /\ todo' = <<>>
    BY <1>0, <1>1, NextStep
  <1>3. Len(todo') = 0 /\ Doomed(todo') = {} /\ Moving(todo') = {}
    BY <1>2 DEF Doomed, Moving
  <1>4. \A i \in 1 .. Len(todo) : i = 1
    BY <1>0, <1>2 DEF Shape
  <1>5. Doomed(todo) \subseteq {id} /\ Moving(todo) = {}
    BY <1>2, <1>4 DEF Doomed, Moving
  <1>6. TypeOK'
    BY <1>0, <1>1, <1>2 DEF TypeOK
  <1>7. FilesInv'
    BY <1>0, <1>1, <1>3, <1>5 DEF FilesInv
  <1> QED BY <1>1, <1>2, <1>6, <1>7, SameTables DEF RegInv

\* The logger hears the answer.
LEMMA RegAnswer == RegInv /\ Answer => RegInv'
  <1> SUFFICES ASSUME RegInv, Answer PROVE RegInv'
    OBVIOUS
  <1> DEFINE d == Head(todo)[2]
             id == resolve_id(mem, dev[d].id)
             named == {mem.clients[s].name : s \in Get(mem, id)} \ {NoName}
  <1>0. TypeOK /\ Shape(todo) /\ FilesInv
    BY DEF RegInv
  <1>1. /\ todo # <<>> /\ Head(todo)[1] = "answer" /\ todo' = Tail(todo)
        /\ mem' = mem /\ requests' = requests /\ faults' = faults /\ torn' = torn
        /\ chosen' = chosen /\ nvs' = nvs /\ files' = files /\ mixed' = mixed
        /\ touched' = touched /\ excused' = excused /\ kept' = kept
    BY DEF Answer, Do
  <1>2. PICK name \in IF named = {} THEN {dev[d].name} ELSE named :
            dev' = [dev EXCEPT ![d] = [id |-> id, name |-> name]]
    BY DEF Answer
  <1>3. /\ Head(todo) = todo[1] /\ todo[1] \in Step /\ 1 \in 1 .. Len(todo)
        /\ Len(todo) \in Nat
        /\ todo' \in Seq(Step) /\ Shape(todo') /\ Leaves(todo, 1, todo')
        /\ Moving(todo') = {} /\ Doomed(todo') = Doomed(todo)
    BY <1>0, <1>1, NextStep
  <1>4. todo[1][1] = "answer" /\ d \in Device
    BY <1>1, <1>3, StepKinds
  <1>5. todo' = <<>>
    <2>1. 1 = Len(todo)
      BY <1>0, <1>3, <1>4 DEF Shape
    <2>2. Len(todo') = Len(todo) - 1
      BY <1>3 DEF Leaves
    <2>3. Len(todo') = 0
      BY <2>1, <2>2
    <2> QED BY <1>3, <2>3
  <1>6. \A i \in 1 .. Len(todo) : i = 1
    BY <1>0, <1>3, <1>4 DEF Shape
  <1>7. Moving(todo) = {}
    BY <1>4, <1>6 DEF Moving
  <1>8. dev' \in [Device -> [id : Id, name : Name \union {NoName}]]
    <2>1. mem \in Registry /\ RegOk(mem)
      BY DEF RegInv, Table
    <2>2. dev[d] \in [id : Id, name : Name \union {NoName}]
      BY <1>0, <1>4 DEF TypeOK
    <2>3. id \in Id
      BY <2>1, <2>2, PendingFound
    <2>4. \A s \in Get(mem, id) : mem.clients[s].name \in Name \union {NoName}
      BY <2>1, GetFinds, RegistryParts DEF Entry
    <2>5. name \in Name \union {NoName}
      BY <1>2, <2>2, <2>4
    <2> HIDE DEF id, d
    <2> QED BY <1>0, <1>2, <1>4, <2>3, <2>5 DEF TypeOK
  <1>9. TypeOK'
    BY <1>0, <1>1, <1>3, <1>8 DEF TypeOK
  <1>10. FilesInv'
    <2>1. Len(todo') = 0
      BY <1>5
    <2> QED BY <1>0, <1>1, <1>3, <1>7, <2>1 DEF FilesInv
  <1> QED BY <1>1, <1>3, <1>5, <1>9, <1>10, SameTables DEF RegInv

-----------------------------------------------------------------------------
\* The four forms of a request.
LEMMA Plans ==
    ASSUME NEW m \in Seq(Step), NEW r \in Seq(Step)
    PROVE  /\ Whole(m \o Save \o r, m, r) /\ Whole(m \o Save, m, <<>>)
           /\ Whole(Save \o r, <<>>, r) /\ Whole(Save, <<>>, <<>>)
  <1>1. PICK v \in Seq(Step) : v = Save /\ Len(v) = 5
    BY SaveSteps
  <1>3. /\ m \o v \in Seq(Step) /\ Len(m \o v) = Len(m) + Len(v)
        /\ \A i \in 1 .. Len(m) : (m \o v)[i] = m[i]
        /\ \A i \in 1 .. Len(v) : (m \o v)[Len(m) + i] = v[i]
    OBVIOUS
  <1>4. /\ v \o r \in Seq(Step) /\ Len(v \o r) = Len(v) + Len(r)
        /\ \A i \in 1 .. Len(v) : (v \o r)[i] = v[i]
        /\ \A i \in 1 .. Len(r) : (v \o r)[Len(v) + i] = r[i]
    OBVIOUS
  <1>5. /\ Len(<<>>) = 0 /\ Len(m) \in Nat /\ Len(r) \in Nat
        /\ \A i \in 1 .. 5 : 0 + i = i
    OBVIOUS
  <1>2. Whole(m \o Save \o r, m, r)
    <2>1. PICK w \in Seq(Step) : w = m \o v
      BY <1>3
    <2>2. /\ w \o r \in Seq(Step) /\ Len(w \o r) = Len(w) + Len(r)
          /\ \A i \in 1 .. Len(w) : (w \o r)[i] = w[i]
          /\ \A i \in 1 .. Len(r) : (w \o r)[Len(w) + i] = r[i]
      OBVIOUS
    <2>3. /\ Len(w) = Len(m) + 5
          /\ \A i \in 1 .. Len(m) : w[i] = m[i] /\ i \in 1 .. Len(w)
          /\ \A i \in 1 .. 5 : w[Len(m) + i] = v[i] /\ Len(m) + i \in 1 .. Len(w)
      BY SMTT(30), <1>1, <1>3, <1>5, <2>1
    <2>4. Whole(w \o r, m, r)
      BY SMTT(30), <1>1, <1>5, <2>2, <2>3 DEF Whole
    <2> QED BY <1>1, <2>1, <2>4
  <1>6. Whole(m \o Save, m, <<>>)
    BY <1>1, <1>3, <1>5 DEF Whole
  <1>7. Whole(Save \o r, <<>>, r)
    BY <1>1, <1>4, <1>5 DEF Whole
  <1>8. Whole(Save, <<>>, <<>>)
    BY <1>1, <1>5 DEF Whole
  <1> QED BY <1>2, <1>6, <1>7, <1>8

\* What may come before a save, and after it.
LEMMA Ends ==
    /\ <<>> \in Seq(Step) /\ Front(<<>>) /\ Rear(<<>>)
    /\ \A x \in Step : /\ <<x>> \in Seq(Step) /\ Len(<<x>>) = 1 /\ <<x>>[1] = x
                       /\ x[1] = "move" => Front(<<x>>)
                       /\ x[1] \in {"unlink", "answer"} => Rear(<<x>>)
    /\ \A old, new \in Id : /\ <<"move", old, new>> \in Step
                            /\ <<"move", old, new>>[1] = "move"
                            /\ <<"move", old, new>>[2] = old
                            /\ <<"move", old, new>>[3] = new
    /\ \A id \in Id : /\ <<"unlink", id>> \in Step /\ <<"unlink", id>>[1] = "unlink"
                      /\ <<"unlink", id>>[2] = id
    /\ \A d \in Device : <<"answer", d>> \in Step /\ <<"answer", d>>[1] = "answer"
  <1>1. <<>> \in Seq(Step) /\ Front(<<>>) /\ Rear(<<>>)
    BY DEF Front, Rear
  <1>2. ASSUME NEW x \in Step
        PROVE  /\ <<x>> \in Seq(Step) /\ Len(<<x>>) = 1 /\ <<x>>[1] = x
               /\ x[1] = "move" => Front(<<x>>)
               /\ x[1] \in {"unlink", "answer"} => Rear(<<x>>)
    BY DEF Front, Rear
  <1>3. /\ \A old, new \in Id : <<"move", old, new>> \in Step
        /\ \A id \in Id : <<"unlink", id>> \in Step
        /\ \A d \in Device : <<"answer", d>> \in Step
    BY DEF Step
  <1> QED BY <1>1, <1>2, <1>3

\* A request begins.  Its ids are not saved, its tables fit, what it takes from
\* the list it moves or removes, and every file it writes is listed or excused.
Begun(m, r, q, T) ==
    /\ m \in Seq(Step) /\ Front(m) /\ r \in Seq(Step) /\ Rear(r) /\ Whole(q, m, r)
    /\ Len(m) = 1 => m[1][2] \in T /\ m[1][3] \in T
    /\ Len(r) = 1 /\ r[1][1] = "unlink" => r[1][2] \in T

\* The invariant after a request has begun.
LEMMA RequestBegins ==
    ASSUME RegInv, TypeOK', todo = <<>>,
           NEW m, NEW r, NEW T, Begun(m, r, todo', T),
           touched' = touched \union T, nvs' = nvs, mixed' = mixed, torn' = torn,
           kept' = kept, excused \subseteq excused', T \subseteq Id,
           Table(mem', nvs.count, touched'),
           Fits(mem, chosen) => Fits(mem', chosen'),
           Len(m) = 1 => m[1][3] \in Listed(mem') \union excused',
           \A x \in Listed(mem) \cap Id :
               \/ x \in Listed(mem')
               \/ Len(m) = 1 /\ m[1][2] = x
               \/ Len(r) = 1 /\ r[1][1] = "unlink" /\ r[1][2] = x,
           files' \subseteq files \union (T \cap (Listed(mem') \union excused'))
    PROVE  RegInv'
  <1>1. /\ todo' \in Seq(Step) /\ Shape(todo') /\ todo' # <<>>
        /\ todo'[1][1] = "write" => todo'[1][2] = "clients"
        /\ \A i \in 1 .. Len(todo') :
               /\ todo'[i][1] = "move" => Len(m) = 1 /\ todo'[i] = m[1]
               /\ todo'[i][1] = "unlink" => Len(r) = 1 /\ todo'[i] = r[1]
    BY WholeRequest DEF Begun
  <1>2. SavedUpTo("clients", nvs', mem')
    BY DEF SavedUpTo
  <1>3. Doomed(todo') \subseteq T /\ Moving(todo') \subseteq T
    BY <1>1 DEF Doomed, Moving, Begun
  <1>4. /\ Len(m) = 1 => m[1][2] \in Moving(todo')
        /\ Len(r) = 1 /\ r[1][1] = "unlink" => r[1][2] \in Doomed(todo')
    <2>1. ASSUME Len(m) = 1 PROVE m[1][2] \in Moving(todo')
      <3>1. /\ \A i \in 1 .. Len(m) : todo'[i] = m[i]
            /\ Len(todo') = Len(m) + 5 + Len(r) /\ Len(r) \in Nat /\ m[1][1] = "move"
        BY <2>1 DEF Begun, Whole, Front
      <3>2. 1 \in 1 .. Len(m) /\ 1 \in 1 .. Len(todo')
        BY <2>1, <3>1
      <3> QED BY <2>1, <3>1, <3>2 DEF Moving, Begun
    <2>2. ASSUME Len(r) = 1, r[1][1] = "unlink" PROVE r[1][2] \in Doomed(todo')
      <3>1. /\ \A i \in 1 .. Len(r) : todo'[Len(m) + 5 + i] = r[i]
            /\ Len(todo') = Len(m) + 5 + Len(r) /\ Len(m) \in Nat
        BY DEF Begun, Whole
      <3>2. 1 \in 1 .. Len(r) /\ Len(m) + 5 + 1 \in 1 .. Len(todo')
        BY <2>2, <3>1
      <3> QED BY <2>2, <3>1, <3>2 DEF Doomed, Begun
    <2> QED BY <2>1, <2>2
  <1>5. files \subseteq Listed(mem) \union excused /\ files \subseteq Id
    BY DEF RegInv, FilesInv, Doomed, Moving, TypeOK
  <1>6. FilesInv'
    <2>1. files' \subseteq Listed(mem') \union excused' \union Doomed(todo')
                           \union Moving(todo')
      BY <1>4, <1>5
    <2>2. files' \subseteq Listed(nvs') \union excused' \union touched'
      BY DEF RegInv, FilesInv
    <2>3. \A i \in 1 .. Len(todo') : todo'[i][1] = "move" =>
              todo'[i][3] \in touched' /\ todo'[i][3] \in Listed(mem') \union excused'
      BY <1>1 DEF Begun
    <2> QED BY <1>3, <2>1, <2>2, <2>3 DEF FilesInv
  <1>7. KeptInv'
    BY DEF RegInv, KeptInv
  <1>8. Table(nvs', nvs'.count, {})
    BY DEF RegInv
  <1> QED BY <1>1, <1>2, <1>6, <1>7, <1>8 DEF RegInv

\* A request that sets a name or a mode begins.
LEMMA RegConfigure ==
    ASSUME RegInv, NEW id \in Id, NEW field,
           NEW name \in [Name \union {NoName} -> Name \union {NoName}],
           field = "name" => \A x, y \in Name \union {NoName} : name[x] = name[y],
           NEW basic \in [BOOLEAN -> BOOLEAN],
           field = "basic" => \A x, y \in BOOLEAN : basic[x] = basic[y],
           Configure(id, field, name, basic)
    PROVE  RegInv'
  <1>0. TypeOK /\ mem \in Registry /\ nvs.count \in Nat
    BY RegistryParts DEF RegInv, TypeOK
  <1> DEFINE wish == [name |-> name[Wish(id).name], basic |-> basic[Wish(id).basic],
                      lost |-> Wish(id).lost \ {field}]
             T == touched \union {id}
  <1>1. /\ requests < MaxRequests /\ requests' = requests + 1
        /\ todo = <<>> /\ todo' = Save /\ touched' = T
        /\ nvs' = nvs /\ faults' = faults /\ mixed' = mixed /\ torn' = torn /\ kept' = kept
        /\ chosen' = [chosen EXCEPT ![id] = wish]
        /\ files' = files /\ dev' = dev /\ excused' = excused
    BY DEF Configure, Request, Begin
  <1>2. PICK a : a = Added(mem, id)
    OBVIOUS
  <1>3. PICK s \in Get(a, id) :
            mem' = [a EXCEPT !.clients[s].name = name[@], !.modes[s] = basic[@]]
    BY <1>2 DEF Configure
  <1>4. Table(mem, nvs.count, T) /\ id \in T
    BY TableGrows DEF RegInv
  <1>5. Table(a, nvs.count, T)
    BY <1>0, <1>2, <1>4, AddedTable
  <1>6. s \in Used(a) /\ s \in Slot /\ a.clients[s].id = id
    BY <1>5, OneSlot
  <1>7. /\ a \in Registry /\ a.clients \in [Slot -> Entry] /\ a.modes \in [Slot -> BOOLEAN]
    BY <1>5, RegistryParts DEF Table
  <1>8. PICK e : e = [a.clients[s] EXCEPT !.name = name[a.clients[s].name]]
    OBVIOUS
  <1>9. PICK b \in BOOLEAN : b = basic[a.modes[s]]
    BY <1>6, <1>7
  <1>10. e \in Entry /\ e.id = id /\ e.name = name[a.clients[s].name]
    <2>1. a.clients[s] \in Entry
      BY <1>6, <1>7
    <2> QED BY <1>6, <1>8, <2>1 DEF Entry
  <1>11. /\ mem'.clients = [a.clients EXCEPT ![s] = e]
         /\ mem'.modes = [a.modes EXCEPT ![s] = b]
         /\ mem'.count = a.count /\ mem'.maps = a.maps /\ mem'.map_count = a.map_count
         /\ mem' = [a EXCEPT !.clients = [a.clients EXCEPT ![s] = e],
                             !.modes = [a.modes EXCEPT ![s] = b]]
    BY <1>3, <1>7, <1>8, <1>9 DEF Registry
  <1>12. mem' \in Registry
    <2>1. [a.clients EXCEPT ![s] = e] \in [Slot -> Entry]
      BY <1>6, <1>7, <1>10
    <2>2. [a.modes EXCEPT ![s] = b] \in [Slot -> BOOLEAN]
      BY <1>7
    <2> QED BY <1>7, <1>11, <2>1, <2>2 DEF Registry
  <1>13. /\ Table(mem', nvs.count, T)
         /\ Listed(mem) \subseteq Listed(mem')
         /\ \A want, wi, w :
               /\ Fits(mem, want)
               /\ \A x \in Id \ {id} : wi[x] = want[x]
               /\ w = IF id \in Listed(mem) THEN want[id] ELSE Fresh
               => /\ Agrees(w, a.clients[s].name, a.modes[s])
                  /\ Agrees(wi[id], e.name, b) => Fits(mem', wi)
    <2> HIDE DEF T, wish
    <2>1. AfterSet(mem, nvs.count, T, id, a, s, e, b, mem')
      <3>1. /\ mem'.clients = [a.clients EXCEPT ![s] = e] /\ mem'.count = a.count
            /\ mem'.maps = a.maps /\ e \in Entry /\ e.id = id
        BY <1>10, <1>11
      <3>2. mem'.modes = [a.modes EXCEPT ![s] = b]
        BY <1>11
      <3> QED BY <1>0, <1>2, <1>4, <1>12, <3>1, <3>2, AddedAndSet
    <2> QED BY <2>1 DEF AfterSet
  <1>14. Fits(mem, chosen) => Fits(mem', chosen')
    <2> SUFFICES ASSUME Fits(mem, chosen) PROVE Fits(mem', chosen')
      OBVIOUS
    <2>1. Wish(id) = IF id \in Listed(mem) THEN chosen[id] ELSE Fresh
      BY <1>0, GetFinds DEF Wish
    <2>2. chosen'[id] = wish /\ \A x \in Id \ {id} : chosen'[x] = chosen[x]
      BY <1>0, <1>1 DEF TypeOK
    <2>3. Agrees(Wish(id), a.clients[s].name, a.modes[s])
      BY <1>13, <2>1, <2>2
    <2>4. Wish(id) \in Wanted /\ a.clients[s].name \in Name \union {NoName}
          /\ a.modes[s] \in BOOLEAN
      BY <1>0, <1>6, <1>7 DEF Wish, TypeOK, Fresh, Wanted, Entry
    <2>5. Agrees(chosen'[id], e.name, b)
      <3>1. /\ chosen'[id].name = name[Wish(id).name]
            /\ chosen'[id].basic = basic[Wish(id).basic]
            /\ chosen'[id].lost = Wish(id).lost \ {field}
        BY <2>2
      <3>2. "name" \in chosen'[id].lost \/ chosen'[id].name = e.name
        <4>1. CASE field = "name"
          BY <1>10, <2>4, <3>1, <4>1 DEF Wanted
        <4>2. CASE field # "name"
          BY <1>10, <2>3, <3>1, <4>2 DEF Agrees
        <4> QED BY <4>1, <4>2
      <3>3. "basic" \in chosen'[id].lost \/ chosen'[id].basic = b
        <4>1. CASE field = "basic"
          BY <1>9, <2>4, <3>1, <4>1 DEF Wanted
        <4>2. CASE field # "basic"
          BY <1>9, <2>3, <3>1, <4>2 DEF Agrees
        <4> QED BY <4>1, <4>2
      <3> QED BY <3>2, <3>3 DEF Agrees
    <2> QED BY <1>13, <2>1, <2>2, <2>5
  <1>15. TypeOK'
    <2>1. Wish(id) \in Wanted
      BY <1>0 DEF Wish, TypeOK, Fresh, Wanted
    <2>2. wish \in Wanted
      BY <2>1 DEF Wanted
    <2>3. chosen' \in [Id -> Wanted]
      BY <1>0, <1>1, <2>2 DEF TypeOK, Wanted
    <2>4. requests' \in 0 .. MaxRequests
      BY <1>0, <1>1, StoreAssumption DEF TypeOK
    <2>5. todo' \in Seq(Step)
      BY <1>1, SaveSteps
    <2>6. touched' \subseteq Id
      BY <1>0, <1>1 DEF TypeOK
    <2> QED BY <1>0, <1>1, <1>12, <2>3, <2>4, <2>5, <2>6 DEF TypeOK, Wanted
  <1>16. Begun(<<>>, <<>>, todo', {id})
    <2>1. Whole(todo', <<>>, <<>>)
      BY <1>1, Ends, Plans
    <2> QED BY <2>1, Ends DEF Begun
  <1>17. /\ todo = <<>> /\ touched' = touched \union {id} /\ nvs' = nvs
         /\ mixed' = mixed /\ torn' = torn /\ kept' = kept /\ excused \subseteq excused'
         /\ {id} \subseteq Id /\ Table(mem', nvs.count, touched')
         /\ Len(<<>>) # 1 /\ Listed(mem) \subseteq Listed(mem') /\ files' = files
    BY <1>1, <1>13
  <1> HIDE DEF T, wish
  <1> QED BY <1>14, <1>15, <1>16, <1>17, RequestBegins

\* A client is renamed.
LEMMA RegRename ==
    ASSUME RegInv, NEW id \in Id, NEW new \in Id, ClientIdPost(id, new)
    PROVE  RegInv'
  <1>0. TypeOK /\ mem \in Registry /\ RegOk(mem) /\ nvs.count \in Nat
    BY RegistryParts DEF RegInv, TypeOK, Table
  <1>1. PICK old : old = resolve_id(mem, id)
    OBVIOUS
  <1>2. old \in Id
    BY <1>0, <1>1, PendingFound
  <1> DEFINE m == <<<<"move", old, new>>>>
             T == touched \union {old, new}
  <1>3. /\ requests < MaxRequests /\ requests' = requests + 1
        /\ todo = <<>> /\ todo' = m \o Save /\ touched' = T
        /\ nvs' = nvs /\ faults' = faults /\ mixed' = mixed /\ torn' = torn /\ kept' = kept
        /\ chosen' = [chosen EXCEPT ![new] = chosen[old], ![old] = Fresh]
        /\ files' = files /\ dev' = dev /\ excused' = excused
        /\ old # new /\ Free(new)
        /\ Pending(mem, old) # {} \/ mem.map_count < MaxClients
    BY <1>1 DEF ClientIdPost, Request, Begin
  <1>4. PICK s \in Get(mem, old) :
            mem' = [Remembered(mem, old, new) EXCEPT !.clients[s].id = new]
    BY <1>1 DEF ClientIdPost
  <1>5. Table(mem, nvs.count, T) /\ new \in T /\ Get(mem, new) = {}
    BY <1>3, TableGrows DEF RegInv, Free
  <1>6. /\ m \in Seq(Step) /\ Front(m) /\ Len(m) = 1
        /\ m[1][2] = old /\ m[1][3] = new
    BY <1>2, Ends
  <1> HIDE DEF m, T
  <1>7. /\ Table(mem', nvs.count, T)
        /\ Listed(mem) \subseteq Listed(mem') \union {old} /\ new \in Listed(mem')
        /\ \A want, wish :
              /\ Fits(mem, want)
              /\ \A x \in Id \ {old, new} : wish[x] = want[x]
              /\ wish[new] = want[old]
              => Fits(mem', wish)
    <2>1. Pending(mem, old) # {} \/ mem.map_count < MaxClients
      BY <1>3
    <2>2. AfterRename(mem, nvs.count, T, old, new, mem')
      BY <1>0, <1>2, <1>4, <1>5, <2>1, RenamedTable
    <2> QED BY <2>2 DEF AfterRename
  <1>8. Fits(mem, chosen) => Fits(mem', chosen')
    <2>1. /\ chosen'[new] = chosen[old]
          /\ \A x \in Id \ {old, new} : chosen'[x] = chosen[x]
      BY <1>0, <1>2, <1>3 DEF TypeOK
    <2> QED BY <1>7, <2>1
  <1>9. TypeOK'
    <2>1. mem' \in Registry
      BY <1>7 DEF Table
    <2>2. chosen' \in [Id -> Wanted]
      <3>1. Fresh \in Wanted
        BY DEF Fresh, Wanted
      <3>2. chosen \in [Id -> Wanted]
        BY <1>0 DEF TypeOK, Wanted
      <3> QED BY <1>2, <1>3, <3>1, <3>2
    <2>3. requests' \in 0 .. MaxRequests
      BY <1>0, <1>3, StoreAssumption DEF TypeOK
    <2>4. todo' \in Seq(Step)
      BY <1>3, <1>6, SaveSteps
    <2>5. touched' \subseteq Id
      BY <1>0, <1>2, <1>3 DEF TypeOK, T
    <2> QED BY <1>0, <1>3, <2>1, <2>2, <2>3, <2>4, <2>5 DEF TypeOK, Wanted
  <1>10. Begun(m, <<>>, todo', {old, new})
    <2>1. Whole(todo', m, <<>>)
      BY <1>3, <1>6, Ends, Plans
    <2>2. Len(<<>>) # 1
      OBVIOUS
    <2> QED BY <1>6, <2>1, <2>2, Ends DEF Begun
  <1>11. /\ touched' = touched \union {old, new} /\ {old, new} \subseteq Id
         /\ Table(mem', nvs.count, touched') /\ excused \subseteq excused'
         /\ Len(m) = 1 => m[1][3] \in Listed(mem') \union excused'
         /\ \A x \in Listed(mem) \cap Id : x \in Listed(mem') \/ (Len(m) = 1 /\ m[1][2] = x)
         /\ files' \subseteq files
         /\ todo = <<>> /\ nvs' = nvs /\ mixed' = mixed /\ torn' = torn /\ kept' = kept
         /\ Len(<<>>) # 1
    BY <1>2, <1>3, <1>6, <1>7 DEF T
  <1> QED BY <1>8, <1>9, <1>10, <1>11, RequestBegins

\* A client is deleted.
LEMMA RegDelete ==
    ASSUME RegInv, NEW id \in Id, ClientDelete(id)
    PROVE  RegInv'
  <1>0. TypeOK /\ mem \in Registry /\ nvs.count \in Nat
    BY RegistryParts DEF RegInv, TypeOK
  <1> DEFINE r == <<<<"unlink", id>>>>
             T == touched \union {id}
  <1>1. /\ requests < MaxRequests /\ requests' = requests + 1
        /\ todo = <<>> /\ todo' = Save \o r /\ touched' = T
        /\ nvs' = nvs /\ faults' = faults /\ mixed' = mixed /\ torn' = torn /\ kept' = kept
        /\ chosen' = [chosen EXCEPT ![id] = Fresh]
        /\ files' = files /\ dev' = dev /\ excused' = excused
    BY DEF ClientDelete, Request, Begin
  <1>2. PICK s \in Get(mem, id) : mem' = Removed(mem, s)
    BY DEF ClientDelete
  <1>3. Table(mem, nvs.count, T)
    BY TableGrows DEF RegInv
  <1>4. s \in Used(mem) /\ mem.clients[s].id = id
    BY <1>0, <1>2, GetFinds
  <1>5. /\ r \in Seq(Step) /\ Rear(r) /\ Len(r) = 1
        /\ r[1][1] = "unlink" /\ r[1][2] = id
    BY Ends
  <1> HIDE DEF r, T
  <1>6. /\ Table(mem', nvs.count, T)
        /\ Listed(mem) \subseteq Listed(mem') \union {id}
        /\ \A want, wish : /\ Fits(mem, want)
                           /\ \A x \in Id \ {id} : wish[x] = want[x]
                           => Fits(mem', wish)
    BY <1>0, <1>2, <1>3, <1>4, RemovedTable
  <1>7. Fits(mem, chosen) => Fits(mem', chosen')
    <2>1. \A x \in Id \ {id} : chosen'[x] = chosen[x]
      BY <1>0, <1>1 DEF TypeOK
    <2> QED BY <1>6, <2>1
  <1>8. TypeOK'
    <2>1. mem' \in Registry
      BY <1>6 DEF Table
    <2>2. chosen' \in [Id -> Wanted]
      <3>1. Fresh \in Wanted
        BY DEF Fresh, Wanted
      <3>2. chosen \in [Id -> Wanted]
        BY <1>0 DEF TypeOK, Wanted
      <3> QED BY <1>1, <3>1, <3>2
    <2>3. requests' \in 0 .. MaxRequests
      BY <1>0, <1>1, StoreAssumption DEF TypeOK
    <2>4. todo' \in Seq(Step)
      BY <1>1, <1>5, SaveSteps
    <2>5. touched' \subseteq Id
      BY <1>0, <1>1 DEF TypeOK, T
    <2> QED BY <1>0, <1>1, <2>1, <2>2, <2>3, <2>4, <2>5 DEF TypeOK, Wanted
  <1>9. Begun(<<>>, r, todo', {id})
    <2>1. Whole(todo', <<>>, r)
      BY <1>1, <1>5, Ends, Plans
    <2>2. Len(<<>>) # 1
      OBVIOUS
    <2> QED BY <1>5, <2>1, <2>2, Ends DEF Begun
  <1>10. /\ touched' = touched \union {id} /\ {id} \subseteq Id
         /\ Table(mem', nvs.count, touched') /\ excused \subseteq excused'
         /\ Len(<<>>) # 1
         /\ \A x \in Listed(mem) \cap Id :
                x \in Listed(mem') \/ (Len(r) = 1 /\ r[1][1] = "unlink" /\ r[1][2] = x)
         /\ files' \subseteq files
    BY <1>1, <1>5, <1>6 DEF T
  <1> QED BY <1>1, <1>7, <1>8, <1>9, <1>10, RequestBegins

\* The entry that an unknown id takes over is one, and has an id.
LEMMA BoundIsOne ==
    ASSUME NEW reg \in Registry, RegOk(reg), NEW id \in Id, NEW d \in Device,
           NEW s \in Bound(reg, id, d)
    PROVE  /\ s \in Used(reg) /\ s \in Slot /\ Bound(reg, id, d) = {s}
           /\ reg.clients[s].id \in Id /\ reg.clients[s].id # id /\ id \notin Listed(reg)
  <1>1. /\ Get(reg, id) = {}
        /\ \A t \in Bound(reg, id, d) :
              /\ t \in Used(reg) /\ reg.clients[t].ip = d
              /\ \A u \in 1 .. t - 1 : reg.clients[u].ip # d
    BY DEF Bound
  <1>2. s \in Used(reg) /\ s \in Slot /\ reg.clients[s].ip = d
    BY <1>1, RegistryParts
  <1>3. reg.clients[s].id \in Id
    <2>1. reg.clients[s] \in Entry
      BY <1>2, RegistryParts
    <2>2. reg.clients[s].id # NoId
      BY <1>2, StoreAssumption DEF RegOk
    <2> QED BY <2>1, <2>2 DEF Entry
  <1>4. id \notin Listed(reg) /\ reg.clients[s].id # id
    BY <1>1, <1>2, GetFinds
  <1>5. ASSUME NEW t \in Bound(reg, id, d) PROVE t = s
    <2>1. t \in Nat /\ s \in Nat /\ t >= 1 /\ s >= 1
      BY <1>1, <1>2, RegistryParts DEF Used
    <2>2. ~(t < s) /\ ~(s < t)
      <3>1. t < s => t \in 1 .. s - 1
        BY <2>1
      <3>2. s < t => s \in 1 .. t - 1
        BY <2>1
      <3> QED BY <1>1, <3>1, <3>2
    <2> QED BY <2>1, <2>2
  <1> QED BY <1>2, <1>3, <1>4, <1>5

\* What an upload starts from: the table, or the table without the entry of
\* the id it takes over.
FreedFor(reg, n, T, id, freed, taken) ==
    /\ Table(freed, n, T) /\ taken \subseteq Id /\ id \notin taken
    /\ Listed(reg) \subseteq Listed(freed) \union taken
    /\ id \in Listed(freed) <=> id \in Listed(reg)
    /\ \A want, wish : /\ Fits(reg, want)
                       /\ \A x \in Id \ taken : wish[x] = want[x]
                       => Fits(freed, wish)

\* An upload begins.
LEMMA RegUpload ==
    ASSUME RegInv, NEW d \in Device, Upload(d)
    PROVE  RegInv'
  <1>0. /\ TypeOK /\ mem \in Registry /\ RegOk(mem) /\ nvs.count \in Nat
        /\ dev[d] \in [id : Id, name : Name \union {NoName}]
    BY RegistryParts DEF RegInv, TypeOK, Table
  <1>1. PICK id \in Id : id = dev[d].id
    BY <1>0
  <1>2. PICK name \in Name \union {NoName} : name = dev[d].name
    BY <1>0
  <1>3. PICK bound : bound = Bound(mem, id, d)
    OBVIOUS
  <1>4. PICK taken : taken = {mem.clients[s].id : s \in bound}
    OBVIOUS
  <1>5. PICK freed : freed = IF bound = {} THEN mem
                             ELSE LET s == CHOOSE s \in bound : TRUE
                                  IN Removed(Cleared(mem, mem.clients[s].id), s)
    OBVIOUS
  <1>6. PICK wishes : wishes = IF bound = {} THEN {Told(Wish(id), name)}
                               ELSE {TakenOver(chosen[old], name) : old \in taken}
    OBVIOUS
  <1> DEFINE T == touched \union ({id} \union taken)
             r == <<<<"answer", d>>>>
  <1>20. PICK wish \in wishes :
            chosen' = [x \in Id |-> IF x = id THEN wish ELSE IF x \in taken THEN Fresh
                                    ELSE chosen[x]]
    BY <1>1, <1>2, <1>3, <1>4, <1>6 DEF Upload
  <1>7. /\ files' \subseteq files \union {id} /\ mem' = Seen(Added(freed, id), id, name, d)
        /\ chosen' = [x \in Id |-> IF x = id THEN wish ELSE IF x \in taken THEN Fresh
                                   ELSE chosen[x]]
        /\ excused' = IF id \in Listed(mem') THEN excused ELSE excused \union {id}
        /\ dev' = dev /\ requests' = requests
    BY <1>1, <1>2, <1>3, <1>4, <1>5, <1>20 DEF Upload
  <1>8. PICK m \in IF bound = {} THEN {<<>>} ELSE {<<<<"move", old, id>>>> : old \in taken} :
            Begin(m \o Save \o r, {id} \union taken)
    BY <1>1, <1>3, <1>4 DEF Upload
  <1>9. /\ todo = <<>> /\ todo' = m \o Save \o r /\ touched' = T
        /\ nvs' = nvs /\ faults' = faults /\ mixed' = mixed /\ torn' = torn /\ kept' = kept
    BY <1>8 DEF Begin
  <1>10. Table(mem, nvs.count, T) /\ id \in T
    BY TableGrows DEF RegInv
  <1>11. /\ FreedFor(mem, nvs.count, T, id, freed, taken)
         /\ m \in Seq(Step) /\ Front(m)
         /\ Len(m) = 1 => m[1][2] \in taken /\ m[1][3] = id
         /\ \A x \in taken : Len(m) = 1 /\ m[1][2] = x
         /\ bound = {} => taken = {}
         /\ bound # {} => id \notin Listed(mem)
    <2> HIDE DEF T, r
    <2>1. CASE bound = {}
      <3>1. taken = {} /\ freed = mem /\ m = <<>>
        BY <1>4, <1>5, <1>8, <2>1
      <3>2. \A want, wi : Fits(mem, want) /\ (\A x \in Id : wi[x] = want[x]) => Fits(mem, wi)
        BY DEF Fits
      <3>3. FreedFor(mem, nvs.count, T, id, freed, taken)
        BY <1>10, <3>1, <3>2 DEF FreedFor
      <3>4. Len(<<>>) # 1
        OBVIOUS
      <3> QED BY <2>1, <3>1, <3>3, <3>4, Ends
    <2>2. CASE bound # {}
      <3>1. PICK s : s = CHOOSE t \in bound : TRUE
        OBVIOUS
      <3>2. s \in Bound(mem, id, d)
        BY <1>3, <2>2, <3>1
      <3>3. /\ s \in Used(mem) /\ bound = {s} /\ mem.clients[s].id \in Id
            /\ mem.clients[s].id # id /\ id \notin Listed(mem)
        BY <1>0, <1>3, <3>2, BoundIsOne
      <3>4. PICK old \in Id : old = mem.clients[s].id
        BY <3>3
      <3>5. taken = {old} /\ freed = Removed(Cleared(mem, old), s)
        BY <1>4, <1>5, <2>2, <3>1, <3>3, <3>4
      <3>6. m = <<<<"move", old, id>>>>
        BY <1>8, <2>2, <3>5
      <3>7. /\ Table(freed, nvs.count, T)
            /\ Listed(mem) \subseteq Listed(freed) \union {old}
            /\ Listed(freed) \subseteq Listed(mem)
            /\ \A want, wi : /\ Fits(mem, want)
                             /\ \A x \in Id \ {old} : wi[x] = want[x]
                             => Fits(freed, wi)
        BY <1>0, <1>10, <3>3, <3>4, <3>5, FreedTable
      <3>8. FreedFor(mem, nvs.count, T, id, freed, taken)
        BY <3>3, <3>4, <3>5, <3>7 DEF FreedFor
      <3>9. /\ m \in Seq(Step) /\ Front(m) /\ Len(m) = 1
            /\ m[1][2] = old /\ m[1][3] = id
        BY <3>6, Ends
      <3> QED BY <2>2, <3>3, <3>5, <3>8, <3>9
    <2> QED BY <2>1, <2>2
  <1>12. r \in Seq(Step) /\ Rear(r) /\ Len(r) = 1 /\ r[1][1] = "answer"
    BY Ends
  <1> HIDE DEF T, r
  <1>13. AfterUpload(freed, nvs.count, T, id, name, mem')
    <2>1. Table(freed, nvs.count, T)
      BY <1>11 DEF FreedFor
    <2> QED BY <1>0, <1>7, <1>10, <2>1, UploadedTable
  <1>14. Fits(mem, chosen) => Fits(mem', chosen')
    <2> SUFFICES ASSUME Fits(mem, chosen) PROVE Fits(mem', chosen')
      OBVIOUS
    <2> DEFINE mid == [x \in Id |-> IF x \in taken THEN Fresh ELSE chosen[x]]
    <2>1. /\ \A x \in Id \ taken : mid[x] = chosen[x]
          /\ \A x \in Id \ {id} : chosen'[x] = mid[x]
          /\ chosen'[id] = wish
          /\ chosen' \in [Id -> {chosen'[x] : x \in Id}]
      BY <1>7
    <2> HIDE DEF mid
    <2>2. Fits(freed, mid)
      BY <1>11, <2>1 DEF FreedFor
    <2>3. Wish(id) = IF id \in Listed(freed) THEN mid[id] ELSE Fresh
      BY <1>0, <1>11, <2>1, GetFinds DEF Wish, FreedFor
    <2>4. Wish(id) \in Wanted /\ \A x \in taken : chosen[x] \in Wanted
      BY <1>0, <1>11 DEF Wish, TypeOK, Fresh, Wanted, FreedFor
    <2>5. CASE bound = {}
      <3>1. Says(chosen'[id], Wish(id), name)
        BY <1>6, <2>1, <2>4, <2>5, UploadWishes
      <3> QED BY <1>13, <2>1, <2>2, <2>3, <3>1 DEF AfterUpload
    <2>6. CASE bound # {}
      <3> DEFINE said == [x \in Id |-> IF x = id THEN Told(Fresh, name) ELSE chosen'[x]]
      <3>1. said[id] = Told(Fresh, name) /\ \A x \in Id \ {id} : said[x] = chosen'[x]
        OBVIOUS
      <3> HIDE DEF said
      <3>2. id \notin Listed(freed)
        BY <1>11, <2>6 DEF FreedFor
      <3>3. Says(said[id], Fresh, name)
        BY <2>4, <3>1, UploadWishes
      <3>4. Fits(mem', said)
        BY <1>13, <2>1, <2>2, <3>1, <3>2, <3>3 DEF AfterUpload
      <3>5. said[id].name = name /\ said[id].basic = TRUE /\ said[id].lost = {}
        BY <3>3 DEF Says, Fresh
      <3>6. Agrees(chosen'[id], name, TRUE)
        BY <1>6, <2>1, <2>4, <2>6, UploadWishes
      <3>7. ASSUME NEW s \in Used(mem')
            PROVE  /\ mem'.clients[s].id \in Id
                   /\ Agrees(chosen'[mem'.clients[s].id], mem'.clients[s].name,
                             mem'.modes[s])
        <4>1. /\ mem'.clients[s].id \in Id
              /\ Agrees(said[mem'.clients[s].id], mem'.clients[s].name, mem'.modes[s])
          BY <3>4 DEF Fits
        <4>2. CASE mem'.clients[s].id = id
          BY <3>5, <3>6, <4>1, <4>2 DEF Agrees
        <4>3. CASE mem'.clients[s].id # id
          BY <3>1, <4>1, <4>3
        <4> QED BY <4>2, <4>3
      <3> QED BY <3>4, <3>7 DEF Fits
    <2> QED BY <2>5, <2>6
  <1>15. TypeOK'
    <2>1. mem' \in Registry
      BY <1>13 DEF AfterUpload, Table
    <2>2. Wish(id) \in Wanted
      BY <1>0 DEF Wish, TypeOK, Fresh, Wanted
    <2>3. wish \in Wanted /\ Fresh \in Wanted
      <3>1. \A x \in taken : chosen[x] \in Wanted
        BY <1>0, <1>11 DEF TypeOK, FreedFor
      <3> QED BY <1>6, <1>20, <2>2, <3>1, UploadWishes
    <2>4. chosen' \in [Id -> Wanted]
      <3>1. chosen \in [Id -> Wanted]
        BY <1>0 DEF TypeOK, Wanted
      <3> QED BY <1>7, <2>3, <3>1
    <2>5. todo' \in Seq(Step)
      BY <1>9, <1>11, <1>12, SaveSteps
    <2>6. touched' \subseteq Id /\ excused' \subseteq Id /\ files' \subseteq Id
      BY <1>0, <1>7, <1>9, <1>11 DEF TypeOK, T, FreedFor
    <2> QED BY <1>0, <1>7, <1>9, <2>1, <2>4, <2>5, <2>6 DEF TypeOK, Wanted
  <1>16. Begun(m, r, todo', {id} \union taken)
    <2>1. Whole(todo', m, r)
      BY <1>9, <1>11, <1>12, Plans
    <2> QED BY <1>11, <1>12, <2>1 DEF Begun
  <1>17. /\ todo = <<>> /\ nvs' = nvs /\ mixed' = mixed /\ torn' = torn /\ kept' = kept
         /\ touched' = touched \union ({id} \union taken) /\ {id} \union taken \subseteq Id
         /\ Table(mem', nvs.count, touched') /\ excused \subseteq excused'
    BY <1>7, <1>9, <1>11, <1>13 DEF T, FreedFor, AfterUpload
  <1>18. /\ Len(m) = 1 => m[1][3] \in Listed(mem') \union excused'
         /\ \A x \in Listed(mem) \cap Id : x \in Listed(mem') \/ (Len(m) = 1 /\ m[1][2] = x)
         /\ files' \subseteq
                files \union (({id} \union taken) \cap (Listed(mem') \union excused'))
    BY <1>7, <1>11, <1>13 DEF FreedFor, AfterUpload
  <1> QED BY <1>14, <1>15, <1>16, <1>17, <1>18, RequestBegins

-----------------------------------------------------------------------------
\* A client is given a name.
LEMMA RegName ==
    ASSUME RegInv, NEW id \in Id, NEW name \in Name, ClientNameGet(id, name)
    PROVE  RegInv'
  <1>1. PICK x : x = resolve_id(mem, id)
    OBVIOUS
  <1>2. x \in Id
    <2>1. mem \in Registry /\ RegOk(mem)
      BY DEF RegInv, Table
    <2> QED BY <1>1, <2>1, PendingFound
  <1>3. PICK f : f = [n \in Name \union {NoName} |-> name]
    OBVIOUS
  <1>4. PICK g : g = [b \in BOOLEAN |-> b]
    OBVIOUS
  <1>5. /\ f \in [Name \union {NoName} -> Name \union {NoName}] /\ g \in [BOOLEAN -> BOOLEAN]
        /\ \A y, z \in Name \union {NoName} : f[y] = f[z]
    BY <1>3, <1>4
  <1>6. Configure(x, "name", f, g)
    BY <1>1, <1>3, <1>4 DEF ClientNameGet
  <1> QED BY <1>2, <1>5, <1>6, RegConfigure

\* A client is given a mode.
LEMMA RegMode ==
    ASSUME RegInv, NEW id \in Id, NEW value \in BOOLEAN, ClientBasicModePost(id, value)
    PROVE  RegInv'
  <1>1. PICK f : f = [n \in Name \union {NoName} |-> n]
    OBVIOUS
  <1>2. PICK g : g = [b \in BOOLEAN |-> value]
    OBVIOUS
  <1>3. /\ f \in [Name \union {NoName} -> Name \union {NoName}] /\ g \in [BOOLEAN -> BOOLEAN]
        /\ \A y, z \in BOOLEAN : g[y] = g[z]
    BY <1>1, <1>2
  <1>4. Configure(id, "basic", f, g)
    BY <1>1, <1>2 DEF ClientBasicModePost
  <1> QED BY <1>3, <1>4, RegConfigure

\* Every step keeps the invariant.
LEMMA RegNext == RegInv /\ [Next]_vars => RegInv'
  <1> SUFFICES ASSUME RegInv, [Next]_vars PROVE RegInv'
    OBVIOUS
  <1>1. ASSUME NEW d \in Device, Upload(d) PROVE RegInv'
    BY <1>1, RegUpload
  <1>2. ASSUME NEW id \in Id, NEW name \in Name, ClientNameGet(id, name) PROVE RegInv'
    BY <1>2, RegName
  <1>3. ASSUME NEW id \in Id, NEW value \in BOOLEAN, ClientBasicModePost(id, value)
        PROVE  RegInv'
    BY <1>3, RegMode
  <1>4. ASSUME NEW id \in Id, NEW new \in Id, ClientIdPost(id, new) PROVE RegInv'
    BY <1>4, RegRename
  <1>5. ASSUME NEW id \in Id, ClientDelete(id) PROVE RegInv'
    BY <1>5, RegDelete
  <1>6. CASE Handle
    BY <1>6, RegWrite, RegMoveFile, RegUnlink, RegAnswer DEF Handle
  <1>7. CASE WriteFails
    BY <1>7, RegWriteFails
  <1>10. CASE FileFails
    BY <1>10, RegFileFails
  <1>8. CASE Reset
    BY <1>8, RegReset
  <1>9. CASE UNCHANGED vars
    <2>1. /\ mem' = mem /\ nvs' = nvs /\ files' = files /\ dev' = dev /\ todo' = todo
          /\ requests' = requests /\ faults' = faults /\ mixed' = mixed /\ torn' = torn
          /\ touched' = touched /\ excused' = excused /\ chosen' = chosen /\ kept' = kept
      BY <1>9 DEF vars, ghosts
    <2>2. TypeOK' /\ FilesInv'
      BY <2>1 DEF RegInv, TypeOK, FilesInv
    <2> QED BY <2>1, <2>2, SameTables DEF RegInv
  <1> QED BY <1>1, <1>2, <1>3, <1>4, <1>5, <1>6, <1>7, <1>8, <1>9, <1>10
     DEF Next, User

\* The invariant holds at all times.
LEMMA RegAlways == Spec => []RegInv
  BY RegInit, RegNext, PTL DEF Spec

\* The arrays in RAM and the values in flash stay arrays and counts of their
\* sizes, and what a request still has to do stays a list of steps, through any
\* number of requests, resets and failed writes.
THEOREM RegistryStoreTypeOK == Spec => []TypeOK
  BY RegAlways, RegInvSays, PTL

\* However many loggers, slots and ids there are and wherever resets and failed
\* writes fall between the five values of a save, no id is ever listed twice,
\* and every file belongs to a client that is listed unless a request cut off or
\* turned down was about it, or the file system failed to move or remove it.
THEOREM RegistryStoreListedOnce == Spec => []ListedOnce
  BY RegAlways, RegInvSays, PTL

\* Until a reset falls between two values of one save, each entry has an id and
\* the name and the mode chosen for that client, through all the renames,
\* deletions and takeovers that move the entries; a takeover costs the client
\* taken over its mode and a name its logger was not told, until they are set
\* again, and no other client anything.
THEOREM RegistryStoreEntriesKept == Spec => []EntriesKept
  BY RegAlways, RegInvSays, PTL
=============================================================================
