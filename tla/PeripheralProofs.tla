-------------------------- MODULE PeripheralProofs --------------------------
(***************************************************************************)
(* Theorems about the two peripherals of a logger that keep a state of     *)
(* their own: its radio, WifiManager, for any number of networks, any      *)
(* signals, delays, changes of the air and restarts of the radio; and its  *)
(* display with the button that lights it, Panel, for every size of panel, *)
(* all times and all bounds on uploads and sleeps.  The two models share   *)
(* no state and no definition: each theorem is about one of them.          *)
(***************************************************************************)
EXTENDS WifiManager, Panel, SequenceTheorems, WellFoundedInduction, TLAPS

-----------------------------------------------------------------------------
(***************************************************************************)
(* The radio.                                                              *)
(***************************************************************************)
Event == {"start", "got_ip", "lost", "auth"}

\* Among the events evs the k-th is the last to say something of the radio.
Telling(evs, k) ==
    /\ k \in 1 .. Len(evs) /\ evs[k] # "start"
    /\ \A j \in 1 .. Len(evs) : k < j => evs[j] = "start"

Silent(evs) == \A k \in 1 .. Len(evs) : evs[k] = "start"

\* That one tells what the radio r does now; without one the flag c does.
Honest(evs, r, c) ==
    /\ \A k \in 1 .. Len(evs) :
          Telling(evs, k) => (evs[k] = "got_ip" <=> r = "connected")
    /\ Silent(evs) => (c <=> r = "connected")

StatusInv ==
    /\ Honest(events, radio, s_connected)
    /\ main # "on" => radio = "stopped"

\* A request that the retry task has not taken up has notified it.
RequestInv ==
    s_retry_pending /\ task \notin {"switch", "delay", "pending"} => notified

Waiting == task = "take" /\ ~s_retry_pending

\* While the radio is left on, one party at a time cares for the connection:
\* the driver, its events, the scan of the handler or the retry task.
Off == /\ main # "on" /\ radio = "stopped" /\ events = <<>>
       /\ Waiting /\ handler = "idle"
       /\ main = "applied" => config = s_active_idx

Busy == /\ radio \in {"connecting", "connected"}
        /\ events = <<>> \/ (events = <<"got_ip">> /\ radio = "connected")
        /\ Waiting /\ handler = "idle"
        /\ target = s_active_idx /\ config = s_active_idx

Told == /\ radio = "idle"
        /\ \E e \in {"start", "lost", "auth"} : events = <<e>> \/ events = <<"got_ip", e>>
        /\ Waiting /\ handler = "idle"
        /\ config = s_active_idx

Scanning == /\ radio = "idle" /\ events = <<>> /\ handler = "scan" /\ Waiting
            /\ config = s_active_idx

Retrying == /\ radio = "idle" /\ events = <<>> /\ handler = "idle"
            /\ s_retry_pending <=> task \in {"take", "switch", "delay", "pending"}
            /\ \/ config = s_active_idx
               \/ task \in {"take", "switch"} /\ s_retry_switch_network
               \/ task \notin {"take", "switch", "connect"} /\ switched

OneCares == Off \/ (main = "on" /\ (Busy \/ Told \/ Scanning \/ Retrying))

TokenInv ==
    /\ main \in {"stored", "scanned", "applied", "on"} => s_network_count = NetworkCount
    /\ restarts = 0 => OneCares

-----------------------------------------------------------------------------
\* A nonempty set of natural numbers has a least element.
LEMMA LeastElement ==
    ASSUME NEW T, T \subseteq Nat, T # {}
    PROVE  \E x \in T : \A y \in T : x <= y
  <1>1. PICK x \in T : \A y \in T : ~(<<y, x>> \in OpToRel(<, Nat))
    BY WFMin, NatLessThanWellFounded
  <1>2. \A y \in T : ~(y < x)
    BY <1>1 DEF OpToRel
  <1> QED BY <1>2

\* scan_and_select_best names a configured network.
LEMMA SelectedIsNetwork ==
    ASSUME rssi \in [Network -> 0 .. MaxRssi], s_active_idx \in Network
    PROVE  Selected \in Network
  <1>1. CASE Visible = {}
    BY <1>1 DEF Selected
  <1>2. CASE Visible # {}
    <2> DEFINE Weak == {MaxRssi - rssi[n] : n \in Visible}
    <2>1. Visible \subseteq Network /\ Network \subseteq Nat
      BY WifiAssumption DEF Visible, Network
    <2>2. \A n \in Visible : rssi[n] \in 0 .. MaxRssi
      BY <2>1
    <2>3. Weak \subseteq Nat /\ Weak # {}
      BY <1>2, <2>2, WifiAssumption
    <2>4. PICK d \in Weak : \A x \in Weak : d <= x
      BY <2>3, LeastElement
    <2> DEFINE Strongest == {n \in Visible : MaxRssi - rssi[n] = d}
    <2>5. Strongest \subseteq Nat /\ Strongest # {}
      BY <2>1, <2>4
    <2>6. PICK n \in Strongest : \A m \in Strongest : n <= m
      BY <2>5, LeastElement
    <2>7. ASSUME NEW m \in Visible
          PROVE  rssi[n] > rssi[m] \/ (rssi[n] = rssi[m] /\ n <= m)
      <3>1. MaxRssi - rssi[n] = d /\ d <= MaxRssi - rssi[m]
        BY <2>4, <2>6, <2>7
      <3>2. rssi[n] \in Int /\ rssi[m] \in Int /\ MaxRssi \in Int
        BY <2>2, <2>6, <2>7, WifiAssumption
      <3>3. CASE MaxRssi - rssi[m] = d
        BY <2>6, <2>7, <3>1, <3>2, <3>3
      <3>4. CASE MaxRssi - rssi[m] # d
        BY <3>1, <3>2, <3>4
      <3> QED BY <3>3, <3>4
    <2>8. Best \in Visible
      BY <2>6, <2>7 DEF Best
    <2> QED BY <1>2, <2>1, <2>8 DEF Selected
  <1> QED BY <1>1, <1>2

-----------------------------------------------------------------------------
\* What posting and handling an event does to the honesty of the queue.
LEMMA Posted ==
    ASSUME NEW evs \in Seq(Event), NEW e \in Event \ {"start"}, NEW r, NEW c,
           e = "got_ip" <=> r = "connected"
    PROVE  Honest(Append(evs, e), r, c)
  <1> DEFINE new == Append(evs, e)
  <1>1. /\ Len(new) = Len(evs) + 1 /\ Len(evs) \in Nat /\ new[Len(evs) + 1] = e
        /\ e # "start"
    OBVIOUS
  <1>2. ~Silent(new)
    BY <1>1 DEF Silent
  <1>3. \A k \in 1 .. Len(new) : Telling(new, k) => k = Len(evs) + 1
    BY <1>1 DEF Telling
  <1> QED BY <1>1, <1>2, <1>3 DEF Honest

\* A start of the radio tells nothing of the connection.
LEMMA PostedStart ==
    ASSUME NEW evs \in Seq(Event), NEW r, NEW q, NEW c,
           Honest(evs, r, c), r = "connected" <=> q = "connected"
    PROVE  Honest(Append(evs, "start"), q, c)
  <1> DEFINE new == Append(evs, "start")
  <1>1. /\ Len(new) = Len(evs) + 1 /\ Len(evs) \in Nat
        /\ new[Len(evs) + 1] = "start"
        /\ \A k \in 1 .. Len(evs) : new[k] = evs[k]
    OBVIOUS
  <1> HIDE DEF new
  <1>2. \A k \in 1 .. Len(new) :
            Telling(new, k) => k \in 1 .. Len(evs) /\ Telling(evs, k)
    BY <1>1 DEF Telling
  <1>3. Silent(new) => Silent(evs)
    BY <1>1 DEF Silent
  <1>4. Honest(new, q, c)
    BY <1>1, <1>2, <1>3 DEF Honest
  <1> QED BY <1>4 DEF new

\* The handler takes over what the event told.
LEMMA Taken ==
    ASSUME NEW evs \in Seq(Event), evs # <<>>, NEW r, NEW c, NEW q,
           Honest(evs, r, c),
           IF Head(evs) = "start" THEN q = c ELSE q <=> Head(evs) = "got_ip"
    PROVE  Honest(Tail(evs), r, q)
  <1> DEFINE rest == Tail(evs)
  <1>1. /\ Len(evs) \in Nat /\ Len(evs) = Len(rest) + 1 /\ Len(rest) \in Nat
        /\ Head(evs) = evs[1]
        /\ \A k \in 1 .. Len(rest) : rest[k] = evs[k + 1]
    OBVIOUS
  <1> HIDE DEF rest
  <1>2. \A k \in 1 .. Len(rest) :
            Telling(rest, k) => k + 1 \in 1 .. Len(evs) /\ Telling(evs, k + 1)
    <2> SUFFICES ASSUME NEW k \in 1 .. Len(rest), Telling(rest, k)
                 PROVE  k + 1 \in 1 .. Len(evs) /\ Telling(evs, k + 1)
      OBVIOUS
    <2>1. \A j \in 1 .. Len(evs) : k + 1 < j => j - 1 \in 1 .. Len(rest) /\ k < j - 1
      BY <1>1
    <2>2. \A j \in 1 .. Len(evs) : k + 1 < j => evs[j] = rest[j - 1]
      BY <1>1, <2>1
    <2> QED BY <1>1, <2>1, <2>2 DEF Telling
  <1>3. \A k \in 1 .. Len(rest) :
            Telling(rest, k) => (rest[k] = "got_ip" <=> r = "connected")
    BY <1>1, <1>2 DEF Honest
  <1>4. Silent(rest) => \A j \in 1 .. Len(evs) : 1 < j => evs[j] = "start"
    <2>1. \A j \in 1 .. Len(evs) :
              1 < j => j - 1 \in 1 .. Len(rest) /\ evs[j] = rest[j - 1]
      BY <1>1
    <2> QED BY <2>1 DEF Silent
  <1>5. Silent(rest) => (q <=> r = "connected")
    <2>1. CASE Head(evs) = "start"
      <3>1. Silent(rest) => Silent(evs)
        BY <1>1, <1>4, <2>1 DEF Silent
      <3> QED BY <2>1, <3>1 DEF Honest
    <2>2. CASE Head(evs) # "start"
      <3>1. Silent(rest) => Telling(evs, 1) /\ 1 \in 1 .. Len(evs)
        BY <1>1, <1>4, <2>2 DEF Telling
      <3> QED BY <1>1, <2>2, <3>1 DEF Honest
    <2> QED BY <2>1, <2>2
  <1>6. Honest(rest, r, q)
    BY <1>3, <1>5 DEF Honest
  <1> QED BY <1>6 DEF rest

-----------------------------------------------------------------------------
\* The shared variables stay in range: in particular no failure is counted
\* past the threshold, and the network chosen is a configured one.
LEMMA WifiTypeInit == WifiInit => WifiTypeOK
  BY SMTT(30), WifiAssumption DEF WifiInit, WifiTypeOK, Network, Delay, FAILOVER_THRESHOLD

\* A queue with one event more.
LEMMA MoreEvents ==
    ASSUME NEW evs \in Seq(Event), NEW e \in Event
    PROVE  Append(evs, e) \in Seq(Event)
  OBVIOUS

\* Every step of the tasks and of the driver keeps the types.
LEMMA WifiTypeNext == WifiTypeOK /\ [WifiNext]_wifiVars => WifiTypeOK'
  <1> SUFFICES ASSUME WifiTypeOK, [WifiNext]_wifiVars PROVE WifiTypeOK'
    OBVIOUS
  <1> USE WifiAssumption
  <1>1. CASE Driver
    <2>1. events' \in Seq({"start", "got_ip", "lost", "auth"})
      <3>1. \E e \in Event : events' = Append(events, e)
        BY <1>1 DEF Driver, Joined, NotJoined, LinkLost, Post, Event
      <3> QED BY <3>1, MoreEvents DEF WifiTypeOK, Event
    <2>2. radio' \in {"stopped", "idle", "connecting", "connected"}
      BY <1>1 DEF Driver, Joined, NotJoined, LinkLost
    <2>3. UNCHANGED <<status, request, handler, retry, main, config, target, air, bounds>>
      BY <1>1 DEF Driver, Joined, NotJoined, LinkLost
    <2> QED BY <2>1, <2>2, <2>3 DEF WifiTypeOK, status, request, retry, air, bounds
  <1>2. CASE Glitch
    BY <1>2 DEF WifiTypeOK, Glitch, Post, status, request, retry, driver, air, bounds
  <1>3. CASE AirChanges
    BY SMTT(30), <1>3
    DEF WifiTypeOK, AirChanges, status, request, retry, driver, air, bounds
  <1>4. CASE Handler
    <2>1. CASE HandleStart
      BY SMTT(30), <2>1
      DEF WifiTypeOK, HandleStart, Handles, Connect, status, request, retry, air, bounds
    <2>2. CASE HandleGotIp
      <3>1. events' \in Seq({"start", "got_ip", "lost", "auth"})
        BY <2>2 DEF WifiTypeOK, HandleGotIp, Handles
      <3>2. failures' \in [Network -> 0 .. FAILOVER_THRESHOLD - 1]
        BY <2>2 DEF WifiTypeOK, HandleGotIp, FAILOVER_THRESHOLD
      <3> QED BY <2>2, <3>1, <3>2
              DEF WifiTypeOK, HandleGotIp, request, retry, driver, air, bounds
    <2>3. CASE HandleScanned
      <3>1. s_active_idx' \in Network
        BY <2>3, SelectedIsNetwork DEF WifiTypeOK, HandleScanned
      <3>2. failures' \in [Network -> 0 .. FAILOVER_THRESHOLD - 1]
        BY <2>3, <3>1 DEF WifiTypeOK, HandleScanned, FAILOVER_THRESHOLD
      <3>3. /\ s_retry_delay_pending_sec' \in Delay \union {0}
            /\ s_retry_switch_network' \in BOOLEAN /\ s_retry_pending' \in BOOLEAN
            /\ notified' \in BOOLEAN /\ s_retry_delay_sec' \in Delay
        BY <2>3 DEF WifiTypeOK, HandleScanned, Request, Delay
      <3> QED BY <2>3, <3>1, <3>2, <3>3
              DEF WifiTypeOK, HandleScanned, retry, driver, air, bounds
    <2>4. ASSUME NEW e \in {"lost", "auth"}, HandleDisconnected(e) PROVE WifiTypeOK'
      <3>1. events' \in Seq({"start", "got_ip", "lost", "auth"})
        BY <2>4 DEF WifiTypeOK, HandleDisconnected, Handles
      <3>2. failures' \in [Network -> 0 .. FAILOVER_THRESHOLD - 1]
        <4>1. failures[s_active_idx] \in 0 .. 1 /\ (s_network_count = 0 \/ s_network_count > 1)
          BY DEF WifiTypeOK, FAILOVER_THRESHOLD
        <4>2. FailuresAfter(e) \in Int /\ FailuresAfter(e) >= 0
          BY <4>1 DEF FailuresAfter
        <4>3. ~FailoverDue(e) => FailuresAfter(e) \in 0 .. 1
          BY <4>1, <4>2 DEF FailoverDue, FailuresAfter, FAILOVER_THRESHOLD
        <4>4. \E n \in 0 .. 1 : failures' = [failures EXCEPT ![s_active_idx] = n]
          <5>1. CASE FailoverDue(e)
            BY <2>4, <5>1 DEF HandleDisconnected
          <5>2. CASE ~FailoverDue(e)
            <6>1. failures' = [failures EXCEPT ![s_active_idx] = FailuresAfter(e)]
              BY <2>4, <5>2 DEF HandleDisconnected
            <6> QED BY <4>3, <5>2, <6>1
          <5> QED BY <5>1, <5>2
        <4> QED BY <4>4 DEF WifiTypeOK, FAILOVER_THRESHOLD
      <3>3. s_retry_delay_sec' \in Delay
        BY <2>4 DEF HandleDisconnected, Delay
      <3>4. /\ s_retry_delay_pending_sec' \in Delay \union {0}
            /\ s_retry_switch_network' \in BOOLEAN /\ s_retry_pending' \in BOOLEAN
            /\ notified' \in BOOLEAN /\ handler' \in {"idle", "scan"}
        BY <2>4, <3>3 DEF WifiTypeOK, HandleDisconnected, Request, request
      <3>5. s_connected' \in BOOLEAN
        BY <2>4 DEF WifiTypeOK, HandleDisconnected, ConnectedAfter
      <3>6. UNCHANGED <<s_network_count, s_active_idx, retry, main, driver, air, bounds>>
        BY <2>4 DEF HandleDisconnected
      <3> QED BY SMTT(30), <3>1, <3>2, <3>3, <3>4, <3>5, <3>6
              DEF WifiTypeOK, retry, driver, air, bounds
    <2> QED BY <1>4, <2>1, <2>2, <2>3, <2>4 DEF Handler
  <1>5. CASE Retry
    <2>1. CASE RetryTake
      <3>1. task' \in {"take", "switch"} /\ notified' \in BOOLEAN
        BY <2>1 DEF RetryTake
      <3> QED BY <2>1, <3>1 DEF WifiTypeOK, RetryTake, RetryKeeps, status, air, bounds, driver
    <2>2. CASE RetryCopy
      BY <2>2 DEF WifiTypeOK, RetryCopy, RetryKeeps, status, request, air, bounds, driver
    <2>3. CASE RetryClear
      <3>1. /\ task' \in {"clear_switch", "clear_delay", "wait"}
            /\ s_retry_pending' \in BOOLEAN
        BY <2>3 DEF WifiTypeOK, RetryClear
      <3>2. /\ s_retry_switch_network' \in BOOLEAN
            /\ s_retry_delay_pending_sec' \in Delay \union {0}
        BY <2>3 DEF WifiTypeOK, RetryClear
      <3>3. waited' = 0
        BY <2>3 DEF RetryClear
      <3> QED BY <2>3, <3>1, <3>2, <3>3
              DEF WifiTypeOK, RetryClear, RetryKeeps, status, air, bounds, driver
    <2>4. CASE RetryWait
      BY <2>4 DEF WifiTypeOK, RetryWait, RetryKeeps, status, request, air, bounds, driver
    <2>5. CASE RetryDone
      BY <2>5 DEF WifiTypeOK, RetryDone, RetryKeeps, status, request, air, bounds, driver
    <2>6. CASE RetryApply
      BY <2>6 DEF WifiTypeOK, RetryApply, Applied, RetryKeeps, status, request, air, bounds
    <2>7. CASE RetryConnect
      BY SMTT(30), <2>7
      DEF WifiTypeOK, RetryConnect, Connect, RetryKeeps, status, request, air, bounds
    <2> QED BY <1>5, <2>1, <2>2, <2>3, <2>4, <2>5, <2>6, <2>7 DEF Retry
  <1>6. CASE InitStaDual
    <2>1. CASE InitReset
      <3>1. 0 \in Network /\ 0 \in 0 .. FAILOVER_THRESHOLD - 1
        BY DEF Network, FAILOVER_THRESHOLD
      <3>2. failures' \in [Network -> 0 .. FAILOVER_THRESHOLD - 1]
        BY <2>1, <3>1 DEF InitReset
      <3>3. s_connected' \in BOOLEAN /\ s_network_count' \in {0, NetworkCount}
        BY <2>1 DEF InitReset
      <3> QED BY <2>1, <3>1, <3>2, <3>3
              DEF WifiTypeOK, InitReset, request, retry, driver, air, bounds
    <2>2. CASE InitStore
      BY <2>2 DEF WifiTypeOK, InitStore, FAILOVER_THRESHOLD, request, retry, driver, air, bounds
    <2>3. CASE InitScan
      <3>1. s_active_idx' \in Network
        BY <2>3, SelectedIsNetwork DEF WifiTypeOK, InitScan
      <3>2. failures' \in [Network -> 0 .. FAILOVER_THRESHOLD - 1]
        BY <2>3, <3>1 DEF WifiTypeOK, InitScan, FAILOVER_THRESHOLD
      <3> QED BY SMTT(30), <2>3, <3>1, <3>2
              DEF WifiTypeOK, InitScan, request, retry, driver, air, bounds
    <2>4. CASE InitApply
      BY <2>4 DEF WifiTypeOK, InitApply, status, request, retry, air, bounds
    <2>5. CASE InitStart
      BY <2>5 DEF WifiTypeOK, InitStart, Post, status, request, retry, air, bounds
    <2> QED BY <1>6, <2>1, <2>2, <2>3, <2>4, <2>5 DEF InitStaDual
  <1>7. CASE Stop
    <2>1. events' \in Seq({"start", "got_ip", "lost", "auth"})
      <3>1. events' = events \/ \E e \in Event : events' = Append(events, e)
        BY <1>7 DEF Stop, Post, Event
      <3> QED BY <3>1, MoreEvents DEF WifiTypeOK, Event
    <2>2. restarts' \in 0 .. MaxRestarts
      BY <1>7 DEF WifiTypeOK, Stop
    <2> QED BY <1>7, <2>1, <2>2 DEF WifiTypeOK, Stop, status, request, retry, air
  <1>8. CASE UNCHANGED wifiVars
    BY <1>8 DEF WifiTypeOK, wifiVars, status, request, retry, driver, air, bounds
  <1> QED BY <1>1, <1>2, <1>3, <1>4, <1>5, <1>6, <1>7, <1>8 DEF WifiNext

\* Type correctness for every number of networks and every bound.
THEOREM WifiTypes == WifiSpec => []WifiTypeOK
  BY WifiTypeInit, WifiTypeNext, PTL DEF WifiSpec

-----------------------------------------------------------------------------
\* Of the radio only whether it is connected matters.
LEMMA SameConnection ==
    ASSUME NEW evs, NEW r, NEW q, NEW c,
           Honest(evs, r, c), r = "connected" <=> q = "connected"
    PROVE  Honest(evs, q, c)
  BY DEF Honest

\* At first there is nothing to tell.
LEMMA StatusInit == WifiInit => StatusInv
  BY DEF WifiInit, StatusInv, Honest, Telling, Silent

\* Every step keeps the queue honest.
LEMMA StatusNext == WifiTypeOK /\ StatusInv /\ [WifiNext]_wifiVars => StatusInv'
  <1> SUFFICES ASSUME WifiTypeOK, StatusInv, [WifiNext]_wifiVars PROVE StatusInv'
    OBVIOUS
  <1>a. events \in Seq(Event)
    BY DEF WifiTypeOK, Event
  <1>b. Honest(events, radio, s_connected) /\ (main # "on" => radio = "stopped")
    BY DEF StatusInv
  <1>1. CASE Joined
    <2>1. events' = Append(events, "got_ip") /\ radio' = "connected"
      BY <1>1 DEF Joined, Post
    <2>2. Honest(events', radio', s_connected')
      BY <1>a, <2>1, Posted DEF Event
    <2> QED BY <1>1, <1>b, <2>2 DEF StatusInv, Joined
  <1>2. CASE NotJoined \/ LinkLost \/ Glitch
    <2>1. /\ \E e \in {"lost", "auth"} : events' = Append(events, e)
          /\ radio' = "idle"
      BY <1>2 DEF NotJoined, LinkLost, Glitch, Post
    <2>2. Honest(events', radio', s_connected')
      BY <1>a, <2>1, Posted DEF Event
    <2>3. main' = main /\ radio # "stopped"
      BY <1>2 DEF NotJoined, LinkLost, Glitch
    <2> QED BY <1>b, <2>2, <2>3 DEF StatusInv
  <1>3. CASE HandleStart
    <2>1. /\ events # <<>> /\ Head(events) = "start" /\ events' = Tail(events)
          /\ s_connected' = s_connected /\ main' = main
      BY <1>3 DEF HandleStart, Handles, status
    <2>2. Honest(events', radio, s_connected')
      BY <1>a, <1>b, <2>1, Taken
    <2>3. radio' = radio \/ (radio = "idle" /\ radio' = "connecting")
      BY <1>3 DEF HandleStart, Connect
    <2>4. Honest(events', radio', s_connected')
      BY <2>2, <2>3, SameConnection
    <2> QED BY <1>b, <2>1, <2>3, <2>4 DEF StatusInv
  <1>4. CASE HandleGotIp
    <2>1. /\ events # <<>> /\ Head(events) = "got_ip" /\ events' = Tail(events)
          /\ s_connected' = TRUE /\ main' = main /\ radio' = radio
      BY <1>4 DEF HandleGotIp, Handles, driver
    <2>2. Honest(events', radio, s_connected')
      BY <1>a, <1>b, <2>1, Taken
    <2> QED BY <1>b, <2>1, <2>2 DEF StatusInv
  <1>5. ASSUME NEW e \in {"lost", "auth"}, HandleDisconnected(e) PROVE StatusInv'
    <2>1. /\ events # <<>> /\ Head(events) = e /\ events' = Tail(events)
          /\ s_connected' = FALSE /\ main' = main /\ radio' = radio
      BY <1>5 DEF HandleDisconnected, ConnectedAfter, Handles, driver
    <2>2. Honest(events', radio, s_connected')
      BY <1>a, <1>b, <2>1, Taken
    <2> QED BY <1>b, <2>1, <2>2 DEF StatusInv
  <1>6. CASE InitReset
    <2>1. /\ events' = events /\ radio' = radio /\ radio = "stopped"
          /\ s_connected' = FALSE
      BY <1>6, <1>b DEF InitReset, driver
    <2>2. Honest(events', radio', s_connected')
      BY <1>b, <2>1 DEF Honest
    <2> QED BY <2>1, <2>2 DEF StatusInv
  <1>7. CASE InitStart
    <2>1. /\ events' = Append(events, "start") /\ radio' = "idle" /\ radio = "stopped"
          /\ s_connected' = s_connected /\ main' = "on"
      BY <1>7, <1>b DEF InitStart, Post, status
    <2>2. Honest(events', radio', s_connected')
      BY <1>a, <1>b, <2>1, PostedStart
    <2> QED BY <2>1, <2>2 DEF StatusInv
  <1>8. CASE Stop
    <2>1. radio' = "stopped" /\ s_connected' = s_connected
      BY <1>8 DEF Stop, status
    <2>2. CASE events' = Append(events, "lost")
      BY <1>a, <2>1, <2>2, Posted DEF StatusInv, Event
    <2>3. CASE events' = events /\ radio # "connected"
      <3>1. Honest(events', radio', s_connected')
        BY <1>b, <2>1, <2>3, SameConnection
      <3> QED BY <2>1, <3>1 DEF StatusInv
    <2> QED BY <1>8, <2>2, <2>3 DEF Stop, Post
  <1>9. CASE RetryConnect
    <2>1. /\ events' = events /\ s_connected' = s_connected /\ main' = main
          /\ radio' = radio \/ (radio = "idle" /\ radio' = "connecting")
      BY <1>9 DEF RetryConnect, RetryKeeps, Connect, status
    <2>2. Honest(events', radio', s_connected')
      BY <1>b, <2>1, SameConnection
    <2> QED BY <1>b, <2>1, <2>2 DEF StatusInv
  <1>10. CASE \/ AirChanges \/ HandleScanned \/ InitStore \/ InitScan \/ InitApply
              \/ RetryTake \/ RetryCopy \/ RetryClear \/ RetryWait \/ RetryDone \/ RetryApply
              \/ UNCHANGED wifiVars
    <2>1. UNCHANGED <<events, radio, s_connected>>
      BY <1>10 DEF AirChanges, HandleScanned, InitStore, InitScan, InitApply, RetryTake,
                   RetryCopy, RetryClear, RetryWait, RetryDone, RetryApply, RetryKeeps,
                   status, driver, wifiVars
    <2>2. main' # "on" => main # "on"
      BY <1>10 DEF AirChanges, HandleScanned, InitStore, InitScan, InitApply, RetryTake,
                   RetryCopy, RetryClear, RetryWait, RetryDone, RetryApply, RetryKeeps,
                   wifiVars
    <2> QED BY <1>b, <2>1, <2>2 DEF StatusInv
  <1> QED BY <1>1, <1>2, <1>3, <1>4, <1>5, <1>6, <1>7, <1>8, <1>9, <1>10
          DEF WifiNext, Driver, Handler, Retry, InitStaDual

\* wifi_manager_is_connected tells the truth once the events are handled.
THEOREM WifiStatusSettles == WifiSpec => []StatusSettles
  <1>1. StatusInv => StatusSettles
    <2> SUFFICES ASSUME Honest(events, radio, s_connected), events = <<>>
                 PROVE  s_connected <=> radio = "connected"
      BY DEF StatusInv, StatusSettles, Quiet
    <2> QED BY DEF Honest, Silent
  <1> QED BY <1>1, WifiTypeInit, WifiTypeNext, StatusInit, StatusNext, PTL DEF WifiSpec

-----------------------------------------------------------------------------
\* At first nothing is requested.
LEMMA RequestInit == WifiInit => RequestInv
  BY DEF WifiInit, RequestInv

\* No step loses the notification of a request.
LEMMA RequestNext == WifiTypeOK /\ RequestInv /\ [WifiNext]_wifiVars => RequestInv'
  <1> SUFFICES ASSUME WifiTypeOK, RequestInv, [WifiNext]_wifiVars PROVE RequestInv'
    OBVIOUS
  <1>1. CASE HandleScanned
    BY <1>1 DEF HandleScanned, Request, RequestInv
  <1>2. ASSUME NEW e \in {"lost", "auth"}, HandleDisconnected(e) PROVE RequestInv'
    <2>1. task' = task /\ (notified' = TRUE \/ UNCHANGED request)
      BY <1>2 DEF HandleDisconnected, Request, retry
    <2> QED BY <2>1 DEF RequestInv, request
  <1>3. CASE RetryTake
    <2>1. task' \in {"switch", "delay", "pending"} \/ ~s_retry_pending'
      BY <1>3 DEF RetryTake
    <2> QED BY <2>1 DEF RequestInv
  <1>4. CASE RetryCopy
    <2>1. task' \in {"delay", "pending"}
      BY <1>4 DEF RetryCopy
    <2> QED BY <2>1 DEF RequestInv
  <1>5. CASE RetryClear
    <2>1. CASE task = "pending"
      BY <1>5, <2>1 DEF RequestInv, RetryClear
    <2>2. CASE task # "pending"
      <3>1. /\ UNCHANGED <<s_retry_pending, notified>>
            /\ task \notin {"switch", "delay", "pending"}
        BY <1>5, <2>2 DEF RetryClear
      <3> QED BY <3>1 DEF RequestInv
    <2> QED BY <2>1, <2>2
  <1>6. CASE RetryWait \/ RetryDone \/ RetryApply \/ RetryConnect
    <2>1. task \notin {"switch", "delay", "pending"} /\ UNCHANGED request
      BY <1>6 DEF RetryWait, RetryDone, RetryApply, RetryConnect
    <2> QED BY <2>1 DEF RequestInv, request
  <1>7. CASE \/ Driver \/ Glitch \/ AirChanges \/ HandleStart \/ HandleGotIp
             \/ InitStaDual \/ Stop \/ UNCHANGED wifiVars
    <2>1. UNCHANGED <<request, task>>
      BY <1>7 DEF Driver, Joined, NotJoined, LinkLost, Glitch, AirChanges, HandleStart,
                  HandleGotIp, InitStaDual, InitReset, InitStore, InitScan, InitApply,
                  InitStart, Stop, retry, wifiVars
    <2> QED BY <2>1 DEF RequestInv, request
  <1> QED BY <1>1, <1>2, <1>3, <1>4, <1>5, <1>6, <1>7 DEF WifiNext, Handler, Retry

\* A step that leaves the radio idle leaves it to somebody.
LEMMA NoStallNext ==
    WifiTypeOK /\ StatusInv /\ RequestInv /\ NoStall /\ [WifiNext]_wifiVars => NoStall'
  <1> SUFFICES ASSUME WifiTypeOK, StatusInv, RequestInv, NoStall, [WifiNext]_wifiVars,
                      main' = "on", radio' = "idle"
               PROVE  ~Quiet' \/ task' # "take" \/ (notified' /\ s_retry_pending')
    BY DEF NoStall
  <1>a. events \in Seq(Event)
    BY DEF WifiTypeOK, Event
  <1>1. CASE NotJoined \/ LinkLost \/ Glitch \/ InitStart
    <2>1. \E e \in Event : events' = Append(events, e)
      BY <1>1 DEF NotJoined, LinkLost, Glitch, InitStart, Post, Event
    <2>2. events' # <<>>
      BY <1>a, <2>1
    <2> QED BY <2>2 DEF Quiet
  <1>2. CASE HandleStart
    BY <1>2 DEF HandleStart, Connect
  <1>3. CASE HandleGotIp
    <2>1. /\ events # <<>> /\ Head(events) = "got_ip" /\ events' = Tail(events)
          /\ radio # "connected"
      BY <1>3 DEF HandleGotIp, Handles, driver
    <2>2. events[1] = "got_ip" /\ 1 \in 1 .. Len(events)
      BY <1>a, <2>1
    <2>3. Len(events) # 1
      BY <2>1, <2>2 DEF StatusInv, Honest, Telling
    <2>4. Len(events') = Len(events) - 1 /\ Len(events) \in Nat
      BY <1>a, <2>1
    <2>5. Len(events') # 0
      BY <2>3, <2>4
    <2> QED BY <2>5 DEF Quiet
  <1>4. ASSUME NEW e \in {"lost", "auth"}, HandleDisconnected(e)
        PROVE  ~Quiet' \/ (notified' /\ s_retry_pending')
    BY <1>4 DEF HandleDisconnected, Request, Quiet
  <1>5. CASE HandleScanned
    BY <1>5 DEF HandleScanned, Request
  <1>6. CASE RetryTake
    <2>1. UNCHANGED <<events, handler, main, radio, s_retry_pending>> /\ task = "take"
      BY <1>6 DEF RetryTake, RetryKeeps, driver
    <2>2. CASE s_retry_pending
      BY <1>6, <2>2 DEF RetryTake
    <2>3. CASE ~s_retry_pending
      BY <2>1, <2>3 DEF NoStall, Quiet
    <2> QED BY <2>2, <2>3
  <1>7. CASE RetryCopy \/ RetryClear \/ RetryWait \/ RetryApply
    BY <1>7 DEF RetryCopy, RetryClear, RetryWait, RetryApply
  <1>8. CASE RetryDone
    <2>1. UNCHANGED <<notified, s_retry_pending>> /\ task = "done"
      BY <1>8 DEF RetryDone, request
    <2>2. CASE s_retry_pending
      BY <2>1, <2>2 DEF RequestInv
    <2>3. CASE ~s_retry_pending
      BY <1>8, <2>3 DEF RetryDone
    <2> QED BY <2>2, <2>3
  <1>9. CASE RetryConnect
    BY <1>9 DEF RetryConnect, Connect
  <1>10. CASE Joined \/ Stop \/ InitReset \/ InitStore \/ InitScan \/ InitApply
    BY <1>10 DEF Joined, Stop, InitReset, InitStore, InitScan, InitApply
  <1>11. CASE AirChanges \/ UNCHANGED wifiVars
    <2>1. /\ UNCHANGED <<main, radio, events, handler, task, notified>>
          /\ UNCHANGED s_retry_pending
      BY <1>11 DEF AirChanges, driver, request, retry, wifiVars
    <2> QED BY <2>1 DEF NoStall, Quiet
  <1> QED BY <1>1, <1>2, <1>3, <1>4, <1>5, <1>6, <1>7, <1>8, <1>9, <1>10, <1>11
          DEF WifiNext, Driver, Handler, Retry, InitStaDual

\* No interleaving of the handler, the retry task and the starts of the radio
\* leaves a disconnected station that nobody will reconnect.
THEOREM WifiNoStall == WifiSpec => []NoStall
  <1>1. WifiInit => NoStall
    BY DEF WifiInit, NoStall
  <1> QED BY <1>1, WifiTypeInit, WifiTypeNext, StatusInit, StatusNext, RequestInit, RequestNext,
             NoStallNext, PTL DEF WifiSpec

-----------------------------------------------------------------------------
\* At first the radio is off.
LEMMA TokenInit == WifiInit => TokenInv
  BY DEF WifiInit, TokenInv, OneCares, Off, Waiting

\* The first event of a queue that Told or Busy allows.
LEMMA OneEvent ==
    ASSUME NEW e \in Event, NEW evs
    PROVE  /\ evs = <<e>> => /\ evs # <<>> /\ Head(evs) = e /\ Tail(evs) = <<>>
           /\ evs = <<"got_ip", e>> => /\ evs # <<>> /\ Head(evs) = "got_ip"
                                       /\ Tail(evs) = <<e>>
           /\ Append(<<>>, e) = <<e>> /\ Append(<<"got_ip">>, e) = <<"got_ip", e>>
  <1>1. <<e>> # <<>> /\ Head(<<e>>) = e /\ Tail(<<e>>) = <<>>
    OBVIOUS
  <1>2. <<"got_ip", e>> # <<>> /\ Head(<<"got_ip", e>>) = "got_ip"
    OBVIOUS
  <1>3. Tail(<<"got_ip", e>>) = <<e>>
    OBVIOUS
  <1>4. Append(<<>>, e) = <<e>>
    OBVIOUS
  <1>5. Append(<<"got_ip">>, e) = <<"got_ip", e>>
    <2> DEFINE long == Append(<<"got_ip">>, e)
    <2>1. <<"got_ip">> \in Seq(Event) /\ Len(<<"got_ip">>) = 1
      BY DEF Event
    <2>2. long \in Seq(Event) /\ Len(long) = 2 /\ long[1] = "got_ip" /\ long[2] = e
      BY <2>1
    <2>3. <<"got_ip", e>> \in Seq(Event) /\ Len(<<"got_ip", e>>) = 2
      BY DEF Event
    <2> HIDE DEF long
    <2>4. \A k \in 1 .. Len(long) : long[k] = <<"got_ip", e>>[k]
      BY <2>2
    <2>5. long = <<"got_ip", e>>
      BY <2>2, <2>3, <2>4, SeqEqual
    <2> QED BY <2>5 DEF long
  <1> QED BY <1>1, <1>2, <1>3, <1>4, <1>5

\* Every step hands the connection on to one party.
LEMMA TokenNext == WifiTypeOK /\ TokenInv /\ [WifiNext]_wifiVars => TokenInv'
  <1> SUFFICES ASSUME WifiTypeOK, TokenInv, [WifiNext]_wifiVars PROVE TokenInv'
    OBVIOUS
  <1>a. restarts' = 0 => restarts = 0
    <2>1. restarts' = restarts \/ restarts' = restarts + 1
      BY DEF WifiNext, Driver, Joined, NotJoined, LinkLost, Glitch,
         AirChanges, Handler, HandleStart, HandleGotIp, HandleScanned, HandleDisconnected,
         Retry, RetryTake, RetryCopy, RetryClear, RetryWait, RetryDone, RetryApply,
         RetryConnect, RetryKeeps, InitStaDual, InitReset, InitStore, InitScan, InitApply,
         InitStart, Stop, bounds, wifiVars
    <2>2. restarts \in Nat
      BY WifiAssumption DEF WifiTypeOK
    <2> QED BY <2>1, <2>2
  <1>b. (s_network_count > 0 /\ s_network_count # 0) \/ main \in {"off", "reset"}
    BY WifiAssumption DEF WifiTypeOK, TokenInv
  <1>c. main' \in {"stored", "scanned", "applied", "on"} => s_network_count' = NetworkCount
    <2>1. CASE InitStaDual
      BY <2>1 DEF TokenInv, InitStaDual, InitReset, InitStore, InitScan, InitApply, InitStart,
                  status
    <2>2. CASE ~InitStaDual
      <3>1. UNCHANGED s_network_count /\ (main' = main \/ main' = "off")
        BY <2>2 DEF WifiNext, Driver, Joined, NotJoined, LinkLost, Glitch, AirChanges, Handler,
           HandleStart, HandleGotIp, HandleScanned, HandleDisconnected, Retry, RetryTake,
           RetryCopy, RetryClear, RetryWait, RetryDone, RetryApply, RetryConnect, RetryKeeps,
           Stop, status, wifiVars
      <3> QED BY <3>1 DEF TokenInv
    <2> QED BY <2>1, <2>2
  <1> SUFFICES ASSUME restarts = 0, restarts' = 0, OneCares PROVE OneCares'
    BY <1>a, <1>c DEF TokenInv
  <1>1. CASE Joined
    <2>1. Busy /\ events = <<>> /\ main = "on"
      BY <1>1 DEF OneCares, Off, Busy, Told, Scanning, Retrying, Joined
    <2>2. events' = <<"got_ip">>
      BY <1>1, <2>1, OneEvent DEF Joined, Post, Event
    <2>3. Busy' /\ main' = "on"
      BY <1>1, <2>1, <2>2 DEF Joined, Busy, Waiting, status, request, retry
    <2> QED BY <2>3 DEF OneCares
  <1>2. CASE NotJoined \/ LinkLost \/ Glitch
    <2>1. Busy /\ main = "on"
      BY <1>2 DEF OneCares, Off, Busy, Told, Scanning, Retrying, NotJoined, LinkLost, Glitch
    <2>2. PICK e \in {"lost", "auth"} : events' = Append(events, e)
      BY <1>2 DEF NotJoined, LinkLost, Glitch, Post
    <2>3. events' = <<e>> \/ events' = <<"got_ip", e>>
      BY <2>1, <2>2, OneEvent DEF Busy, Event
    <2>4. /\ radio' = "idle"
          /\ UNCHANGED <<s_active_idx, s_retry_pending, handler, task, main, config>>
      BY <1>2 DEF NotJoined, LinkLost, Glitch, status, request, retry
    <2>5. Told' /\ main' = "on"
      BY <2>1, <2>3, <2>4 DEF Busy, Told, Waiting
    <2> QED BY <2>5 DEF OneCares
  <1>3. CASE HandleStart
    <2>1. Told /\ main = "on" /\ events = <<"start">>
      <3>1. events # <<>> /\ Head(events) = "start" /\ handler = "idle"
        BY <1>3 DEF HandleStart, Handles
      <3>2. Told /\ main = "on"
        BY <3>1, OneEvent DEF OneCares, Off, Busy, Scanning, Retrying, Event
      <3> QED BY <3>1, <3>2, OneEvent DEF Told, Event
    <2>2. events' = <<>>
      BY <1>3, <2>1, OneEvent DEF HandleStart, Handles, Event
    <2>3. radio' = "connecting" /\ config' = s_active_idx /\ target' = s_active_idx
      BY <1>3, <1>b, <2>1 DEF HandleStart, Connect, Told
    <2>4. UNCHANGED <<s_active_idx, s_retry_pending, handler, task, main>>
      BY <1>3 DEF HandleStart, status, request, retry
    <2>5. Busy' /\ main' = "on"
      BY <2>1, <2>2, <2>3, <2>4 DEF Told, Busy, Waiting
    <2> QED BY <2>5 DEF OneCares
  <1>4. CASE HandleGotIp
    <2>1. /\ events # <<>> /\ Head(events) = "got_ip" /\ events' = Tail(events)
          /\ UNCHANGED <<s_active_idx, s_retry_pending, handler, task, main, driver>>
      BY <1>4 DEF HandleGotIp, Handles, request, retry
    <2>2. CASE Busy /\ main = "on"
      <3>1. events' = <<>>
        BY <2>1, <2>2, OneEvent DEF Busy, Event
      <3>2. Busy' /\ main' = "on"
        BY <2>1, <2>2, <3>1 DEF Busy, Waiting, driver
      <3> QED BY <3>2 DEF OneCares
    <2>3. CASE Told /\ main = "on"
      <3>1. \E e \in {"start", "lost", "auth"} : events' = <<e>>
        BY <2>1, <2>3, OneEvent DEF Told, Event
      <3>2. Told' /\ main' = "on"
        BY <2>1, <2>3, <3>1 DEF Told, Waiting, driver
      <3> QED BY <3>2 DEF OneCares
    <2> QED BY <2>1, <2>2, <2>3 DEF OneCares, Off, Scanning, Retrying
  <1>5. ASSUME NEW e \in {"lost", "auth"}, HandleDisconnected(e) PROVE OneCares'
    <2>1. /\ events # <<>> /\ Head(events) = e /\ events' = Tail(events)
          /\ UNCHANGED <<s_active_idx, task, main, radio, config>>
          /\ handler = "idle"
      BY <1>5 DEF HandleDisconnected, Handles, retry, driver
    <2>2. Told /\ main = "on" /\ events = <<e>>
      <3>1. Told /\ main = "on"
        BY <2>1, OneEvent DEF OneCares, Off, Busy, Scanning, Retrying, Event
      <3> QED BY <2>1, <3>1, OneEvent DEF Told, Event
    <2>3. events' = <<>>
      BY <2>1, <2>2, OneEvent DEF Event
    <2>4. CASE handler' = "scan" /\ UNCHANGED request
      <3>1. Scanning' /\ main' = "on"
        BY <2>1, <2>2, <2>3, <2>4 DEF Told, Scanning, Waiting, request
      <3> QED BY <3>1 DEF OneCares
    <2>5. CASE Request(FALSE) /\ UNCHANGED handler
      <3>1. Retrying' /\ main' = "on"
        BY <2>1, <2>2, <2>3, <2>5 DEF Told, Retrying, Waiting, Request
      <3> QED BY <3>1 DEF OneCares
    <2> QED BY <1>5, <2>4, <2>5 DEF HandleDisconnected
  <1>6. CASE HandleScanned
    <2>1. Scanning /\ main = "on"
      BY <1>6 DEF HandleScanned, OneCares, Off, Busy, Told, Retrying
    <2>2. /\ UNCHANGED <<task, main, radio, config, events>> /\ handler' = "idle"
          /\ s_retry_pending' = TRUE
          /\ s_retry_switch_network' <=> s_active_idx' # s_active_idx
      BY <1>6 DEF HandleScanned, Request, retry, driver
    <2>3. Retrying' /\ main' = "on"
      BY <2>1, <2>2 DEF Scanning, Retrying, Waiting
    <2> QED BY <2>3 DEF OneCares
  <1>7. CASE RetryTake /\ ~s_retry_pending
    <2>1. UNCHANGED <<task, main, radio, config, target, events, handler, s_active_idx,
                      s_retry_pending, s_retry_switch_network, switched>>
      BY <1>7 DEF RetryTake, RetryKeeps, status, driver
    <2> QED BY <2>1 DEF OneCares, Off, Busy, Told, Scanning, Retrying, Waiting
  <1>8. CASE (RetryTake /\ s_retry_pending) \/ RetryCopy \/ RetryClear \/ RetryWait \/ RetryDone
    <2>1. Retrying /\ main = "on"
      BY <1>8 DEF RetryTake, RetryCopy, RetryClear, RetryWait, RetryDone, OneCares, Off, Busy,
                  Told, Scanning, Waiting
    <2>2. UNCHANGED <<main, radio, config, events, handler, s_active_idx>>
      BY <1>8 DEF RetryTake, RetryCopy, RetryClear, RetryWait, RetryDone, RetryKeeps, status,
                  driver
    <2>3. s_retry_pending' <=> task' \in {"take", "switch", "delay", "pending"}
      <3>1. CASE RetryTake /\ s_retry_pending
        BY <3>1 DEF RetryTake
      <3>2. CASE RetryCopy
        BY <2>1, <3>2 DEF RetryCopy, Retrying, request
      <3>3. CASE RetryClear
        BY <2>1, <3>3 DEF RetryClear, Retrying
      <3>4. CASE RetryWait
        BY <2>1, <3>4 DEF RetryWait, Retrying, request
      <3>5. CASE RetryDone
        BY <2>1, <3>5 DEF RetryDone, Retrying, request
      <3> QED BY <1>8, <3>1, <3>2, <3>3, <3>4, <3>5
    <2>4. \/ config' = s_active_idx'
          \/ task' \in {"take", "switch"} /\ s_retry_switch_network'
          \/ task' \notin {"take", "switch", "connect"} /\ switched'
      <3>1. CASE RetryTake /\ s_retry_pending
        BY <2>1, <2>2, <3>1 DEF RetryTake, Retrying
      <3>2. CASE RetryCopy
        BY <2>1, <2>2, <3>2 DEF RetryCopy, Retrying, request
      <3>3. CASE RetryClear
        BY <2>1, <2>2, <3>3 DEF RetryClear, Retrying
      <3>4. CASE RetryWait
        BY <2>1, <2>2, <3>4 DEF RetryWait, Retrying, request
      <3>5. CASE RetryDone
        BY <2>1, <2>2, <3>5 DEF RetryDone, Retrying, request
      <3> QED BY <1>8, <3>1, <3>2, <3>3, <3>4, <3>5
    <2>5. Retrying' /\ main' = "on"
      BY <2>1, <2>2, <2>3, <2>4 DEF Retrying
    <2> QED BY <2>5 DEF OneCares
  <1>9. CASE RetryApply
    <2>1. Retrying /\ main = "on"
      BY <1>9 DEF RetryApply, OneCares, Off, Busy, Told, Scanning, Waiting
    <2>2. /\ UNCHANGED <<main, radio, events, handler, s_active_idx, s_retry_pending>>
          /\ task = "apply" /\ task' = "connect" /\ config' = s_active_idx
      BY <1>9, <1>b, <2>1 DEF RetryApply, Applied, RetryKeeps, status, request
    <2>3. Retrying' /\ main' = "on"
      BY <2>1, <2>2 DEF Retrying
    <2> QED BY <2>3 DEF OneCares
  <1>10. CASE RetryConnect
    <2>1. Retrying /\ main = "on"
      BY <1>10 DEF RetryConnect, OneCares, Off, Busy, Told, Scanning, Waiting
    <2>2. /\ UNCHANGED <<main, config, events, handler, s_active_idx, s_retry_pending>>
          /\ task = "connect" /\ task' = "take"
      BY <1>10 DEF RetryConnect, RetryKeeps, status, request
    <2>3. radio' = "connecting" /\ target' = config
      BY <1>10, <2>1 DEF RetryConnect, Connect, Retrying
    <2>4. Busy' /\ main' = "on"
      BY <2>1, <2>2, <2>3 DEF Retrying, Busy, Waiting
    <2> QED BY <2>4 DEF OneCares
  <1>11. CASE InitReset \/ InitStore \/ InitScan \/ InitApply
    <2>1. Off
      BY <1>11 DEF InitReset, InitStore, InitScan, InitApply, OneCares
    <2>2. /\ main' # "on" /\ UNCHANGED <<radio, events, handler, task, s_retry_pending>>
          /\ main' = "applied" => config' = s_active_idx'
      BY <1>11 DEF InitReset, InitStore, InitScan, InitApply, status, request, retry, driver
    <2>3. Off'
      BY <2>1, <2>2 DEF Off, Waiting
    <2> QED BY <2>3 DEF OneCares
  <1>12. CASE InitStart
    <2>1. Off /\ main = "applied"
      BY <1>12 DEF InitStart, OneCares
    <2>2. events' = <<"start">>
      BY <1>12, <2>1, OneEvent DEF InitStart, Post, Off, Event
    <2>3. /\ radio' = "idle" /\ main' = "on"
          /\ UNCHANGED <<handler, task, s_retry_pending, config, s_active_idx>>
      BY <1>12 DEF InitStart, status, request, retry
    <2>4. Told'
      BY <2>1, <2>2, <2>3 DEF Off, Told, Waiting
    <2> QED BY <2>3, <2>4 DEF OneCares
  <1>13. CASE Stop
    BY <1>13 DEF Stop
  <1>14. CASE AirChanges \/ UNCHANGED wifiVars
    <2>1. UNCHANGED <<task, main, radio, config, target, events, handler, s_active_idx,
                      s_retry_pending, s_retry_switch_network, switched>>
      BY <1>14 DEF AirChanges, status, request, retry, driver, wifiVars
    <2> QED BY <2>1 DEF OneCares, Off, Busy, Told, Scanning, Retrying, Waiting
  <1> QED BY <1>1, <1>2, <1>3, <1>4, <1>5, <1>6, <1>7, <1>8, <1>9, <1>10, <1>11, <1>12,
             <1>13, <1>14 DEF WifiNext, Driver, Handler, Retry, InitStaDual

\* While the radio is left on, a switch of the network is never lost on its way
\* through the shared flags, whatever the order of the tasks' steps.
THEOREM WifiActiveTried == WifiSpec => []ActiveTried
  <1>1. TokenInv => ActiveTried
    BY DEF TokenInv, OneCares, Off, Busy, Told, Scanning, Retrying, ActiveTried
  <1> QED BY <1>1, WifiTypeInit, WifiTypeNext, TokenInit, TokenNext, PTL DEF WifiSpec

-----------------------------------------------------------------------------
(***************************************************************************)
(* The display.                                                            *)
(***************************************************************************)
\* What the times are, one by one.
LEMMA Times ==
    /\ SCREEN_INTERVAL \in Nat \ {0} /\ ID_TIME \in Nat \ {0} /\ LONG_PRESS \in Nat \ {0}
    /\ MaxTurn \in Nat \ {0} /\ MaxSleep \in Nat \ {0}
    /\ LONG_PRESS <= 2 * SCREEN_INTERVAL
  BY PanelAssumption

\* What is left after some time.
LEMMA LessIs ==
    ASSUME NEW left \in Int, NEW d \in Int
    PROVE  Less(left, d) = IF left - d >= 0 THEN left - d ELSE 0
  <1> DEFINE m == IF left - d >= 0 THEN left - d ELSE 0
             S == {left - d, 0}
  <1>1. m \in S /\ \A y \in S : m >= y
    OBVIOUS
  <1>2. \A x \in S : (\A y \in S : x >= y) => x = m
    OBVIOUS
  <1>3. Less(left, d) = Max(S)
    BY DEF Less
  <1> HIDE DEF m, S
  <1>4. Max(S) = m
    BY <1>1, <1>2 DEF Max
  <1> QED BY <1>3, <1>4 DEF m

\* The age after some time.
LEMMA OlderIs ==
    ASSUME NEW age \in Int, NEW d \in Int, NEW top \in Int
    PROVE  Older(age, d, top) = IF age + d <= top THEN age + d ELSE top
  <1> DEFINE m == IF age + d <= top THEN age + d ELSE top
             S == {age + d, top}
  <1>1. m \in S /\ \A y \in S : m <= y
    OBVIOUS
  <1>2. \A x \in S : (\A y \in S : x <= y) => x = m
    OBVIOUS
  <1>3. Older(age, d, top) = Min(S)
    BY DEF Older
  <1> HIDE DEF m, S
  <1>4. Min(S) = m
    BY <1>1, <1>2 DEF Min
  <1> QED BY <1>3, <1>4 DEF m

\* The types of what is no part of the display.
LoopTypeOK ==
    /\ pc \in {"boot", "ready", "start", "top", "cycle", "upload", "next", "end", "work",
               "sync", "press", "sleep", "asleep", "nap"}
    /\ ret \in {"none", "ok", "dim", "failed"} /\ woke \in {"no", "button", "timer"}
    /\ display_screen \in 0 .. 2
    /\ on_left \in 0 .. 3 * SCREEN_INTERVAL /\ shown_for \in 0 .. SCREEN_INTERVAL
    /\ ~display_active => on_left = 0 /\ shown_for = 0
    /\ id_left \in 0 .. ID_TIME /\ late \in 0 .. MaxTurn
    /\ press_age \in 0 .. LONG_PRESS
    /\ by \in {"none", "press", "id"} /\ lights \in 0 .. 4
    /\ basic \in BOOLEAN /\ held \in BOOLEAN /\ raw \in BOOLEAN
    /\ last_button_state \in BOOLEAN /\ debounced_state \in BOOLEAN
    /\ long_press_ignore \in BOOLEAN /\ press_reported \in BOOLEAN
    /\ pressed \in BOOLEAN /\ ticks_run \in BOOLEAN /\ display_active \in BOOLEAN

\* These types and those of the display are all.
LEMMA Types == TypeOK <=> OledTypeOK /\ LoopTypeOK /\ showing \in BOOLEAN
  BY DEF TypeOK, LoopTypeOK

\* The turn is about to look at the button again.
BeforePress == {"work", "sync", "press"}

\* A cycle of a press is under way or may be about to start.
InCycle ==
    \/ pc \in {"asleep", "upload", "next", "end"}
    \/ woke = "button" /\ pc \in {"top", "cycle"}

\* How often the button, as it is, may still light the panel by a wake-up.
CyclesLeft ==
    IF \/ pc = "asleep" /\ held
       \/ woke = "button" /\ pc \in {"top", "cycle"} THEN 1 ELSE 0

\* The next second look at the button would light a dark panel.
Pending == ~raw \/ (pressed /\ pc \in BeforePress)

\* How often it may still light the panel by such a look, as long as it stays as it is.
PressesLeft ==
    IF ~held THEN IF pressed /\ pc \in BeforePress THEN 1 ELSE 0
    ELSE IF ~last_button_state THEN IF pc \in BeforePress THEN 3 ELSE 2
    ELSE IF long_press_ignore THEN IF Pending THEN 1 ELSE 0
    ELSE IF display_active /\ ~InCycle /\ press_age + on_left >= LONG_PRESS THEN 1 ELSE 2

\* What ties the loop's place to the button.
Order ==
    /\ woke # "no" => pc \in {"top", "cycle", "upload", "next", "end"}
    /\ pc \in {"cycle", "upload", "next", "end"} => woke # "no"
    /\ pc \in BeforePress /\ pressed => last_button_state
    /\ pc \in BeforePress /\ last_button_state => press_age >= late \/ press_age >= LONG_PRESS
    /\ pc \in {"work", "sync"} => late = 0
    /\ pc \in {"boot", "ready"} => lights = 0

Budget == lights + CyclesLeft + PressesLeft <= 3

LoopInv == LoopTypeOK /\ Order /\ Budget

\* Time goes by.
LEMMA ElapseTypes ==
    ASSUME LoopTypeOK, NEW d \in Nat, Elapse(d)
    PROVE  /\ on_left' \in 0 .. 3 * SCREEN_INTERVAL /\ shown_for' \in 0 .. SCREEN_INTERVAL
           /\ press_age' \in 0 .. LONG_PRESS
           /\ ~display_active => on_left' = 0 /\ shown_for' = 0
           /\ last_button_state /\ press_age + on_left >= LONG_PRESS
                => press_age' + on_left' >= LONG_PRESS
           /\ last_button_state => press_age' >= d \/ press_age' >= LONG_PRESS
  <1>1. /\ on_left \in 0 .. 3 * SCREEN_INTERVAL /\ shown_for \in 0 .. SCREEN_INTERVAL
        /\ press_age \in 0 .. LONG_PRESS /\ (~display_active => on_left = 0)
    BY DEF LoopTypeOK
  <1>2. on_left' = IF on_left - d >= 0 THEN on_left - d ELSE 0
    BY <1>1, Times, LessIs DEF Elapse
  <1>3. shown_for' = IF display_active
                     THEN IF shown_for + d <= SCREEN_INTERVAL THEN shown_for + d
                                                              ELSE SCREEN_INTERVAL
                     ELSE 0
    BY <1>1, Times, OlderIs DEF Elapse
  <1>4. press_age' = IF last_button_state
                     THEN IF press_age + d <= LONG_PRESS THEN press_age + d ELSE LONG_PRESS
                     ELSE 0
    BY <1>1, Times, OlderIs DEF Elapse, Held
  <1> QED BY <1>1, <1>2, <1>3, <1>4, Times

-----------------------------------------------------------------------------
\* The initial state.
LEMMA InitLoop == Init => LoopInv
  <1> SUFFICES ASSUME Init PROVE LoopInv
    OBVIOUS
  <1>1. LoopTypeOK
    <2>1. /\ pc = "boot" /\ ret = "none" /\ woke = "no" /\ display_screen = 0
          /\ on_left = 0 /\ shown_for = 0 /\ id_left = 0 /\ late = 0 /\ press_age = 0
          /\ by = "none" /\ lights = 0
      BY DEF Init
    <2>2. /\ basic \in BOOLEAN /\ held \in BOOLEAN /\ raw \in BOOLEAN
          /\ last_button_state \in BOOLEAN /\ debounced_state \in BOOLEAN
          /\ long_press_ignore \in BOOLEAN /\ press_reported \in BOOLEAN
          /\ pressed \in BOOLEAN /\ ticks_run \in BOOLEAN /\ display_active \in BOOLEAN
      BY DEF Init
    <2> QED BY <2>1, <2>2, Times DEF LoopTypeOK
  <1>2. Order /\ Budget
    BY DEF Init, Order, Budget, CyclesLeft, PressesLeft, BeforePress, InCycle, Pending
  <1> QED BY <1>1, <1>2 DEF LoopInv

\* display_init.
LEMMA InitDisplayLoop ==
    ASSUME LoopInv, display_init
    PROVE  LoopInv'
  <1>1. /\ pc = "boot" /\ pc' = "ready" /\ ret' \in {"failed", "ok", "dim"}
        /\ UNCHANGED <<woke, raw, late, basic, held, button, screens, timers, ticks_run,
                       by, lights>>
    BY DEF display_init
  <1>2. LoopTypeOK'
    BY <1>1 DEF LoopInv, LoopTypeOK, button, screens, timers
  <1>3. (Order /\ Budget)'
    BY <1>1 DEF LoopInv, LoopTypeOK, Order, Budget, CyclesLeft, PressesLeft, BeforePress,
       InCycle, Pending, button, screens, timers
  <1> QED BY <1>2, <1>3 DEF LoopInv

\* "Ready" is shown.
LEMMA ShowReadyLoop ==
    ASSUME LoopInv, ShowReady
    PROVE  LoopInv'
  <1>1. /\ pc = "ready" /\ pc' = "start"
        /\ last_button_state' = held /\ debounced_state' = held
        /\ press_age' \in 0 .. LONG_PRESS
        /\ UNCHANGED <<woke, raw, late, basic, held, long_press_ignore, press_reported,
                       pressed,
                       screens, on_left, shown_for, id_left, modes, by, lights>>
    BY Times DEF ShowReady
  <1>2. LoopTypeOK'
    BY <1>1 DEF LoopInv, LoopTypeOK, screens, modes
  <1>3. (Order /\ Budget)'
    BY <1>1 DEF LoopInv, LoopTypeOK, Order, Budget, CyclesLeft, PressesLeft, BeforePress,
       InCycle, Pending, screens, modes
  <1> QED BY <1>2, <1>3 DEF LoopInv

\* The task starts.
LEMMA StartLoop ==
    ASSUME LoopInv, StartTask
    PROVE  LoopInv'
  <1>1. /\ pc = "start" /\ pc' = "top"
        /\ UNCHANGED <<woke, raw, late, basic, held, button, screens, timers, modes, by,
                       lights>>
    BY DEF StartTask
  <1>2. LoopTypeOK'
    BY <1>1 DEF LoopInv, LoopTypeOK, button, screens, timers, modes
  <1>3. (Order /\ Budget)'
    BY <1>1 DEF LoopInv, LoopTypeOK, Order, Budget, CyclesLeft, PressesLeft, BeforePress,
       InCycle, Pending, button, screens, timers, modes
  <1> QED BY <1>2, <1>3 DEF LoopInv

\* The readings.
LEMMA MeasureLoop ==
    ASSUME LoopInv, Measure
    PROVE  LoopInv'
  <1>1. /\ pc = "work" /\ pc' = "sync"
        /\ UNCHANGED <<woke, raw, late, basic, held, button, screens, timers, modes, by,
                       lights>>
    BY DEF Measure
  <1>2. LoopTypeOK'
    BY <1>1 DEF LoopInv, LoopTypeOK, button, screens, timers, modes
  <1>3. (Order /\ Budget)'
    BY <1>1 DEF LoopInv, LoopTypeOK, Order, Budget, CyclesLeft, PressesLeft, BeforePress,
       InCycle, Pending, button, screens, timers, modes
  <1> QED BY <1>2, <1>3 DEF LoopInv

\* The sleep begins with the button up.
LEMMA GoToSleepLoop ==
    ASSUME LoopInv, GoToSleep
    PROVE  LoopInv'
  <1>1. /\ pc = "sleep" /\ pc' = "asleep" /\ ~held
        /\ UNCHANGED <<woke, raw, late, basic, held, button, screens, timers, modes, by,
                       lights>>
    BY DEF GoToSleep
  <1>2. LoopTypeOK'
    BY <1>1 DEF LoopInv, LoopTypeOK, button, screens, timers, modes
  <1>3. (Order /\ Budget)'
    BY <1>1 DEF LoopInv, LoopTypeOK, Order, Budget, CyclesLeft, PressesLeft, BeforePress,
       InCycle, Pending, button, screens, timers, modes
  <1> QED BY <1>2, <1>3 DEF LoopInv

\* The button moves.
LEMMA ButtonLoop ==
    ASSUME LoopInv, Button
    PROVE  LoopInv'
  <1>1. /\ held' = ~held /\ lights' = 0
        /\ UNCHANGED <<pc, woke, raw, late, basic, button, screens, timers, modes, by>>
    BY DEF Button
  <1>2. LoopTypeOK'
    BY <1>1 DEF LoopInv, LoopTypeOK, button, screens, timers, modes
  <1>3. (Order /\ Budget)'
    BY <1>1 DEF LoopInv, LoopTypeOK, Order, Budget, CyclesLeft, PressesLeft, BeforePress,
       InCycle, Pending, button, screens, timers, modes
  <1> QED BY <1>2, <1>3 DEF LoopInv

\* A turn without a sleep.
LEMMA StayAwakeLoop ==
    ASSUME LoopInv, StayAwake
    PROVE  LoopInv'
  <1>1. /\ pc = "sleep" /\ pc' = "top" /\ Elapse(1) /\ id_left' = Less(id_left, 1)
        /\ UNCHANGED <<woke, raw, late, basic, held, button, screens, modes, by, lights>>
    BY DEF StayAwake, Pass
  <1>2. /\ on_left' \in 0 .. 3 * SCREEN_INTERVAL /\ shown_for' \in 0 .. SCREEN_INTERVAL
        /\ press_age' \in 0 .. LONG_PRESS
        /\ ~display_active => on_left' = 0 /\ shown_for' = 0
        /\ last_button_state /\ press_age + on_left >= LONG_PRESS
             => press_age' + on_left' >= LONG_PRESS
    BY <1>1, ElapseTypes DEF LoopInv
  <1>3. id_left' \in 0 .. ID_TIME
    BY <1>1, LessIs, Times DEF LoopInv, LoopTypeOK
  <1>4. LoopTypeOK'
    BY <1>1, <1>2, <1>3 DEF LoopInv, LoopTypeOK, button, screens, modes
  <1>5. (Order /\ Budget)'
    BY <1>1, <1>2 DEF LoopInv, LoopTypeOK, Order, Budget, CyclesLeft, PressesLeft,
       BeforePress, InCycle, Pending, button, screens, modes
  <1> QED BY <1>4, <1>5 DEF LoopInv

\* The sleep after a cycle.
LEMMA NapLoop ==
    ASSUME LoopInv, Nap
    PROVE  LoopInv'
  <1>1. PICK d \in Nat : Elapse(d) /\ id_left' = Less(id_left, d)
    BY Times DEF Nap, Pass
  <1>2. /\ pc = "nap" /\ pc' = "top"
        /\ UNCHANGED <<woke, raw, late, basic, held, button, screens, modes, by, lights>>
    BY DEF Nap
  <1>3. /\ on_left' \in 0 .. 3 * SCREEN_INTERVAL /\ shown_for' \in 0 .. SCREEN_INTERVAL
        /\ press_age' \in 0 .. LONG_PRESS
        /\ ~display_active => on_left' = 0 /\ shown_for' = 0
        /\ last_button_state /\ press_age + on_left >= LONG_PRESS
             => press_age' + on_left' >= LONG_PRESS
    BY <1>1, ElapseTypes DEF LoopInv
  <1>4. id_left' \in 0 .. ID_TIME
    BY <1>1, LessIs, Times DEF LoopInv, LoopTypeOK
  <1>5. LoopTypeOK'
    BY <1>2, <1>3, <1>4 DEF LoopInv, LoopTypeOK, button, screens, modes
  <1>6. (Order /\ Budget)'
    BY <1>2, <1>3 DEF LoopInv, LoopTypeOK, Order, Budget, CyclesLeft, PressesLeft,
       BeforePress, InCycle, Pending, button, screens, modes
  <1> QED BY <1>5, <1>6 DEF LoopInv

\* Awake, by the button or by the timer.
LEMMA WakeLoop ==
    ASSUME LoopInv, Wake
    PROVE  LoopInv'
  <1>1. PICK d \in Nat : Elapse(d) /\ id_left' = Less(id_left, d)
    BY Times DEF Wake, Pass
  <1>2. /\ pc = "asleep" /\ pc' = "top" /\ woke' = (IF held THEN "button" ELSE "timer")
        /\ UNCHANGED <<raw, late, basic, held, button, screens, modes, by, lights>>
    BY DEF Wake
  <1>3. /\ on_left' \in 0 .. 3 * SCREEN_INTERVAL /\ shown_for' \in 0 .. SCREEN_INTERVAL
        /\ press_age' \in 0 .. LONG_PRESS
        /\ ~display_active => on_left' = 0 /\ shown_for' = 0
        /\ last_button_state /\ press_age + on_left >= LONG_PRESS
             => press_age' + on_left' >= LONG_PRESS
    BY <1>1, ElapseTypes DEF LoopInv
  <1>4. id_left' \in 0 .. ID_TIME
    BY <1>1, LessIs, Times DEF LoopInv, LoopTypeOK
  <1>5. LoopTypeOK'
    BY <1>2, <1>3, <1>4 DEF LoopInv, LoopTypeOK, button, screens, modes
  <1>6. (Order /\ Budget)'
    BY <1>2, <1>3 DEF LoopInv, LoopTypeOK, Order, Budget, CyclesLeft, PressesLeft,
       BeforePress, InCycle, Pending, button, screens, modes
  <1> QED BY <1>5, <1>6 DEF LoopInv

\* What an upload of some length does to the loop.
LEMMA UploadedTypes ==
    ASSUME LoopTypeOK, NEW d \in Nat, Uploaded(d)
    PROVE  /\ on_left' \in 0 .. 3 * SCREEN_INTERVAL /\ shown_for' \in 0 .. SCREEN_INTERVAL
           /\ press_age' \in 0 .. LONG_PRESS
           /\ ~display_active => on_left' = 0 /\ shown_for' = 0
           /\ last_button_state /\ press_age + on_left >= LONG_PRESS
                => press_age' + on_left' >= LONG_PRESS
           /\ last_button_state => press_age' >= d \/ press_age' >= LONG_PRESS
           /\ basic' \in BOOLEAN /\ id_left' \in 0 .. ID_TIME
           /\ by' \in {"none", "press", "id"}
  <1>1. Elapse(d) /\ basic' \in BOOLEAN /\ (id_left' = ID_TIME \/ id_left' = Less(id_left, d))
    BY DEF Uploaded
  <1>2. id_left' \in 0 .. ID_TIME
    BY <1>1, LessIs, Times DEF LoopTypeOK
  <1>3. by' \in {"none", "press", "id"}
    BY DEF Uploaded, LoopTypeOK
  <1> QED BY <1>1, <1>2, <1>3, ElapseTypes

\* An upload may be due.
LEMMA SyncLoop ==
    ASSUME LoopInv, Sync
    PROVE  LoopInv'
  <1>1. /\ pc = "sync" /\ pc' = "press"
        /\ UNCHANGED <<woke, raw, held, button, screens, modes, lights>>
    BY DEF Sync
  <1>2. CASE UNCHANGED <<late, basic, timers, display, by>>
    <2>1. LoopTypeOK'
      BY <1>1, <1>2 DEF LoopInv, LoopTypeOK, button, screens, modes, timers
    <2>2. (Order /\ Budget)'
      BY <1>1, <1>2 DEF LoopInv, LoopTypeOK, Order, Budget, CyclesLeft, PressesLeft,
         BeforePress, InCycle, Pending, button, screens, modes, timers
    <2> QED BY <2>1, <2>2 DEF LoopInv
  <1>3. ASSUME NEW d \in 1 .. MaxTurn, late' = d, Uploaded(d)
        PROVE  LoopInv'
    <2>0. d \in Nat
      BY Times
    <2>1. /\ on_left' \in 0 .. 3 * SCREEN_INTERVAL /\ shown_for' \in 0 .. SCREEN_INTERVAL
          /\ press_age' \in 0 .. LONG_PRESS
          /\ ~display_active => on_left' = 0 /\ shown_for' = 0
          /\ last_button_state /\ press_age + on_left >= LONG_PRESS
               => press_age' + on_left' >= LONG_PRESS
          /\ last_button_state => press_age' >= d \/ press_age' >= LONG_PRESS
          /\ basic' \in BOOLEAN /\ id_left' \in 0 .. ID_TIME
          /\ by' \in {"none", "press", "id"}
      BY <1>3, <2>0, UploadedTypes DEF LoopInv
    <2>2. LoopTypeOK'
      BY <1>1, <1>3, <2>1, Times DEF LoopInv, LoopTypeOK, button, screens, modes
    <2>3. (Order /\ Budget)'
      BY <1>1, <1>3, <2>1 DEF LoopInv, LoopTypeOK, Order, Budget, CyclesLeft, PressesLeft,
         BeforePress, InCycle, Pending, button, screens, modes
    <2> QED BY <2>2, <2>3 DEF LoopInv
  <1> QED BY <1>2, <1>3 DEF Sync

\* The upload of a cycle.
LEMMA CycleUploadLoop ==
    ASSUME LoopInv, CycleUpload
    PROVE  LoopInv'
  <1>1. /\ pc = "upload" /\ pc' = "next"
        /\ UNCHANGED <<woke, raw, late, held, button, screens, modes, lights>>
    BY DEF CycleUpload
  <1>2. PICK d \in Nat : Uploaded(d)
    BY Times DEF CycleUpload
  <1>3. /\ on_left' \in 0 .. 3 * SCREEN_INTERVAL /\ shown_for' \in 0 .. SCREEN_INTERVAL
        /\ press_age' \in 0 .. LONG_PRESS
        /\ ~display_active => on_left' = 0 /\ shown_for' = 0
        /\ basic' \in BOOLEAN /\ id_left' \in 0 .. ID_TIME
        /\ by' \in {"none", "press", "id"}
    BY <1>2, UploadedTypes DEF LoopInv
  <1>4. LoopTypeOK'
    BY <1>1, <1>3 DEF LoopInv, LoopTypeOK, button, screens, modes
  <1>5. (Order /\ Budget)'
    BY <1>1, <1>3 DEF LoopInv, LoopTypeOK, Order, Budget, CyclesLeft, PressesLeft,
       BeforePress, InCycle, Pending, button, screens, modes
  <1> QED BY <1>4, <1>5 DEF LoopInv

\* A wake-up by the timer.
LEMMA TimerCycleLoop ==
    ASSUME LoopInv, TimerCycle
    PROVE  LoopInv'
  <1>1. /\ pc = "cycle" /\ woke = "timer" /\ pc' = "nap" /\ woke' = "no"
        /\ UNCHANGED <<raw, late, held, button, screens, modes, lights>>
    BY DEF TimerCycle
  <1>2. PICK d \in Nat : Uploaded(d)
    BY Times DEF TimerCycle
  <1>3. /\ on_left' \in 0 .. 3 * SCREEN_INTERVAL /\ shown_for' \in 0 .. SCREEN_INTERVAL
        /\ press_age' \in 0 .. LONG_PRESS
        /\ ~display_active => on_left' = 0 /\ shown_for' = 0
        /\ last_button_state /\ press_age + on_left >= LONG_PRESS
             => press_age' + on_left' >= LONG_PRESS
        /\ basic' \in BOOLEAN /\ id_left' \in 0 .. ID_TIME
        /\ by' \in {"none", "press", "id"}
    BY <1>2, UploadedTypes DEF LoopInv
  <1>4. LoopTypeOK'
    BY <1>1, <1>3 DEF LoopInv, LoopTypeOK, button, screens, modes
  <1>5. (Order /\ Budget)'
    BY <1>1, <1>3 DEF LoopInv, LoopTypeOK, Order, Budget, CyclesLeft, PressesLeft,
       BeforePress, InCycle, Pending, button, screens, modes
  <1> QED BY <1>4, <1>5 DEF LoopInv

\* The number of screens.
LEMMA Screens == max_screens \in {2, 3}
  BY DEF max_screens

\* How long the panel stays on after a press.
LEMMA OnTime ==
    /\ SCREEN_INTERVAL * max_screens \in 0 .. 3 * SCREEN_INTERVAL
    /\ SCREEN_INTERVAL * max_screens >= LONG_PRESS
  <1>1. SCREEN_INTERVAL * 2 = 2 * SCREEN_INTERVAL /\ SCREEN_INTERVAL * 3 = 3 * SCREEN_INTERVAL
    BY Times
  <1>2. CASE max_screens = 2
    BY <1>1, <1>2, Times
  <1>3. CASE max_screens = 3
    BY <1>1, <1>3, Times
  <1> QED BY <1>2, <1>3, Screens

\* A panel that is lit once more.
LEMMA LightsTypes ==
    ASSUME LoopTypeOK, NEW picture, Lights(picture)
    PROVE  by' = "press" /\ lights' \in 0 .. 4 /\ (lights < 4 => lights' = lights + 1)
  <1>1. by' = "press" /\ lights' = Older(lights, 1, 4)
    BY DEF Lights, Older
  <1>2. lights' = IF lights + 1 <= 4 THEN lights + 1 ELSE 4
    BY <1>1, OlderIs DEF LoopTypeOK
  <1> QED BY <1>1, <1>2 DEF LoopTypeOK

\* The first screen of a cycle, or an error.
LEMMA ButtonCycleLoop ==
    ASSUME LoopInv, ButtonCycle
    PROVE  LoopInv'
  <1>1. /\ pc = "cycle" /\ woke = "button" /\ pc' \in {"upload", "end"}
        /\ UNCHANGED <<woke, raw, late, basic, held, button, id_left, press_age, modes>>
        /\ \E picture : Lights(picture)
    BY DEF ButtonCycle
  <1>2. by' = "press" /\ lights' \in 0 .. 4 /\ (lights < 4 => lights' = lights + 1)
    BY <1>1, LightsTypes DEF LoopInv
  <1>3. \/ /\ display_active' = TRUE /\ display_screen' = 0
           /\ on_left' = SCREEN_INTERVAL * max_screens /\ shown_for' = 0
        \/ UNCHANGED <<screens, on_left, shown_for>>
    BY DEF ButtonCycle
  <1>4. LoopTypeOK'
    <2>1. CASE UNCHANGED <<screens, on_left, shown_for>>
      BY <1>1, <1>2, <2>1 DEF LoopInv, LoopTypeOK, button, screens, modes
    <2>2. CASE /\ display_active' = TRUE /\ display_screen' = 0
               /\ on_left' = SCREEN_INTERVAL * max_screens /\ shown_for' = 0
      BY <1>1, <1>2, <2>2, OnTime, Times DEF LoopInv, LoopTypeOK, button, modes
    <2> QED BY <1>3, <2>1, <2>2
  <1>5. Order'
    BY <1>1 DEF LoopInv, LoopTypeOK, Order, BeforePress
  <1>6. CyclesLeft = 1 /\ CyclesLeft' = 0
    BY <1>1 DEF CyclesLeft
  <1>7. PressesLeft' = PressesLeft /\ PressesLeft \in 0 .. 3
    <2>1. InCycle /\ InCycle'
      BY <1>1 DEF InCycle
    <2>2. /\ pc \notin BeforePress /\ pc' \notin BeforePress
          /\ UNCHANGED <<held, raw, last_button_state, long_press_ignore>>
      BY <1>1 DEF BeforePress, button
    <2> QED BY <2>1, <2>2 DEF PressesLeft, Pending
  <1>8. Budget'
    <2>1. PICK p : p = PressesLeft
      OBVIOUS
    <2>2. p \in 0 .. 3 /\ lights + 1 + p <= 3 /\ lights \in 0 .. 4
      BY <1>6, <1>7, <2>1 DEF LoopInv, LoopTypeOK, Budget
    <2>3. lights' = lights + 1
      BY <1>2, <2>2
    <2>4. lights' + 0 + p <= 3
      BY <2>2, <2>3
    <2> QED BY <1>6, <1>7, <2>1, <2>4 DEF Budget
  <1> QED BY <1>4, <1>5, <1>8 DEF LoopInv

\* The next screen of a cycle.
LEMMA CycleNextLoop ==
    ASSUME LoopInv, CycleNext
    PROVE  LoopInv'
  <1>1. /\ pc = "next" /\ pc' = "end" /\ display_screen' = 1 /\ shown_for' = 0
        /\ UNCHANGED <<woke, raw, late, basic, held, button, display_active, on_left,
                       id_left,
                       press_age, modes, by, lights>>
    BY DEF CycleNext
  <1>2. LoopTypeOK'
    BY <1>1, Times DEF LoopInv, LoopTypeOK, button, modes
  <1>3. (Order /\ Budget)'
    BY <1>1 DEF LoopInv, LoopTypeOK, Order, Budget, CyclesLeft, PressesLeft, BeforePress,
       InCycle, Pending, button, modes
  <1> QED BY <1>2, <1>3 DEF LoopInv

\* The end of a cycle.
LEMMA CycleEndLoop ==
    ASSUME LoopInv, CycleEnd
    PROVE  LoopInv'
  <1>1. /\ pc = "end" /\ pc' = "nap" /\ woke' = "no"
        /\ display_active' = FALSE /\ display_screen' = 0
        /\ on_left' = 0 /\ shown_for' = 0
        /\ id_left' = Less(id_left, SCREEN_INTERVAL) /\ Held(SCREEN_INTERVAL)
        /\ by' = "none"
        /\ UNCHANGED <<raw, late, basic, held, button, modes, lights>>
    BY DEF CycleEnd, TurnOff
  <1>2. id_left' \in 0 .. ID_TIME
    BY <1>1, LessIs, Times DEF LoopInv, LoopTypeOK
  <1>3. press_age' \in 0 .. LONG_PRESS
    <2>1. press_age \in 0 .. LONG_PRESS
      BY DEF LoopInv, LoopTypeOK
    <2>2. press_age' = IF last_button_state
                       THEN IF press_age + SCREEN_INTERVAL <= LONG_PRESS
                            THEN press_age + SCREEN_INTERVAL ELSE LONG_PRESS
                       ELSE 0
      BY <1>1, <2>1, Times, OlderIs DEF Held
    <2> QED BY <2>1, <2>2, Times
  <1>4. LoopTypeOK'
    <2>1. /\ basic' \in BOOLEAN /\ held' \in BOOLEAN /\ raw' \in BOOLEAN
         /\ last_button_state' \in BOOLEAN /\ debounced_state' \in BOOLEAN
         /\ long_press_ignore' \in BOOLEAN /\ press_reported' \in BOOLEAN
         /\ pressed' \in BOOLEAN /\ ticks_run' \in BOOLEAN /\ display_active' \in BOOLEAN
      BY <1>1 DEF LoopInv, LoopTypeOK, button, modes
    <2>2. /\ pc' = "nap" /\ woke' = "no" /\ display_screen' = 0
          /\ on_left' = 0 /\ shown_for' = 0 /\ by' = "none"
          /\ ret' = ret /\ late' = late /\ lights' = lights
      BY <1>1 DEF modes
    <2> QED BY <1>2, <1>3, <2>1, <2>2, Times DEF LoopInv, LoopTypeOK
  <1>5. (Order /\ Budget)'
    BY <1>1, <1>3 DEF LoopInv, LoopTypeOK, Order, Budget, CyclesLeft, PressesLeft,
       BeforePress, InCycle, Pending, button, modes
  <1> QED BY <1>4, <1>5 DEF LoopInv

\* What the poll at the top of the loop leaves.
LEMMA PollTypes ==
    ASSUME LoopTypeOK, button_is_pressed_debounced
    PROVE  /\ last_button_state' = held
           /\ debounced_state' \in BOOLEAN /\ long_press_ignore' \in BOOLEAN
           /\ press_reported' \in BOOLEAN /\ pressed' \in BOOLEAN
           /\ press_age' \in 0 .. LONG_PRESS
           /\ ~held => ~pressed'
           /\ held /\ ~last_button_state => ~long_press_ignore'
           /\ held /\ last_button_state =>
                /\ press_age' = press_age
                /\ long_press_ignore => ~pressed'
                /\ long_press_ignore' = (long_press_ignore \/ press_age >= LONG_PRESS)
  <1>1. /\ held \in BOOLEAN /\ debounced_state \in BOOLEAN /\ long_press_ignore \in BOOLEAN
        /\ press_reported \in BOOLEAN /\ pressed \in BOOLEAN /\ last_button_state \in BOOLEAN
        /\ press_age \in 0 .. LONG_PRESS
    BY DEF LoopTypeOK
  <1>2. CASE held # last_button_state
    <2>1. /\ last_button_state' = held
          /\ debounced_state' = (~held /\ debounced_state)
          /\ press_age' = IF held THEN 0 ELSE press_age
          /\ pressed' = FALSE
          /\ press_reported' = FALSE
          /\ long_press_ignore' = (debounced_state' /\ press_age >= LONG_PRESS)
      BY <1>2 DEF button_is_pressed_debounced
    <2>2. /\ debounced_state' \in BOOLEAN /\ pressed' \in BOOLEAN /\ press_reported' \in BOOLEAN
          /\ long_press_ignore' \in BOOLEAN
      BY <2>1
    <2>3. press_age' \in 0 .. LONG_PRESS
      BY <1>1, <2>1, Times
    <2>4. ~pressed' /\ (held => ~long_press_ignore')
      BY <2>1
    <2>5. ~(held /\ last_button_state)
      BY <1>1, <1>2
    <2> QED BY <2>1, <2>2, <2>3, <2>4, <2>5
  <1>3. CASE held = last_button_state
    BY <1>1, <1>3, Times DEF button_is_pressed_debounced
  <1> QED BY <1>2, <1>3

\* The top of the loop.
LEMMA TopLoop ==
    ASSUME LoopInv, Top
    PROVE  LoopInv'
  <1>1. /\ pc = "top" /\ pc' = (IF woke = "no" THEN "work" ELSE "cycle") /\ late' = 0
        /\ button_is_pressed_debounced
        /\ UNCHANGED <<woke, raw, basic, held, id_left, modes, lights>>
    BY DEF Top
  <1>2. /\ last_button_state' = held
        /\ debounced_state' \in BOOLEAN /\ long_press_ignore' \in BOOLEAN
        /\ press_reported' \in BOOLEAN /\ pressed' \in BOOLEAN
        /\ press_age' \in 0 .. LONG_PRESS
        /\ ~held => ~pressed'
        /\ held /\ ~last_button_state => ~long_press_ignore'
        /\ held /\ last_button_state =>
             /\ press_age' = press_age
             /\ long_press_ignore => ~pressed'
             /\ long_press_ignore' = (long_press_ignore \/ press_age >= LONG_PRESS)
    BY <1>1, PollTypes DEF LoopInv
  <1>3. \/ /\ display_active /\ on_left = 0 /\ display_active' = FALSE /\ display_screen' = 0
           /\ shown_for' = 0 /\ on_left' = 0 /\ by' = "none"
        \/ /\ display_active /\ display_screen' = (display_screen + 1) % max_screens
           /\ shown_for' = 0 /\ UNCHANGED <<display_active, on_left, by>>
        \/ UNCHANGED <<screens, shown_for, on_left, by>>
    BY DEF Top, TimeIsUp, TurnOff
  <1>4. LoopTypeOK'
    <2>1. CASE /\ display_active' = FALSE /\ display_screen' = 0
               /\ shown_for' = 0 /\ on_left' = 0 /\ by' = "none"
      <3>1. /\ basic' \in BOOLEAN /\ held' \in BOOLEAN /\ raw' \in BOOLEAN
           /\ last_button_state' \in BOOLEAN /\ debounced_state' \in BOOLEAN
           /\ long_press_ignore' \in BOOLEAN /\ press_reported' \in BOOLEAN
           /\ pressed' \in BOOLEAN /\ ticks_run' \in BOOLEAN /\ display_active' \in BOOLEAN
        BY <1>1, <1>2, <2>1 DEF LoopInv, LoopTypeOK, modes
      <3>2. /\ pc' \in {"work", "cycle"} /\ woke' = woke /\ ret' = ret /\ late' = 0
            /\ id_left' = id_left /\ lights' = lights /\ press_age' \in 0 .. LONG_PRESS
        BY <1>1, <1>2 DEF modes
      <3> QED BY <2>1, <3>1, <3>2, Times DEF LoopInv, LoopTypeOK
    <2>2. CASE /\ display_active /\ display_screen' = (display_screen + 1) % max_screens
               /\ shown_for' = 0 /\ UNCHANGED <<display_active, on_left, by>>
      <3>1. display_screen' \in 0 .. 2
        <4>1. display_screen + 1 \in Nat
          BY DEF LoopInv, LoopTypeOK
        <4>2. CASE max_screens = 2
          BY <2>2, <4>1, <4>2
        <4>3. CASE max_screens = 3
          BY <2>2, <4>1, <4>3
        <4> QED BY <4>2, <4>3, Screens
      <3> QED BY <1>1, <1>2, <2>2, <3>1, Times DEF LoopInv, LoopTypeOK, modes
    <2>3. CASE UNCHANGED <<screens, shown_for, on_left, by>>
      BY <1>1, <1>2, <2>3, Times DEF LoopInv, LoopTypeOK, modes, screens
    <2> QED BY <1>3, <2>1, <2>2, <2>3
  <1>5. \/ display_active /\ on_left = 0 /\ display_active' = FALSE /\ on_left' = 0
        \/ UNCHANGED <<display_active, on_left>>
    BY <1>3 DEF screens
  <1>6. Order'
    BY <1>1, <1>2 DEF LoopInv, LoopTypeOK, Order, BeforePress
  <1>7. CyclesLeft' = CyclesLeft
    BY <1>1 DEF CyclesLeft, LoopInv, LoopTypeOK
  <1>8. InCycle' <=> InCycle
    BY <1>1 DEF InCycle, LoopInv, LoopTypeOK
  <1>9. PressesLeft' <= PressesLeft /\ PressesLeft' \in 0 .. 3 /\ PressesLeft \in 0 .. 3
    <2>1. CASE ~held
      BY <1>1, <1>2, <2>1 DEF LoopInv, LoopTypeOK, PressesLeft, BeforePress
    <2>2. CASE held /\ ~last_button_state
      BY <1>1, <1>2, <2>2 DEF LoopInv, LoopTypeOK, PressesLeft, BeforePress, Pending
    <2>3. CASE held /\ last_button_state
      BY <1>1, <1>2, <1>5, <1>8, <2>3, Times DEF LoopInv, LoopTypeOK, PressesLeft,
         BeforePress, Pending
    <2> QED BY <2>1, <2>2, <2>3 DEF LoopInv, LoopTypeOK
  <1>10. Budget'
    <2>1. CyclesLeft \in {0, 1} /\ lights \in 0 .. 4 /\ lights' = lights
      BY <1>1 DEF CyclesLeft, LoopInv, LoopTypeOK
    <2>2. lights + CyclesLeft + PressesLeft <= 3
      BY DEF LoopInv, Budget
    <2>3. lights' + CyclesLeft' + PressesLeft' <= 3
      <3>1. PICK c, p, q : c = CyclesLeft /\ p = PressesLeft /\ q = PressesLeft'
        OBVIOUS
      <3>2. c \in {0, 1} /\ p \in 0 .. 3 /\ q \in 0 .. 3 /\ q <= p /\ lights + c + p <= 3
        BY <1>9, <2>1, <2>2, <3>1
      <3>3. lights' + c + q <= 3
        BY <2>1, <3>2
      <3> QED BY <1>7, <3>1, <3>3
    <2> QED BY <2>3 DEF Budget
  <1> QED BY <1>4, <1>6, <1>10 DEF LoopInv

\* The second look at the button.
LEMMA PressLoop ==
    ASSUME LoopInv, Press
    PROVE  LoopInv'
  <1>1. /\ pc = "press" /\ pc' = "sleep"
        /\ raw' = held /\ late' = 0 /\ pressed' = FALSE
        /\ UNCHANGED <<woke, basic, held, last_button_state, debounced_state,
                       long_press_ignore, id_left, press_age, modes>>
    BY DEF Press
  <1>2. CASE (pressed \/ Edge) /\ ~display_active
    <2>1. /\ display_active' = TRUE /\ display_screen' = 0
          /\ on_left' = Less(SCREEN_INTERVAL * max_screens, late)
          /\ shown_for' = Older(0, late, SCREEN_INTERVAL)
          /\ Lights("blank")
          /\ button_was_pressed
      BY <1>2 DEF Press
    <2>2. by' = "press" /\ lights' \in 0 .. 4 /\ (lights < 4 => lights' = lights + 1)
      BY <2>1, LightsTypes DEF LoopInv
    <2>3. /\ late \in 0 .. MaxTurn /\ late \in Int
          /\ press_age \in 0 .. LONG_PRESS
      BY Times DEF LoopInv, LoopTypeOK
    <2>4. PICK on : on = SCREEN_INTERVAL * max_screens
      OBVIOUS
    <2>5. on \in 0 .. 3 * SCREEN_INTERVAL /\ on >= LONG_PRESS
      BY <2>4, OnTime
    <2>6. on_left' = IF on - late >= 0 THEN on - late ELSE 0
      <3>1. on \in Int
        BY <2>5, Times
      <3>2. Less(on, late) = IF on - late >= 0 THEN on - late ELSE 0
        BY <2>3, <3>1, LessIs
      <3> QED BY <2>1, <2>4, <3>2
    <2>7. shown_for' = IF 0 + late <= SCREEN_INTERVAL THEN 0 + late ELSE SCREEN_INTERVAL
      BY <2>1, <2>3, OlderIs, Times
    <2>8. press_reported' \in BOOLEAN
      BY <2>1 DEF button_was_pressed
    <2>9. on_left' \in 0 .. 3 * SCREEN_INTERVAL /\ shown_for' \in 0 .. SCREEN_INTERVAL
      BY <2>3, <2>5, <2>6, <2>7, Times
    <2>10. last_button_state => press_age' + on_left' >= LONG_PRESS
      <3>1. last_button_state => press_age >= late \/ press_age >= LONG_PRESS
        BY <1>1 DEF LoopInv, Order, BeforePress
      <3> QED BY <1>1, <2>3, <2>5, <2>6, <3>1, Times
    <2>11. LoopTypeOK'
      <3>1. /\ basic' \in BOOLEAN /\ held' \in BOOLEAN /\ raw' \in BOOLEAN
           /\ last_button_state' \in BOOLEAN /\ debounced_state' \in BOOLEAN
           /\ long_press_ignore' \in BOOLEAN /\ press_reported' \in BOOLEAN
           /\ pressed' \in BOOLEAN /\ ticks_run' \in BOOLEAN /\ display_active' \in BOOLEAN
        BY <1>1, <2>1, <2>8 DEF LoopInv, LoopTypeOK, modes
      <3>2. /\ pc' = "sleep" /\ woke' = woke /\ ret' = ret /\ late' = 0 /\ display_screen' = 0
            /\ id_left' = id_left /\ press_age' = press_age /\ display_active'
        BY <1>1, <2>1 DEF modes
      <3> QED BY <2>2, <2>9, <3>1, <3>2, Times DEF LoopInv, LoopTypeOK
    <2>12. Order'
      BY <1>1 DEF LoopInv, LoopTypeOK, Order, BeforePress
    <2>13. Budget'
      <3>1. /\ pc' \notin BeforePress \union {"top", "cycle", "asleep"}
            /\ pc \in BeforePress
            /\ raw' = held' /\ held' = held /\ last_button_state' = last_button_state
            /\ long_press_ignore' = long_press_ignore /\ display_active'
        BY <1>1, <2>1 DEF BeforePress
      <3>2. CyclesLeft = 0 /\ CyclesLeft' = 0 /\ ~InCycle'
        BY <1>1 DEF CyclesLeft, InCycle
      <3>3. pressed \/ (held /\ ~raw)
        BY <1>2 DEF Edge
      <3>4. PressesLeft \in 1 .. 3 /\ PressesLeft' \in 0 .. 2 /\ PressesLeft' < PressesLeft
        <4>1. CASE ~held
          BY <3>1, <3>3, <4>1 DEF PressesLeft
        <4>2. CASE held /\ ~last_button_state
          BY <3>1, <4>2 DEF PressesLeft
        <4>3. CASE held /\ last_button_state /\ long_press_ignore
          BY <3>1, <3>3, <4>3 DEF PressesLeft, Pending
        <4>4. CASE held /\ last_button_state /\ ~long_press_ignore
          BY <1>2, <2>10, <3>1, <3>2, <4>4 DEF PressesLeft
        <4> QED BY <4>1, <4>2, <4>3, <4>4
      <3>5. lights + 0 + PressesLeft <= 3 /\ lights \in 0 .. 4
        BY <3>2 DEF LoopInv, LoopTypeOK, Budget
      <3>6. lights' + 0 + PressesLeft' <= 3
        <4>1. PICK p, q : p = PressesLeft /\ q = PressesLeft'
          OBVIOUS
        <4>2. p \in 1 .. 3 /\ q \in 0 .. 2 /\ q < p /\ lights + 0 + p <= 3
          BY <3>4, <3>5, <4>1
        <4>3. lights \in 0 .. 4 /\ lights' = lights + 1
          BY <2>2, <3>5, <4>2
        <4>4. lights' + 0 + q <= 3
          BY <4>2, <4>3
        <4> QED BY <4>1, <4>4
      <3> QED BY <3>2, <3>6 DEF Budget
    <2> QED BY <2>11, <2>12, <2>13 DEF LoopInv
  <1>3. CASE ~((pressed \/ Edge) /\ ~display_active)
    <2>1. UNCHANGED <<screens, on_left, shown_for, by, lights, press_reported>>
      BY <1>3 DEF Press
    <2>2. LoopTypeOK'
      <3>1. /\ basic' \in BOOLEAN /\ held' \in BOOLEAN /\ raw' \in BOOLEAN
           /\ last_button_state' \in BOOLEAN /\ debounced_state' \in BOOLEAN
           /\ long_press_ignore' \in BOOLEAN /\ press_reported' \in BOOLEAN
           /\ pressed' \in BOOLEAN /\ ticks_run' \in BOOLEAN /\ display_active' \in BOOLEAN
        BY <1>1, <2>1 DEF LoopInv, LoopTypeOK, modes, screens
      <3>2. /\ pc' = "sleep" /\ late' = 0
            /\ UNCHANGED <<woke, ret, display_active, display_screen, id_left, press_age,
                           on_left,
                           shown_for, by, lights>>
        BY <1>1, <2>1 DEF modes, screens
      <3> QED BY <3>1, <3>2, Times DEF LoopInv, LoopTypeOK
    <2>3. (Order /\ Budget)'
      BY <1>1, <2>1 DEF LoopInv, LoopTypeOK, Order, Budget, CyclesLeft, PressesLeft,
         BeforePress, InCycle, Pending, screens
    <2> QED BY <2>2, <2>3 DEF LoopInv
  <1> QED BY <1>2, <1>3

\* A step that is about the display alone, or about nothing.
LEMMA SameLoop ==
    ASSUME LoopInv,
           UNCHANGED <<pc, woke, raw, late, basic, held, button, screens, timers, modes, by,
                       lights>>
    PROVE  LoopInv'
  BY DEF LoopInv, LoopTypeOK, Order, Budget, CyclesLeft, PressesLeft, BeforePress, InCycle,
     Pending, button, screens, timers, modes

\* Every step keeps the invariant of the loop.
LEMMA StepLoop ==
    ASSUME LoopInv, [Next]_vars
    PROVE  LoopInv'
  <1>1. CASE UNCHANGED vars
    BY <1>1, SameLoop DEF vars
  <1>2. CASE UpdateDisplay
    BY <1>2, SameLoop DEF UpdateDisplay
  <1>3. CASE Step \/ Button
    BY <1>3, InitDisplayLoop, ShowReadyLoop, StartLoop, TopLoop, ButtonCycleLoop,
       CycleUploadLoop, CycleNextLoop, CycleEndLoop, TimerCycleLoop, NapLoop, MeasureLoop,
       SyncLoop, PressLoop, StayAwakeLoop, GoToSleepLoop, WakeLoop, ButtonLoop DEF Step
  <1> QED BY <1>1, <1>2, <1>3 DEF Next, Task

\* The loop keeps its types, the order of its steps and the budget of presses.
THEOREM LoopHolds == Spec => []LoopInv
  <1>1. Init => LoopInv
    BY InitLoop
  <1>2. LoopInv /\ [Next]_vars => LoopInv'
    BY StepLoop
  <1> QED BY <1>1, <1>2, PTL DEF Spec

\* HeldLights
THEOREM PressesLightUp == Spec => []HeldLights
  <1>1. LoopInv => HeldLights
    <2>1. CyclesLeft \in {0, 1} /\ PressesLeft \in 0 .. 3
      BY DEF CyclesLeft, PressesLeft
    <2> QED BY <2>1 DEF LoopInv, LoopTypeOK, Budget, HeldLights
  <1> QED BY <1>1, LoopHolds, PTL

-----------------------------------------------------------------------------
\* Of the numbers with some property there is a least one.
LEMMA LeastNumber ==
    ASSUME NEW T \in SUBSET Nat, T # {}
    PROVE  \E m \in T : \A k \in T : m <= k
  <1>1. PICK x \in T : \A y \in T : ~(<<y, x>> \in OpToRel(<, Nat))
    BY WFMin, NatLessThanWellFounded
  <1>2. \A y \in T : ~(y < x)
    BY <1>1 DEF OpToRel
  <1> QED BY <1>2

\* The i-th element of the list f of what the controller is after each byte.
After(c, bytes, f, i) == IF i = 0 THEN {c} ELSE {Receive(d, bytes[i]) : d \in f[i - 1]}

\* f is that list, for the first n bytes.
History(c, bytes, n, f) == f = [i \in 0 .. n |-> After(c, bytes, f, i)]

\* Its elements one by one.
LEMMA HistoryAt ==
    ASSUME NEW c, NEW bytes, NEW n \in Nat, NEW f, History(c, bytes, n, f), NEW i \in 0 .. n
    PROVE  f[i] = After(c, bytes, f, i)
  <1>1. f = [j \in 0 .. n |-> After(c, bytes, f, j)]
    BY DEF History
  <1> QED BY <1>1

\* There is such a list.
LEMMA HistoryExists ==
    ASSUME NEW c, NEW bytes, NEW n \in Nat
    PROVE  \E f : History(c, bytes, n, f)
  <1> DEFINE T == {k \in Nat : ~\E f : History(c, bytes, k, f)}
  <1>1. SUFFICES ASSUME T # {} PROVE FALSE
    OBVIOUS
  <1>2. PICK m \in T : \A k \in T : m <= k
    <2>1. T \in SUBSET Nat
      OBVIOUS
    <2> QED BY <1>1, <2>1, LeastNumber
  <1>3. CASE m = 0
    <2> DEFINE f == [i \in 0 .. 0 |-> {c}]
    <2>1. \A i \in 0 .. 0 : After(c, bytes, f, i) = {c}
      BY DEF After
    <2>2. History(c, bytes, 0, f)
      BY <2>1 DEF History
    <2> QED BY <1>2, <1>3, <2>2
  <1>4. CASE m # 0
    <2>1. m - 1 \in Nat /\ m - 1 \notin T
      BY <1>2, <1>4
    <2>2. PICK g : History(c, bytes, m - 1, g)
      BY <2>1
    <2> DEFINE f == [i \in 0 .. m |-> After(c, bytes, g, i)]
    <2>3. \A i \in 0 .. m : After(c, bytes, f, i) = After(c, bytes, g, i)
      <3> TAKE i \in 0 .. m
      <3>1. CASE i = 0
        BY <3>1 DEF After
      <3>2. CASE i # 0
        <4>1. i - 1 \in 0 .. m - 1 /\ i - 1 \in 0 .. m
          BY <2>1, <3>2
        <4>2. f[i - 1] = After(c, bytes, g, i - 1)
          BY <4>1
        <4>3. g[i - 1] = After(c, bytes, g, i - 1)
          BY <2>1, <2>2, <4>1, HistoryAt
        <4> QED BY <3>2, <4>2, <4>3 DEF After
      <3> QED BY <3>1, <3>2
    <2>4. History(c, bytes, m, f)
      <3>1. f = [i \in 0 .. m |-> After(c, bytes, f, i)]
        BY <2>3
      <3> HIDE DEF f
      <3> QED BY <3>1 DEF History
    <2> QED BY <1>2, <2>4
  <1> QED BY <1>3, <1>4

\* Two lists have the same element at i, and it is a singleton.
Agree(f, g, i) == f[i] = g[i] /\ \E d : g[i] = {d}

\* Each element is the controller after that number of bytes, and a longer list
\* begins like a shorter one.
LEMMA HistoryIs ==
    ASSUME NEW c, NEW bytes, NEW n \in Nat, NEW m \in 0 .. n, NEW f, NEW g,
           History(c, bytes, n, f), History(c, bytes, m, g)
    PROVE  \A i \in 0 .. m : Agree(f, g, i)
  <1> DEFINE T == {i \in 0 .. m : ~Agree(f, g, i)}
  <1>1. SUFFICES ASSUME T # {} PROVE FALSE
    OBVIOUS
  <1>2. PICK i \in T : \A k \in T : i <= k
    <2>1. T \in SUBSET Nat
      OBVIOUS
    <2> QED BY <1>1, <2>1, LeastNumber
  <1>3. i \in 0 .. m /\ i \in 0 .. n /\ m \in Nat /\ ~Agree(f, g, i)
    BY <1>2
  <1>4. f[i] = After(c, bytes, f, i) /\ g[i] = After(c, bytes, g, i)
    BY <1>3, HistoryAt
  <1>5. CASE i = 0
    BY <1>3, <1>4, <1>5 DEF Agree, After
  <1>6. CASE i # 0
    <2>1. i - 1 \in 0 .. m /\ ~(i <= i - 1)
      BY <1>3, <1>6
    <2>2. Agree(f, g, i - 1)
      <3>1. i - 1 \notin T
        <4> HIDE DEF T
        <4> QED BY <1>2, <2>1
      <3> QED BY <2>1, <3>1
    <2>3. PICK d : f[i - 1] = {d} /\ g[i - 1] = {d}
      BY <2>2 DEF Agree
    <2>4. f[i] = {Receive(d, bytes[i])} /\ g[i] = {Receive(d, bytes[i])}
      BY <1>4, <1>6, <2>3 DEF After
    <2> QED BY <1>3, <2>4 DEF Agree
  <1> QED BY <1>5, <1>6

\* Got in terms of any such list.
LEMMA GotIs ==
    ASSUME NEW c, NEW bytes, NEW n \in Nat
    PROVE  \E f : History(c, bytes, n, f) /\ Got(c, bytes, n) = Only(f[n])
  <1> DEFINE after == CHOOSE f : History(c, bytes, n, f)
  <1>1. History(c, bytes, n, after)
    BY HistoryExists, Zenon
  <1>2. Got(c, bytes, n) = Only(after[n])
    BY DEF Got, History, After
  <1> QED BY <1>1, <1>2

\* The element of a singleton.
LEMMA OnlyIs == ASSUME NEW x PROVE Only({x}) = x
  BY DEF Only

\* No byte changes nothing.
LEMMA GotNone ==
    ASSUME NEW c, NEW bytes
    PROVE  Got(c, bytes, 0) = c
  <1>1. PICK f : History(c, bytes, 0, f) /\ Got(c, bytes, 0) = Only(f[0])
    BY GotIs
  <1>2. f[0] = {c}
    <2>1. 0 \in 0 .. 0 /\ 0 \in Nat
      OBVIOUS
    <2>2. f[0] = After(c, bytes, f, 0)
      BY <1>1, <2>1, HistoryAt
    <2> QED BY <2>2 DEF After
  <1> QED BY <1>1, <1>2, OnlyIs

\* One byte more.
LEMMA GotNext ==
    ASSUME NEW c, NEW bytes, NEW n \in Nat
    PROVE  Got(c, bytes, n + 1) = Receive(Got(c, bytes, n), bytes[n + 1])
  <1>1. PICK f : History(c, bytes, n + 1, f) /\ Got(c, bytes, n + 1) = Only(f[n + 1])
    BY GotIs
  <1>2. PICK g : History(c, bytes, n, g) /\ Got(c, bytes, n) = Only(g[n])
    BY GotIs
  <1>3. PICK d : f[n] = {d} /\ g[n] = {d}
    <2>1. n \in 0 .. n + 1 /\ n \in 0 .. n /\ n + 1 \in Nat
      OBVIOUS
    <2>2. Agree(f, g, n)
      BY <1>1, <1>2, <2>1, HistoryIs
    <2> QED BY <2>2 DEF Agree
  <1>4. f[n + 1] = {Receive(x, bytes[n + 1]) : x \in f[n]}
    <2>1. n + 1 \in 0 .. n + 1 /\ n + 1 # 0 /\ (n + 1) - 1 = n /\ n + 1 \in Nat
      OBVIOUS
    <2>2. f[n + 1] = After(c, bytes, f, n + 1)
      BY <1>1, <2>1, HistoryAt
    <2> QED BY <2>1, <2>2 DEF After
  <1>5. f[n + 1] = {Receive(d, bytes[n + 1])}
    BY <1>3, <1>4
  <1> QED BY <1>1, <1>2, <1>3, <1>5, OnlyIs

Chips == [unfinished : Seq(Int), home : SUBSET TwoArguments, ram : Picture,
          regs : [Register -> Seq(Int)]]

\* A controller with a command that is complete, or the beginning of one.
ChipOK(c) ==
    /\ c \in Chips
    /\ c.unfinished = <<>> \/ Len(c.unfinished) \in 1 .. Arguments(c.unfinished[1])

\* What may be on the panel.
LEMMA PictureIs == Picture = {"garbled", "blank", "ready", "error", "id", "0", "1", "2"}
  BY PanelAssumption

\* A byte more of a command.
LEMMA AppendIs ==
    ASSUME NEW s \in Seq(Int), NEW b \in Int
    PROVE  /\ Append(s, b) \in Seq(Int) /\ Len(Append(s, b)) = Len(s) + 1 /\ Len(s) \in Nat
           /\ s = <<>> => Append(s, b)[1] = b
           /\ s # <<>> => Append(s, b)[1] = s[1] /\ Len(s) >= 1
  OBVIOUS

\* A command has at most two arguments.
LEMMA ArgumentsIs == \A b : Arguments(b) \in 0 .. 2
  BY DEF Arguments

\* The controller c got the last byte so far of cmd, whose register is reg, and
\* became d: the command goes on, it is run, or it is not known.
ReceivedFrom(c, cmd, reg, d) ==
    /\ d.ram = c.ram
    /\ Len(cmd) <= Arguments(cmd[1]) =>
         d.unfinished = cmd /\ d.home = c.home /\ d.regs = c.regs
    /\ ~(Len(cmd) <= Arguments(cmd[1])) => d.unfinished = <<>>
    /\ ~(Len(cmd) <= Arguments(cmd[1])) /\ reg \notin Register =>
         d.home = c.home /\ d.regs = c.regs
    /\ ~(Len(cmd) <= Arguments(cmd[1])) /\ reg \in Register =>
         /\ d.home = c.home \union ({reg} \intersect TwoArguments)
         /\ d.regs = [c.regs EXCEPT ![reg] = cmd]
    /\ d.unfinished \in {<<>>, cmd}
    /\ d \in [unfinished : {d.unfinished}, home : {d.home}, ram : {d.ram}, regs : {d.regs}]

\* That is what a byte does.
LEMMA ReceiveFields ==
    ASSUME NEW c, ChipOK(c), NEW b \in Int, NEW cmd, cmd = Append(c.unfinished, b),
           NEW reg, reg = RegisterOf(cmd[1]), NEW d, d = Receive(c, b)
    PROVE  ReceivedFrom(c, cmd, reg, d)
  <1>1. /\ c \in Chips
    BY DEF ChipOK
  <1>2. d = IF Len(cmd) <= Arguments(cmd[1]) THEN [c EXCEPT !.unfinished = cmd]
            ELSE IF reg \notin Register THEN [c EXCEPT !.unfinished = <<>>]
            ELSE [c EXCEPT !.unfinished = <<>>, !.regs[reg] = cmd,
                           !.home = @ \union ({reg} \intersect TwoArguments)]
    BY DEF Receive
  <1>3. CASE Len(cmd) <= Arguments(cmd[1])
    <2>1. d = [c EXCEPT !.unfinished = cmd]
      BY <1>2, <1>3
    <2> QED BY <1>1, <1>3, <2>1 DEF Chips, ReceivedFrom
  <1>4. CASE ~(Len(cmd) <= Arguments(cmd[1])) /\ reg \notin Register
    <2>1. d = [c EXCEPT !.unfinished = <<>>]
      BY <1>2, <1>4
    <2> QED BY <1>1, <1>4, <2>1 DEF Chips, ReceivedFrom
  <1>5. CASE ~(Len(cmd) <= Arguments(cmd[1])) /\ reg \in Register
    <2>1. d = [c EXCEPT !.unfinished = <<>>, !.regs[reg] = cmd,
                        !.home = @ \union ({reg} \intersect TwoArguments)]
      BY <1>2, <1>5
    <2> QED BY <1>1, <1>5, <2>1 DEF Chips, ReceivedFrom
  <1> QED BY <1>3, <1>4, <1>5

\* A controller stays well-formed, whatever it receives.
LEMMA ReceiveType ==
    ASSUME NEW c, ChipOK(c), NEW b \in Int
    PROVE  ChipOK(Receive(c, b))
  <1>1. PICK cmd : cmd = Append(c.unfinished, b)
    OBVIOUS
  <1>2. PICK reg : reg = RegisterOf(cmd[1])
    OBVIOUS
  <1>3. PICK d : d = Receive(c, b)
    OBVIOUS
  <1>4. /\ c.unfinished \in Seq(Int) /\ c.home \in SUBSET TwoArguments /\ c.ram \in Picture
        /\ c.regs \in [Register -> Seq(Int)]
    BY DEF ChipOK, Chips
  <1>5. cmd \in Seq(Int) /\ Len(cmd) \in Nat /\ Len(cmd) >= 1
    BY <1>1, <1>4, AppendIs
  <1>6. /\ d.ram = c.ram
        /\ Len(cmd) <= Arguments(cmd[1]) =>
             d.unfinished = cmd /\ d.home = c.home /\ d.regs = c.regs
        /\ ~(Len(cmd) <= Arguments(cmd[1])) => d.unfinished = <<>>
        /\ ~(Len(cmd) <= Arguments(cmd[1])) /\ reg \notin Register =>
             d.home = c.home /\ d.regs = c.regs
        /\ ~(Len(cmd) <= Arguments(cmd[1])) /\ reg \in Register =>
             /\ d.home = c.home \union ({reg} \intersect TwoArguments)
             /\ d.regs = [c.regs EXCEPT ![reg] = cmd]
        /\ d \in [unfinished : {d.unfinished}, home : {d.home}, ram : {d.ram}, regs : {d.regs}]
    <2>1. ReceivedFrom(c, cmd, reg, d)
      BY <1>1, <1>2, <1>3, ReceiveFields
    <2> QED BY <2>1 DEF ReceivedFrom
  <1>7. d.home \in SUBSET TwoArguments /\ d.regs \in [Register -> Seq(Int)]
    BY <1>4, <1>5, <1>6
  <1>8. d.unfinished \in Seq(Int)
    <2>1. CASE Len(cmd) <= Arguments(cmd[1])
      BY <1>5, <1>6, <2>1
    <2>2. CASE ~(Len(cmd) <= Arguments(cmd[1]))
      <3>1. d.unfinished = <<>>
        BY <1>6, <2>2
      <3> QED BY <3>1
    <2> QED BY <2>1, <2>2
  <1>9. d \in Chips
    BY <1>4, <1>6, <1>7, <1>8 DEF Chips
  <1>10. d.unfinished = <<>> \/ Len(d.unfinished) \in 1 .. Arguments(d.unfinished[1])
    BY <1>5, <1>6, ArgumentsIs
  <1> QED BY <1>3, <1>9, <1>10 DEF ChipOK

\* So does one that gets several bytes.
LEMMA GotType ==
    ASSUME NEW c, ChipOK(c), NEW bytes \in Seq(Int), NEW n \in 0 .. Len(bytes)
    PROVE  ChipOK(Got(c, bytes, n))
  <1> DEFINE T == {k \in 0 .. Len(bytes) : ~ChipOK(Got(c, bytes, k))}
  <1>1. SUFFICES ASSUME T # {} PROVE FALSE
    OBVIOUS
  <1>2. PICK m \in T : \A k \in T : m <= k
    <2>1. T \in SUBSET Nat
      OBVIOUS
    <2> QED BY <1>1, <2>1, LeastNumber
  <1>3. m \in 0 .. Len(bytes) /\ ~ChipOK(Got(c, bytes, m))
    BY <1>2
  <1>4. m # 0
    BY <1>3, GotNone
  <1>5. PICK k \in Nat : m = k + 1 /\ k \in 0 .. Len(bytes) /\ ~(m <= k)
    <2>1. m - 1 \in Nat /\ m = (m - 1) + 1 /\ m - 1 \in 0 .. Len(bytes) /\ ~(m <= m - 1)
      BY <1>3, <1>4
    <2> QED BY <2>1
  <1>6. ChipOK(Got(c, bytes, k))
    <2>1. k \notin T
      <3> HIDE DEF T
      <3> QED BY <1>2, <1>5
    <2> QED BY <1>5, <2>1
  <1>7. bytes[k + 1] \in Int
    BY <1>3, <1>5
  <1>8. ChipOK(Got(c, bytes, k + 1))
    BY <1>6, <1>7, GotNext, ReceiveType
  <1> QED BY <1>3, <1>5, <1>8

\* And the one that is turned on.
LEMMA PowerOnType == ChipOK(PoweredOn)
  <1>1. PoweredOn \in Chips
    BY PictureIs DEF PoweredOn, Chips
  <1> QED BY <1>1 DEF PoweredOn, ChipOK

-----------------------------------------------------------------------------
\* A complete command of a register.
Command(cmd) ==
    /\ cmd \in Seq(Int) /\ Len(cmd) = 1 + Arguments(cmd[1])
    /\ RegisterOf(cmd[1]) \in Register

\* The controller c became d by that command.
Ran(c, d, cmd) ==
    /\ ChipOK(d) /\ d.unfinished = <<>> /\ d.ram = c.ram
    /\ d.home = c.home \union ({RegisterOf(cmd[1])} \intersect TwoArguments)
    /\ d.regs = [c.regs EXCEPT ![RegisterOf(cmd[1])] = cmd]

\* Two sequences with the same elements are the same.
LEMMA SameElements ==
    ASSUME NEW s \in Seq(Int), NEW t \in Seq(Int), Len(s) = Len(t),
           \A i \in 1 .. Len(s) : s[i] = t[i]
    PROVE  s = t
  OBVIOUS

\* The elements of a sequence.
LEMMA ElementIs == ASSUME NEW s \in Seq(Int), NEW i \in 1 .. Len(s) PROVE s[i] \in Int
  OBVIOUS

\* A sequence with an element more.
LEMMA AppendAt ==
    ASSUME NEW s \in Seq(Int), NEW b \in Int
    PROVE  /\ Append(s, b) \in Seq(Int) /\ Len(Append(s, b)) = Len(s) + 1 /\ Len(s) \in Nat
           /\ \A i \in 1 .. Len(s) : Append(s, b)[i] = s[i]
           /\ Append(s, b)[Len(s) + 1] = b
  OBVIOUS

\* The controller c got the last byte so far of cmd and became d: the command
\* goes on, or it was run.
Runs(c, d, cmd) ==
    /\ Len(cmd) <= Arguments(cmd[1]) =>
         d.unfinished = cmd /\ d.ram = c.ram /\ d.home = c.home /\ d.regs = c.regs
    /\ ~(Len(cmd) <= Arguments(cmd[1])) => Ran(c, d, cmd)

\* A byte does one or the other.
LEMMA ReceiveRuns ==
    ASSUME NEW c, ChipOK(c), NEW b \in Int
    PROVE  LET cmd == Append(c.unfinished, b)
           IN RegisterOf(cmd[1]) \in Register => Runs(c, Receive(c, b), cmd)
  <1>1. PICK cmd : cmd = Append(c.unfinished, b)
    OBVIOUS
  <1>2. PICK reg : reg = RegisterOf(cmd[1])
    OBVIOUS
  <1>3. PICK d : d = Receive(c, b)
    OBVIOUS
  <1>4. ChipOK(d)
    BY <1>3, ReceiveType
  <1>5. ReceivedFrom(c, cmd, reg, d)
    BY <1>1, <1>2, <1>3, ReceiveFields
  <1>6. reg \in Register => Runs(c, d, cmd)
    BY <1>2, <1>4, <1>5 DEF ReceivedFrom, Runs, Ran
  <1> QED BY <1>1, <1>2, <1>3, <1>6

\* A controller that got the whole of a command and nothing before has run it.
LEMMA SentIs ==
    ASSUME NEW c, ChipOK(c), c.unfinished = <<>>, NEW cmd, Command(cmd)
    PROVE  Ran(c, Sent(c, cmd), cmd)
  <1>1. /\ cmd \in Seq(Int) /\ Len(cmd) = 1 + Arguments(cmd[1])
        /\ RegisterOf(cmd[1]) \in Register /\ Arguments(cmd[1]) \in 0 .. 2
    BY ArgumentsIs DEF Command
  <1>2. PICK op, reg, more : op = cmd[1] /\ reg = RegisterOf(op) /\ more = Arguments(op)
    OBVIOUS
  <1>3. /\ op \in Int /\ reg \in Register /\ more \in 0 .. 2 /\ Len(cmd) = 1 + more
    BY <1>1, <1>2
  <1>4. PICK c1 : c1 = Receive(c, op)
    OBVIOUS
  <1>5. Got(c, cmd, 1) = c1
    <2>1. Got(c, cmd, 0 + 1) = Receive(Got(c, cmd, 0), cmd[0 + 1])
      BY GotNext
    <2> QED BY <1>2, <1>4, <2>1, GotNone
  <1>6. ChipOK(c1)
    BY <1>3, <1>4, ReceiveType
  <1>7. PICK s1 : s1 = Append(c.unfinished, op)
    OBVIOUS
  <1>8. s1 = Append(c.unfinished, op) /\ s1 \in Seq(Int) /\ s1[1] = op /\ Len(s1) = 1
    <2>1. c.unfinished = <<>> /\ c.unfinished \in Seq(Int) /\ Len(c.unfinished) = 0
      OBVIOUS
    <2> QED BY <1>3, <1>7, <2>1, AppendAt
  <1>9. Runs(c, c1, s1)
    <2>1. RegisterOf(s1[1]) \in Register
      BY <1>2, <1>3, <1>8
    <2>2. LET k == Append(c.unfinished, op)
          IN RegisterOf(k[1]) \in Register => Runs(c, Receive(c, op), k)
      BY <1>3, ReceiveRuns
    <2> QED BY <1>4, <1>8, <2>1, <2>2
  <1>12. Arguments(s1[1]) = more
    BY <1>2, <1>8
  <1>10. CASE more = 0
    <2>1. cmd = s1
      <3>1. cmd \in Seq(Int) /\ Len(cmd) = 1
        BY <1>1, <1>3, <1>10
      <3>2. \A i \in 1 .. 1 : cmd[i] = s1[i]
        BY <1>2, <1>8
      <3> QED BY <1>8, <3>1, <3>2, SameElements
    <2>2. Sent(c, cmd) = c1
      BY <1>3, <1>5, <1>10 DEF Sent
    <2>3. ~(Len(s1) <= Arguments(s1[1]))
      BY <1>8, <1>10, <1>12
    <2> QED BY <1>9, <2>1, <2>2, <2>3 DEF Runs
  <1>11. CASE more # 0
    <2>1. PICK x : x = cmd[2]
      OBVIOUS
    <2>2. x \in Int
      BY <1>1, <1>3, <1>11, <2>1
    <2>3. PICK c2 : c2 = Receive(c1, x)
      OBVIOUS
    <2>4. Got(c, cmd, 2) = c2
      <3>1. Got(c, cmd, 1 + 1) = Receive(Got(c, cmd, 1), cmd[1 + 1])
        BY GotNext
      <3> QED BY <1>5, <2>1, <2>3, <3>1
    <2>5. ChipOK(c2)
      BY <1>6, <2>2, <2>3, ReceiveType
    <2>6. c1.unfinished = s1 /\ c1.ram = c.ram /\ c1.home = c.home /\ c1.regs = c.regs
      <3>1. Len(s1) <= Arguments(s1[1])
        BY <1>3, <1>8, <1>11, <1>12
      <3> QED BY <1>9, <3>1 DEF Runs
    <2>7. PICK s2 : s2 = Append(c1.unfinished, x)
      OBVIOUS
    <2>8. /\ s2 = Append(c1.unfinished, x) /\ s2 \in Seq(Int)
          /\ s2[1] = op /\ s2[2] = x /\ Len(s2) = 2
      BY <1>8, <2>2, <2>6, <2>7, AppendAt
    <2>9. Runs(c1, c2, s2)
      <3>1. RegisterOf(s2[1]) \in Register
        BY <1>2, <1>3, <2>8
      <3>2. LET k == Append(c1.unfinished, x)
            IN RegisterOf(k[1]) \in Register => Runs(c1, Receive(c1, x), k)
        BY <1>6, <2>2, ReceiveRuns
      <3> QED BY <2>3, <2>8, <3>1, <3>2
    <2>12. Arguments(s2[1]) = more
      BY <1>2, <2>8
    <2>10. CASE more = 1
      <3>1. cmd = s2
        <4>1. cmd \in Seq(Int) /\ Len(cmd) = 2
          <5>1. 1 + more = 2
            BY <2>10
          <5> QED BY <1>1, <1>3, <5>1
        <4>2. \A i \in 1 .. 2 : cmd[i] = s2[i]
          BY <1>2, <2>1, <2>8
        <4> QED BY <2>8, <4>1, <4>2, SameElements
      <3>2. Sent(c, cmd) = c2
        BY <1>3, <2>4, <2>10 DEF Sent
      <3>3. Ran(c1, c2, s2)
        <4>1. ~(Len(s2) <= Arguments(s2[1]))
          BY <2>8, <2>10, <2>12
        <4> QED BY <2>9, <4>1 DEF Runs
      <3> QED BY <2>6, <3>1, <3>2, <3>3 DEF Ran
    <2>11. CASE more = 2
      <3>1. PICK y : y = cmd[3]
        OBVIOUS
      <3>2. Len(cmd) = 3 /\ cmd \in Seq(Int)
        <4>1. 1 + more = 3
          BY <2>11
        <4> QED BY <1>1, <1>3, <4>1
      <3>3. y \in Int
        <4>1. 3 \in 1 .. Len(cmd)
          BY <3>2
        <4> QED BY <3>1, <3>2, <4>1, ElementIs
      <3>4. PICK c3 : c3 = Receive(c2, y)
        OBVIOUS
      <3>5. Got(c, cmd, 3) = c3
        <4>1. Got(c, cmd, 2 + 1) = Receive(Got(c, cmd, 2), cmd[2 + 1])
          BY GotNext
        <4> QED BY <2>4, <3>1, <3>4, <4>1
      <3>6. c2.unfinished = s2 /\ c2.ram = c.ram /\ c2.home = c.home /\ c2.regs = c.regs
        <4>1. Len(s2) <= Arguments(s2[1])
          BY <2>8, <2>11, <2>12
        <4> QED BY <2>6, <2>9, <4>1 DEF Runs
      <3>7. PICK s3 : s3 = Append(c2.unfinished, y)
        OBVIOUS
      <3>8. /\ s3 = Append(c2.unfinished, y) /\ s3 \in Seq(Int)
            /\ s3[1] = op /\ s3[2] = x /\ s3[3] = y /\ Len(s3) = 3
        BY <2>8, <3>3, <3>6, <3>7, AppendAt
      <3>9. Runs(c2, c3, s3)
        <4>1. RegisterOf(s3[1]) \in Register
          BY <1>2, <1>3, <3>8
        <4>2. LET k == Append(c2.unfinished, y)
              IN RegisterOf(k[1]) \in Register => Runs(c2, Receive(c2, y), k)
          BY <2>5, <3>3, ReceiveRuns
        <4> QED BY <3>4, <3>8, <4>1, <4>2
      <3>10. cmd = s3
        <4>1. \A i \in 1 .. 3 : cmd[i] = s3[i]
          BY <1>2, <2>1, <3>1, <3>8
        <4> QED BY <3>2, <3>8, <4>1, SameElements
      <3>11. Sent(c, cmd) = c3
        BY <3>2, <3>5 DEF Sent
      <3>12. Ran(c2, c3, s3)
        <4>1. Arguments(s3[1]) = more
          BY <1>2, <3>8
        <4>2. ~(Len(s3) <= Arguments(s3[1]))
          BY <2>11, <3>8, <4>1
        <4> QED BY <3>9, <4>2 DEF Runs
      <3> QED BY <3>6, <3>10, <3>11, <3>12 DEF Ran
    <2> QED BY <1>3, <1>11, <2>10, <2>11
  <1> QED BY <1>10, <1>11

\* One after the other: the first bytes of a concatenation.
LEMMA GotFirst ==
    ASSUME NEW c, NEW a \in Seq(Int), NEW b \in Seq(Int), NEW n \in 0 .. Len(a)
    PROVE  Got(c, a \o b, n) = Got(c, a, n)
  <1> DEFINE T == {k \in 0 .. Len(a) : ~(Got(c, a \o b, k) = Got(c, a, k))}
  <1>1. SUFFICES ASSUME T # {} PROVE FALSE
    OBVIOUS
  <1>2. PICK m \in T : \A k \in T : m <= k
    <2>1. T \in SUBSET Nat
      OBVIOUS
    <2> QED BY <1>1, <2>1, LeastNumber
  <1>3. m \in 0 .. Len(a) /\ ~(Got(c, a \o b, m) = Got(c, a, m))
    BY <1>2
  <1>4. m # 0
    BY <1>3, GotNone
  <1>5. PICK k \in Nat : m = k + 1 /\ k \in 0 .. Len(a) /\ ~(m <= k)
    <2>1. m - 1 \in Nat /\ m = (m - 1) + 1 /\ m - 1 \in 0 .. Len(a) /\ ~(m <= m - 1)
      BY <1>3, <1>4
    <2> QED BY <2>1
  <1>6. Got(c, a \o b, k) = Got(c, a, k)
    <2>1. k \notin T
      <3> HIDE DEF T
      <3> QED BY <1>2, <1>5
    <2> QED BY <1>5, <2>1
  <1>7. (a \o b)[k + 1] = a[k + 1]
    BY <1>3, <1>5
  <1>8. Got(c, a \o b, k + 1) = Got(c, a, k + 1)
    BY <1>6, <1>7, GotNext
  <1> QED BY <1>3, <1>5, <1>8

\* The bytes after those.
LEMMA GotThen ==
    ASSUME NEW c, NEW a \in Seq(Int), NEW b \in Seq(Int), NEW n \in 0 .. Len(b)
    PROVE  Got(c, a \o b, Len(a) + n) = Got(Got(c, a, Len(a)), b, n)
  <1> DEFINE e == Got(c, a, Len(a))
             T == {k \in 0 .. Len(b) : ~(Got(c, a \o b, Len(a) + k) = Got(e, b, k))}
  <1> HIDE DEF e
  <1>1. SUFFICES ASSUME T # {} PROVE FALSE
    BY DEF e
  <1>2. PICK m \in T : \A k \in T : m <= k
    <2>1. T \in SUBSET Nat
      OBVIOUS
    <2> QED BY <1>1, <2>1, LeastNumber
  <1>3. m \in 0 .. Len(b) /\ ~(Got(c, a \o b, Len(a) + m) = Got(e, b, m)) /\ Len(a) \in Nat
    BY <1>2
  <1>4. m # 0
    <2>1. Len(a) \in 0 .. Len(a) /\ Len(a) + 0 = Len(a)
      BY <1>3
    <2>2. Got(c, a \o b, Len(a)) = e
      BY <2>1, GotFirst DEF e
    <2> QED BY <1>3, <2>1, <2>2, GotNone
  <1>5. PICK k \in Nat : m = k + 1 /\ k \in 0 .. Len(b) /\ ~(m <= k)
    <2>1. m - 1 \in Nat /\ m = (m - 1) + 1 /\ m - 1 \in 0 .. Len(b) /\ ~(m <= m - 1)
      BY <1>3, <1>4
    <2> QED BY <2>1
  <1>6. Got(c, a \o b, Len(a) + k) = Got(e, b, k)
    <2>1. k \notin T
      <3> HIDE DEF T
      <3> QED BY <1>2, <1>5
    <2> QED BY <1>5, <2>1
  <1>7. PICK j \in Nat : j = Len(a) + k
    BY <1>3, <1>5
  <1>8. (a \o b)[j + 1] = b[k + 1] /\ Len(a) + (k + 1) = j + 1
    <2>1. Len(a) + (k + 1) = j + 1 /\ k + 1 \in 1 .. Len(b) /\ j + 1 = Len(a) + (k + 1)
      BY <1>3, <1>5, <1>7
    <2>2. \A i \in 1 .. Len(b) : (a \o b)[Len(a) + i] = b[i]
      OBVIOUS
    <2> QED BY <2>1, <2>2
  <1>9. Got(c, a \o b, j + 1) = Receive(Got(c, a \o b, j), (a \o b)[j + 1])
    BY GotNext
  <1>10. Got(e, b, k + 1) = Receive(Got(e, b, k), b[k + 1])
    BY GotNext
  <1> QED BY <1>3, <1>5, <1>6, <1>7, <1>8, <1>9, <1>10

\* What is sent in two parts.
LEMMA SentThen ==
    ASSUME NEW c, NEW a \in Seq(Int), NEW b \in Seq(Int)
    PROVE  Sent(c, a \o b) = Sent(Sent(c, a), b)
  <1>1. /\ Len(a \o b) = Len(a) + Len(b) /\ Len(b) \in 0 .. Len(b)
    OBVIOUS
  <1>2. Got(c, a \o b, Len(a) + Len(b)) = Got(Got(c, a, Len(a)), b, Len(b))
    BY <1>1, GotThen
  <1> QED BY <1>1, <1>2 DEF Sent

\* A whole command goes to register r.
Sets(cmd, r) == Command(cmd) /\ RegisterOf(cmd[1]) = r

\* The commands of ssd1306_init, and where they go.
LEMMA InitSets ==
    /\ \A on \in BOOLEAN : Sets(display_on(on), 174)
    /\ Sets(set_osc_freq(128), 213)
    /\ Sets(set_mux_ratio(Height - 1), 168)
    /\ Sets(set_display_offset(0), 211)
    /\ Sets(set_display_start_line(0), 64)
    /\ Sets(set_charge_pump_enabled(TRUE), 141)
    /\ Sets(set_mem_addr_mode(0), 32)
    /\ Sets(set_segment_remapping_enabled(FALSE), 160)
    /\ Sets(set_scan_direction_fwd(TRUE), 192)
    /\ Sets(set_com_pin_hw_config(pin_cfg), 218)
    /\ Sets(set_contrast(159), 129)
    /\ Sets(set_precharge_period(241), 217)
    /\ Sets(set_deseltct_lvl(64), 219)
    /\ \A light \in BOOLEAN : Sets(set_whole_display_lighting(light), 164)
    /\ Sets(set_inversion(FALSE), 166)
  <1> USE DEF Sets, Command, RegisterOf, Register, Arguments, OneArgument, TwoArguments,
              Pairs, Scan
  <1>1. \A on \in BOOLEAN : Sets(display_on(on), 174)
    BY DEF display_on
  <1>2. Sets(set_osc_freq(128), 213)
    BY DEF set_osc_freq
  <1>3. Sets(set_mux_ratio(Height - 1), 168)
    BY OledAssumption DEF set_mux_ratio
  <1>4. Sets(set_display_offset(0), 211)
    BY DEF set_display_offset
  <1>5. Sets(set_display_start_line(0), 64)
    BY DEF set_display_start_line
  <1>6. Sets(set_charge_pump_enabled(TRUE), 141)
    BY DEF set_charge_pump_enabled
  <1>7. Sets(set_mem_addr_mode(0), 32)
    BY DEF set_mem_addr_mode
  <1>8. Sets(set_segment_remapping_enabled(FALSE), 160)
    BY DEF set_segment_remapping_enabled
  <1>9. Sets(set_scan_direction_fwd(TRUE), 192)
    BY DEF set_scan_direction_fwd
  <1>10. Sets(set_com_pin_hw_config(pin_cfg), 218)
    BY DEF set_com_pin_hw_config, pin_cfg
  <1>11. Sets(set_contrast(159), 129)
    BY DEF set_contrast
  <1>12. Sets(set_precharge_period(241), 217)
    BY DEF set_precharge_period
  <1>13. Sets(set_deseltct_lvl(64), 219)
    BY DEF set_deseltct_lvl
  <1>14. \A light \in BOOLEAN : Sets(set_whole_display_lighting(light), 164)
    BY DEF set_whole_display_lighting
  <1>15. Sets(set_inversion(FALSE), 166)
    BY DEF set_inversion
  <1> QED BY <1>1, <1>2, <1>3, <1>4, <1>5, <1>6, <1>7, <1>8, <1>9, <1>10, <1>11, <1>12,
             <1>13, <1>14, <1>15, ZenonT(60)

\* A byte that does not begin a command with two arguments.
Plain == Int \ TwoArguments

\* A controller that has no such command half.
PlainOK(c) == ChipOK(c) /\ (c.unfinished # <<>> => c.unfinished[1] \in Plain)

\* It stays one when it gets a plain byte.
LEMMA ReceivePlain ==
    ASSUME NEW c, PlainOK(c), NEW b \in Plain
    PROVE  PlainOK(Receive(c, b))
  <1>1. PICK cmd : cmd = Append(c.unfinished, b)
    OBVIOUS
  <1>2. PICK reg : reg = RegisterOf(cmd[1])
    OBVIOUS
  <1>3. PICK d : d = Receive(c, b)
    OBVIOUS
  <1>4. b \in Int /\ ChipOK(c) /\ c.unfinished \in Seq(Int)
    BY DEF Plain, PlainOK, ChipOK, Chips
  <1>5. ChipOK(d)
    BY <1>3, <1>4, ReceiveType
  <1>6. ReceivedFrom(c, cmd, reg, d)
    BY <1>1, <1>2, <1>3, <1>4, ReceiveFields
  <1>7. d.unfinished \in {<<>>, cmd}
    BY <1>6 DEF ReceivedFrom
  <1>8. cmd[1] \in Plain
    BY <1>1, <1>4, AppendIs DEF PlainOK
  <1> QED BY <1>3, <1>5, <1>7, <1>8 DEF PlainOK

\* And when it gets several.
LEMMA GotPlain ==
    ASSUME NEW c, PlainOK(c), NEW bytes \in Seq(Plain), NEW n \in 0 .. Len(bytes)
    PROVE  PlainOK(Got(c, bytes, n))
  <1> DEFINE T == {k \in 0 .. Len(bytes) : ~PlainOK(Got(c, bytes, k))}
  <1>1. SUFFICES ASSUME T # {} PROVE FALSE
    OBVIOUS
  <1>2. PICK m \in T : \A k \in T : m <= k
    <2>1. T \in SUBSET Nat
      OBVIOUS
    <2> QED BY <1>1, <2>1, LeastNumber
  <1>3. m \in 0 .. Len(bytes) /\ ~PlainOK(Got(c, bytes, m))
    BY <1>2
  <1>4. m # 0
    BY <1>3, GotNone
  <1>5. PICK k \in Nat : m = k + 1 /\ k \in 0 .. Len(bytes) /\ ~(m <= k)
    <2>1. m - 1 \in Nat /\ m = (m - 1) + 1 /\ m - 1 \in 0 .. Len(bytes) /\ ~(m <= m - 1)
      BY <1>3, <1>4
    <2> QED BY <2>1
  <1>6. PlainOK(Got(c, bytes, k))
    <2>1. k \notin T
      <3> HIDE DEF T
      <3> QED BY <1>2, <1>5
    <2> QED BY <1>5, <2>1
  <1>7. bytes[k + 1] \in Plain
    BY <1>3, <1>5
  <1>8. PlainOK(Got(c, bytes, k + 1))
    BY <1>6, <1>7, GotNext, ReceivePlain
  <1> QED BY <1>3, <1>5, <1>8

-----------------------------------------------------------------------------
\* The beginnings of InitCommands, a command longer each time.
Until1  == display_on(FALSE)
Until2  == Until1 \o set_osc_freq(128)
Until3  == Until2 \o set_mux_ratio(Height - 1)
Until4  == Until3 \o set_display_offset(0)
Until5  == Until4 \o set_display_start_line(0)
Until6  == Until5 \o set_charge_pump_enabled(TRUE)
Until7  == Until6 \o set_mem_addr_mode(0)
Until8  == Until7 \o set_segment_remapping_enabled(FALSE)
Until9  == Until8 \o set_scan_direction_fwd(TRUE)
Until10 == Until9 \o set_com_pin_hw_config(pin_cfg)
Until11 == Until10 \o set_contrast(159)
Until12 == Until11 \o set_precharge_period(241)
Until13 == Until12 \o set_deseltct_lvl(64)
Until14 == Until13 \o set_whole_display_lighting(TRUE)
Until15 == Until14 \o set_inversion(FALSE)
Until16 == Until15 \o display_on(TRUE)

\* The last of them is all of it.
LEMMA InitIs == InitCommands = Until16
  BY DEF InitCommands, Until1, Until2, Until3, Until4, Until5, Until6, Until7, Until8,
     Until9, Until10, Until11, Until12, Until13, Until14, Until15, Until16

\* No command of ssd1306_init has two arguments.
LEMMA InitPlain ==
    /\ InitCommands \in Seq(Plain)
    /\ Until1 \in Seq(Int) /\ Until2 \in Seq(Int) /\ Until3 \in Seq(Int)
    /\ Until4 \in Seq(Int) /\ Until5 \in Seq(Int) /\ Until6 \in Seq(Int)
    /\ Until7 \in Seq(Int) /\ Until8 \in Seq(Int) /\ Until9 \in Seq(Int)
    /\ Until10 \in Seq(Int) /\ Until11 \in Seq(Int) /\ Until12 \in Seq(Int)
    /\ Until13 \in Seq(Int) /\ Until14 \in Seq(Int) /\ Until15 \in Seq(Int)
    /\ Until16 \in Seq(Int)
  <1>1. display_on(FALSE) \in Seq(Plain)
    BY DEF Plain, TwoArguments, display_on
  <1>2. set_osc_freq(128) \in Seq(Plain)
    BY DEF Plain, TwoArguments, set_osc_freq
  <1>3. set_mux_ratio(Height - 1) \in Seq(Plain)
    BY OledAssumption DEF Plain, TwoArguments, set_mux_ratio
  <1>4. set_display_offset(0) \in Seq(Plain)
    BY DEF Plain, TwoArguments, set_display_offset
  <1>5. set_display_start_line(0) \in Seq(Plain)
    BY DEF Plain, TwoArguments, set_display_start_line
  <1>6. set_charge_pump_enabled(TRUE) \in Seq(Plain)
    BY DEF Plain, TwoArguments, set_charge_pump_enabled
  <1>7. set_mem_addr_mode(0) \in Seq(Plain)
    BY DEF Plain, TwoArguments, set_mem_addr_mode
  <1>8. set_segment_remapping_enabled(FALSE) \in Seq(Plain)
    BY DEF Plain, TwoArguments, set_segment_remapping_enabled
  <1>9. set_scan_direction_fwd(TRUE) \in Seq(Plain)
    BY DEF Plain, TwoArguments, set_scan_direction_fwd
  <1>10. set_com_pin_hw_config(pin_cfg) \in Seq(Plain)
    BY DEF Plain, TwoArguments, set_com_pin_hw_config, pin_cfg
  <1>11. set_contrast(159) \in Seq(Plain)
    BY DEF Plain, TwoArguments, set_contrast
  <1>12. set_precharge_period(241) \in Seq(Plain)
    BY DEF Plain, TwoArguments, set_precharge_period
  <1>13. set_deseltct_lvl(64) \in Seq(Plain)
    BY DEF Plain, TwoArguments, set_deseltct_lvl
  <1>14. set_whole_display_lighting(TRUE) \in Seq(Plain)
    BY DEF Plain, TwoArguments, set_whole_display_lighting
  <1>15. set_inversion(FALSE) \in Seq(Plain)
    BY DEF Plain, TwoArguments, set_inversion
  <1>16. display_on(TRUE) \in Seq(Plain)
    BY DEF Plain, TwoArguments, display_on
  <1>17. \A a, b \in Seq(Plain) : a \o b \in Seq(Plain)
    OBVIOUS
  <1>34. Until1 \in Seq(Plain)
    BY <1>1 DEF Until1
  <1>18. Until2 \in Seq(Plain)
    BY <1>34, <1>2, <1>17 DEF Until2
  <1>19. Until3 \in Seq(Plain)
    BY <1>18, <1>3, <1>17 DEF Until3
  <1>20. Until4 \in Seq(Plain)
    BY <1>19, <1>4, <1>17 DEF Until4
  <1>21. Until5 \in Seq(Plain)
    BY <1>20, <1>5, <1>17 DEF Until5
  <1>22. Until6 \in Seq(Plain)
    BY <1>21, <1>6, <1>17 DEF Until6
  <1>23. Until7 \in Seq(Plain)
    BY <1>22, <1>7, <1>17 DEF Until7
  <1>24. Until8 \in Seq(Plain)
    BY <1>23, <1>8, <1>17 DEF Until8
  <1>25. Until9 \in Seq(Plain)
    BY <1>24, <1>9, <1>17 DEF Until9
  <1>26. Until10 \in Seq(Plain)
    BY <1>25, <1>10, <1>17 DEF Until10
  <1>27. Until11 \in Seq(Plain)
    BY <1>26, <1>11, <1>17 DEF Until11
  <1>28. Until12 \in Seq(Plain)
    BY <1>27, <1>12, <1>17 DEF Until12
  <1>29. Until13 \in Seq(Plain)
    BY <1>28, <1>13, <1>17 DEF Until13
  <1>30. Until14 \in Seq(Plain)
    BY <1>29, <1>14, <1>17 DEF Until14
  <1>31. Until15 \in Seq(Plain)
    BY <1>30, <1>15, <1>17 DEF Until15
  <1>32. Until16 \in Seq(Plain)
    BY <1>31, <1>16, <1>17 DEF Until16
  <1>33. \A a \in Seq(Plain) : a \in Seq(Int)
    BY DEF Plain
  <1> QED BY <1>18, <1>19, <1>20, <1>21, <1>22, <1>23, <1>24, <1>25, <1>26, <1>27, <1>28,
             <1>29, <1>30, <1>31, <1>32, <1>33, <1>34, InitIs

-----------------------------------------------------------------------------
\* A controller with no command half.
Clean(c) == ChipOK(c) /\ c.unfinished = <<>>

\* The controller c became d by a command for register r.
Wrote(c, d, r, cmd) ==
    /\ Clean(d) /\ d.ram = c.ram /\ d.regs[r] = cmd
    /\ \A q \in Register : q # r => d.regs[q] = c.regs[q]
    /\ d.home = c.home \union ({r} \intersect TwoArguments)

\* A run is that.
LEMMA RanIs ==
    ASSUME NEW c, ChipOK(c), NEW d, NEW cmd, NEW r, Sets(cmd, r), Ran(c, d, cmd)
    PROVE  Wrote(c, d, r, cmd)
  <1>1. c.regs \in [Register -> Seq(Int)] /\ r \in Register /\ r = RegisterOf(cmd[1])
    BY DEF ChipOK, Chips, Sets, Command
  <1>2. d.regs = [c.regs EXCEPT ![r] = cmd]
    BY <1>1 DEF Ran
  <1>3. d.regs[r] = cmd /\ \A q \in Register : q # r => d.regs[q] = c.regs[q]
    BY <1>1, <1>2
  <1> QED BY <1>1, <1>3 DEF Wrote, Clean, Ran

\* What a command does to a controller with no command half.
LEMMA SentWrote ==
    ASSUME NEW c, Clean(c), NEW cmd, NEW r, Sets(cmd, r)
    PROVE  Wrote(c, Sent(c, cmd), r, cmd)
  <1>1. Ran(c, Sent(c, cmd), cmd)
    BY SentIs DEF Clean, Sets
  <1> QED BY <1>1, RanIs DEF Clean

\* The first byte of ssd1306_init: that the panel goes off, or the argument of
\* the command that was half.
LEMMA SentFirst ==
    ASSUME NEW c, PlainOK(c)
    PROVE  Clean(Sent(c, display_on(FALSE)))
  <1>1. CASE c.unfinished = <<>>
    <2>1. Sets(display_on(FALSE), 174)
      BY InitSets
    <2>2. Wrote(c, Sent(c, display_on(FALSE)), 174, display_on(FALSE))
      BY <1>1, <2>1, SentWrote DEF Clean, PlainOK
    <2> QED BY <2>2 DEF Wrote
  <1>2. CASE c.unfinished # <<>>
    <2>1. PICK d : d = Receive(c, 174)
      OBVIOUS
    <2>2. Sent(c, display_on(FALSE)) = d
      <3>1. Len(<<174>>) = 1 /\ <<174>>[1] = 174
        OBVIOUS
      <3>2. display_on(FALSE) = <<174>>
        BY DEF display_on
      <3>3. Got(c, <<174>>, 0 + 1) = Receive(Got(c, <<174>>, 0), <<174>>[0 + 1])
        BY GotNext
      <3>4. Got(c, <<174>>, 1) = d
        BY <2>1, <3>1, <3>3, GotNone
      <3> QED BY <3>1, <3>2, <3>4 DEF Sent
    <2>3. ChipOK(c) /\ c.unfinished \in Seq(Int) /\ c.unfinished[1] \in Plain
      BY <1>2 DEF PlainOK, ChipOK, Chips
    <2>4. PICK cmd : cmd = Append(c.unfinished, 174)
      OBVIOUS
    <2>5. PICK reg : reg = RegisterOf(cmd[1])
      OBVIOUS
    <2>6. ReceivedFrom(c, cmd, reg, d)
      <3>1. PICK b : b = 174
        OBVIOUS
      <3>2. b \in Int /\ cmd = Append(c.unfinished, b) /\ d = Receive(c, b)
        BY <2>1, <2>4, <3>1
      <3> HIDE <3>1
      <3> QED BY <2>3, <2>5, <3>2, ReceiveFields
    <2>7. cmd[1] = c.unfinished[1] /\ Len(cmd) >= 2
      BY <1>2, <2>3, <2>4, AppendIs
    <2>8. Arguments(cmd[1]) <= 1
      BY <2>3, <2>7 DEF Arguments, Plain
    <2>9. Arguments(cmd[1]) \in Int /\ Len(cmd) \in Int
      BY <2>3, <2>4, AppendIs, ArgumentsIs
    <2>10. ~(Len(cmd) <= Arguments(cmd[1]))
      BY <2>7, <2>8, <2>9
    <2>11. d.unfinished = <<>>
      BY <2>6, <2>10 DEF ReceivedFrom
    <2>12. ChipOK(d)
      BY <2>1, <2>3, ReceiveType
    <2> QED BY <2>2, <2>11, <2>12 DEF Clean
  <1> QED BY <1>1, <1>2

\* What a register should have; the panel's switch and the register that lights
\* it as a whole are another matter.
Should(r) ==
    CASE r = 213 -> set_osc_freq(128)
      [] r = 168 -> set_mux_ratio(Height - 1)
      [] r = 211 -> set_display_offset(0)
      [] r = 64 -> set_display_start_line(0)
      [] r = 141 -> set_charge_pump_enabled(TRUE)
      [] r = 32 -> set_mem_addr_mode(0)
      [] r = 160 -> set_segment_remapping_enabled(FALSE)
      [] r = 192 -> set_scan_direction_fwd(TRUE)
      [] r = 218 -> set_com_pin_hw_config(pin_cfg)
      [] r = 129 -> set_contrast(159)
      [] r = 217 -> set_precharge_period(241)
      [] r = 219 -> set_deseltct_lvl(64)
      [] r = 166 -> set_inversion(FALSE)

Fixed == {213, 168, 211, 64, 141, 32, 160, 192, 218, 129, 217, 219, 166}

\* No command is half, and these registers have what they should have.
Settled(c, R) == Clean(c) /\ \A r \in R : c.regs[r] = Should(r)

\* The bytes b are a and a command for register r, the one it should have.
Longer(a, b, r) ==
    /\ a \in Seq(Int)
    /\ \E cmd : b = a \o cmd /\ Sets(cmd, r) /\ (r \in Fixed => cmd = Should(r))

\* What the commands of ssd1306_init are, one by one.
LEMMA InitLonger ==
    /\ Longer(Until1, Until2, 213)
    /\ Longer(Until2, Until3, 168)
    /\ Longer(Until3, Until4, 211)
    /\ Longer(Until4, Until5, 64)
    /\ Longer(Until5, Until6, 141)
    /\ Longer(Until6, Until7, 32)
    /\ Longer(Until7, Until8, 160)
    /\ Longer(Until8, Until9, 192)
    /\ Longer(Until9, Until10, 218)
    /\ Longer(Until10, Until11, 129)
    /\ Longer(Until11, Until12, 217)
    /\ Longer(Until12, Until13, 219)
    /\ Longer(Until13, Until14, 164)
    /\ Longer(Until14, Until15, 166)
    /\ Longer(Until15, Until16, 174)
  <1>1. Longer(Until1, Until2, 213)
    <2>1. PICK cmd : cmd = set_osc_freq(128)
      OBVIOUS
    <2>2. Sets(cmd, 213)
      BY <2>1, InitSets, Zenon
    <2>3. 213 \in Fixed => cmd = Should(213)
      BY <2>1 DEF Should, Fixed
    <2>4. Until2 = Until1 \o cmd
      BY <2>1 DEF Until2
    <2> QED BY <2>2, <2>3, <2>4, InitPlain, Zenon DEF Longer
  <1>2. Longer(Until2, Until3, 168)
    <2>1. PICK cmd : cmd = set_mux_ratio(Height - 1)
      OBVIOUS
    <2>2. Sets(cmd, 168)
      BY <2>1, InitSets, Zenon
    <2>3. 168 \in Fixed => cmd = Should(168)
      BY <2>1 DEF Should, Fixed
    <2>4. Until3 = Until2 \o cmd
      BY <2>1 DEF Until3
    <2> QED BY <2>2, <2>3, <2>4, InitPlain, Zenon DEF Longer
  <1>3. Longer(Until3, Until4, 211)
    <2>1. PICK cmd : cmd = set_display_offset(0)
      OBVIOUS
    <2>2. Sets(cmd, 211)
      BY <2>1, InitSets, Zenon
    <2>3. 211 \in Fixed => cmd = Should(211)
      BY <2>1 DEF Should, Fixed
    <2>4. Until4 = Until3 \o cmd
      BY <2>1 DEF Until4
    <2> QED BY <2>2, <2>3, <2>4, InitPlain, Zenon DEF Longer
  <1>4. Longer(Until4, Until5, 64)
    <2>1. PICK cmd : cmd = set_display_start_line(0)
      OBVIOUS
    <2>2. Sets(cmd, 64)
      BY <2>1, InitSets, Zenon
    <2>3. 64 \in Fixed => cmd = Should(64)
      BY <2>1 DEF Should, Fixed
    <2>4. Until5 = Until4 \o cmd
      BY <2>1 DEF Until5
    <2> QED BY <2>2, <2>3, <2>4, InitPlain, Zenon DEF Longer
  <1>5. Longer(Until5, Until6, 141)
    <2>1. PICK cmd : cmd = set_charge_pump_enabled(TRUE)
      OBVIOUS
    <2>2. Sets(cmd, 141)
      BY <2>1, InitSets, Zenon
    <2>3. 141 \in Fixed => cmd = Should(141)
      BY <2>1 DEF Should, Fixed
    <2>4. Until6 = Until5 \o cmd
      BY <2>1 DEF Until6
    <2> QED BY <2>2, <2>3, <2>4, InitPlain, Zenon DEF Longer
  <1>6. Longer(Until6, Until7, 32)
    <2>1. PICK cmd : cmd = set_mem_addr_mode(0)
      OBVIOUS
    <2>2. Sets(cmd, 32)
      BY <2>1, InitSets, Zenon
    <2>3. 32 \in Fixed => cmd = Should(32)
      BY <2>1 DEF Should, Fixed
    <2>4. Until7 = Until6 \o cmd
      BY <2>1 DEF Until7
    <2> QED BY <2>2, <2>3, <2>4, InitPlain, Zenon DEF Longer
  <1>7. Longer(Until7, Until8, 160)
    <2>1. PICK cmd : cmd = set_segment_remapping_enabled(FALSE)
      OBVIOUS
    <2>2. Sets(cmd, 160)
      BY <2>1, InitSets, Zenon
    <2>3. 160 \in Fixed => cmd = Should(160)
      BY <2>1 DEF Should, Fixed
    <2>4. Until8 = Until7 \o cmd
      BY <2>1 DEF Until8
    <2> QED BY <2>2, <2>3, <2>4, InitPlain, Zenon DEF Longer
  <1>8. Longer(Until8, Until9, 192)
    <2>1. PICK cmd : cmd = set_scan_direction_fwd(TRUE)
      OBVIOUS
    <2>2. Sets(cmd, 192)
      BY <2>1, InitSets, Zenon
    <2>3. 192 \in Fixed => cmd = Should(192)
      BY <2>1 DEF Should, Fixed
    <2>4. Until9 = Until8 \o cmd
      BY <2>1 DEF Until9
    <2> QED BY <2>2, <2>3, <2>4, InitPlain, Zenon DEF Longer
  <1>9. Longer(Until9, Until10, 218)
    <2>1. PICK cmd : cmd = set_com_pin_hw_config(pin_cfg)
      OBVIOUS
    <2>2. Sets(cmd, 218)
      BY <2>1, InitSets, Zenon
    <2>3. 218 \in Fixed => cmd = Should(218)
      BY <2>1 DEF Should, Fixed
    <2>4. Until10 = Until9 \o cmd
      BY <2>1 DEF Until10
    <2> QED BY <2>2, <2>3, <2>4, InitPlain, Zenon DEF Longer
  <1>10. Longer(Until10, Until11, 129)
    <2>1. PICK cmd : cmd = set_contrast(159)
      OBVIOUS
    <2>2. Sets(cmd, 129)
      BY <2>1, InitSets, Zenon
    <2>3. 129 \in Fixed => cmd = Should(129)
      BY <2>1 DEF Should, Fixed
    <2>4. Until11 = Until10 \o cmd
      BY <2>1 DEF Until11
    <2> QED BY <2>2, <2>3, <2>4, InitPlain, Zenon DEF Longer
  <1>11. Longer(Until11, Until12, 217)
    <2>1. PICK cmd : cmd = set_precharge_period(241)
      OBVIOUS
    <2>2. Sets(cmd, 217)
      BY <2>1, InitSets, Zenon
    <2>3. 217 \in Fixed => cmd = Should(217)
      BY <2>1 DEF Should, Fixed
    <2>4. Until12 = Until11 \o cmd
      BY <2>1 DEF Until12
    <2> QED BY <2>2, <2>3, <2>4, InitPlain, Zenon DEF Longer
  <1>12. Longer(Until12, Until13, 219)
    <2>1. PICK cmd : cmd = set_deseltct_lvl(64)
      OBVIOUS
    <2>2. Sets(cmd, 219)
      BY <2>1, InitSets, Zenon
    <2>3. 219 \in Fixed => cmd = Should(219)
      BY <2>1 DEF Should, Fixed
    <2>4. Until13 = Until12 \o cmd
      BY <2>1 DEF Until13
    <2> QED BY <2>2, <2>3, <2>4, InitPlain, Zenon DEF Longer
  <1>13. Longer(Until13, Until14, 164)
    <2>1. PICK cmd : cmd = set_whole_display_lighting(TRUE)
      OBVIOUS
    <2>2. Sets(cmd, 164)
      BY <2>1, InitSets, Zenon
    <2>3. 164 \in Fixed => cmd = Should(164)
      BY <2>1 DEF Should, Fixed
    <2>4. Until14 = Until13 \o cmd
      BY <2>1 DEF Until14
    <2> QED BY <2>2, <2>3, <2>4, InitPlain, Zenon DEF Longer
  <1>14. Longer(Until14, Until15, 166)
    <2>1. PICK cmd : cmd = set_inversion(FALSE)
      OBVIOUS
    <2>2. Sets(cmd, 166)
      BY <2>1, InitSets, Zenon
    <2>3. 166 \in Fixed => cmd = Should(166)
      BY <2>1 DEF Should, Fixed
    <2>4. Until15 = Until14 \o cmd
      BY <2>1 DEF Until15
    <2> QED BY <2>2, <2>3, <2>4, InitPlain, Zenon DEF Longer
  <1>15. Longer(Until15, Until16, 174)
    <2>1. PICK cmd : cmd = display_on(TRUE)
      OBVIOUS
    <2>2. Sets(cmd, 174)
      BY <2>1, InitSets, Zenon
    <2>3. 174 \in Fixed => cmd = Should(174)
      BY <2>1 DEF Should, Fixed
    <2>4. Until16 = Until15 \o cmd
      BY <2>1 DEF Until16
    <2> QED BY <2>2, <2>3, <2>4, InitPlain, Zenon DEF Longer
  <1> QED BY <1>1, <1>2, <1>3, <1>4, <1>5, <1>6, <1>7, <1>8, <1>9, <1>10, <1>11, <1>12,
             <1>13, <1>14, <1>15

\* A command more.
LEMMA SettledMore ==
    ASSUME NEW c, NEW a, NEW b, NEW r, Longer(a, b, r), NEW R \in SUBSET Fixed,
           Settled(Sent(c, a), R)
    PROVE  \E S : S = R \union ({r} \intersect Fixed) /\ S \in SUBSET Fixed
                 /\ Settled(Sent(c, b), S)
  <1>1. PICK cmd : b = a \o cmd /\ Sets(cmd, r) /\ (r \in Fixed => cmd = Should(r))
    BY DEF Longer
  <1>2. PICK d : d = Sent(c, a)
    OBVIOUS
  <1>3. Clean(d) /\ a \in Seq(Int) /\ cmd \in Seq(Int)
    BY <1>1, <1>2 DEF Settled, Sets, Command, Longer
  <1>4. Sent(c, b) = Sent(d, cmd)
    BY <1>1, <1>2, <1>3, SentThen
  <1>5. Wrote(d, Sent(d, cmd), r, cmd)
    BY <1>1, <1>3, SentWrote
  <1>6. Fixed \subseteq Register
    BY DEF Fixed, Register, OneArgument
  <1>7. Settled(Sent(c, b), R \union ({r} \intersect Fixed))
    BY <1>1, <1>2, <1>4, <1>5, <1>6 DEF Settled, Wrote
  <1> QED BY <1>7

\* So it is with all of them after ssd1306_init.
LEMMA InitDone ==
    ASSUME NEW c, PlainOK(c)
    PROVE  Settled(Sent(c, InitCommands), Fixed)
  <1>1. PICK R1 : R1 = {} /\ R1 \in SUBSET Fixed /\ Settled(Sent(c, Until1), R1)
    <2>1. Clean(Sent(c, Until1))
      BY SentFirst, Zenon DEF Until1
    <2>2. Settled(Sent(c, Until1), {}) /\ {} \in SUBSET Fixed
      BY <2>1 DEF Settled
    <2> QED BY <2>2
  <1>2. PICK R2 : R2 = R1 \union ({213} \intersect Fixed) /\ R2 \in SUBSET Fixed
                /\ Settled(Sent(c, Until2), R2)
    BY <1>1, SettledMore, InitLonger
  <1>3. PICK R3 : R3 = R2 \union ({168} \intersect Fixed) /\ R3 \in SUBSET Fixed
                /\ Settled(Sent(c, Until3), R3)
    BY <1>2, SettledMore, InitLonger
  <1>4. PICK R4 : R4 = R3 \union ({211} \intersect Fixed) /\ R4 \in SUBSET Fixed
                /\ Settled(Sent(c, Until4), R4)
    BY <1>3, SettledMore, InitLonger
  <1>5. PICK R5 : R5 = R4 \union ({64} \intersect Fixed) /\ R5 \in SUBSET Fixed
                /\ Settled(Sent(c, Until5), R5)
    BY <1>4, SettledMore, InitLonger
  <1>6. PICK R6 : R6 = R5 \union ({141} \intersect Fixed) /\ R6 \in SUBSET Fixed
                /\ Settled(Sent(c, Until6), R6)
    BY <1>5, SettledMore, InitLonger
  <1>7. PICK R7 : R7 = R6 \union ({32} \intersect Fixed) /\ R7 \in SUBSET Fixed
                /\ Settled(Sent(c, Until7), R7)
    BY <1>6, SettledMore, InitLonger
  <1>8. PICK R8 : R8 = R7 \union ({160} \intersect Fixed) /\ R8 \in SUBSET Fixed
                /\ Settled(Sent(c, Until8), R8)
    BY <1>7, SettledMore, InitLonger
  <1>9. PICK R9 : R9 = R8 \union ({192} \intersect Fixed) /\ R9 \in SUBSET Fixed
                /\ Settled(Sent(c, Until9), R9)
    BY <1>8, SettledMore, InitLonger
  <1>10. PICK R10 : R10 = R9 \union ({218} \intersect Fixed) /\ R10 \in SUBSET Fixed
                /\ Settled(Sent(c, Until10), R10)
    BY <1>9, SettledMore, InitLonger
  <1>11. PICK R11 : R11 = R10 \union ({129} \intersect Fixed) /\ R11 \in SUBSET Fixed
                /\ Settled(Sent(c, Until11), R11)
    BY <1>10, SettledMore, InitLonger
  <1>12. PICK R12 : R12 = R11 \union ({217} \intersect Fixed) /\ R12 \in SUBSET Fixed
                /\ Settled(Sent(c, Until12), R12)
    BY <1>11, SettledMore, InitLonger
  <1>13. PICK R13 : R13 = R12 \union ({219} \intersect Fixed) /\ R13 \in SUBSET Fixed
                /\ Settled(Sent(c, Until13), R13)
    BY <1>12, SettledMore, InitLonger
  <1>14. PICK R14 : R14 = R13 \union ({164} \intersect Fixed) /\ R14 \in SUBSET Fixed
                /\ Settled(Sent(c, Until14), R14)
    BY <1>13, SettledMore, InitLonger
  <1>15. PICK R15 : R15 = R14 \union ({166} \intersect Fixed) /\ R15 \in SUBSET Fixed
                /\ Settled(Sent(c, Until15), R15)
    BY <1>14, SettledMore, InitLonger
  <1>16. PICK R16 : R16 = R15 \union ({174} \intersect Fixed) /\ R16 \in SUBSET Fixed
                /\ Settled(Sent(c, Until16), R16)
    BY <1>15, SettledMore, InitLonger
  <1>17. R16 = Fixed
    BY <1>1, <1>2, <1>3, <1>4, <1>5, <1>6, <1>7, <1>8, <1>9, <1>10, <1>11, <1>12, <1>13,
       <1>14, <1>15, <1>16 DEF Fixed
  <1> QED BY <1>16, <1>17, InitIs

\* The controller is set as it should be.
Ready(c) == Settled(c, Fixed) /\ c.regs[164] = set_whole_display_lighting(FALSE)

\* The register of a command has it.
At(cmd) == chip.regs[RegisterOf(cmd[1])] = cmd

\* That is what Configured says of it.
LEMMA ReadyIs == Ready(chip) => Configured
  <1> SUFFICES ASSUME Ready(chip) PROVE Configured
    OBVIOUS
  <1>1. chip.unfinished = <<>>
    BY DEF Ready, Settled, Clean
  <1>2. ASSUME NEW cmd, NEW r, Sets(cmd, r), chip.regs[r] = cmd
        PROVE  At(cmd)
    BY <1>2 DEF Sets, At
  <1>3. \A r \in Fixed : At(Should(r))
    <2>1. \A r \in Fixed : \E a, b : Longer(a, b, r)
      BY InitLonger DEF Fixed
    <2>2. \A r \in Fixed : Sets(Should(r), r)
      BY <2>1 DEF Longer
    <2>3. \A r \in Fixed : chip.regs[r] = Should(r)
      BY DEF Ready, Settled
    <2> QED BY <1>2, <2>2, <2>3
  <1>4. At(set_whole_display_lighting(FALSE))
    <2>1. PICK dark : dark = set_whole_display_lighting(FALSE)
      OBVIOUS
    <2>2. Sets(dark, 164) /\ chip.regs[164] = dark
      BY <2>1, InitSets, Zenon DEF Ready
    <2>3. At(dark)
      BY <1>2, <2>2
    <2> QED BY <2>1, <2>3
  <1>5. At(set_osc_freq(128)) /\ At(set_mux_ratio(Height - 1))
    <2>1. PICK a, b : a = set_osc_freq(128) /\ b = set_mux_ratio(Height - 1)
      OBVIOUS
    <2>2. a = Should(213) /\ b = Should(168)
      BY <2>1 DEF Should
    <2>3. At(a) /\ At(b)
      BY <1>3, <2>2 DEF Fixed
    <2> QED BY <2>1, <2>3
  <1>6. At(set_display_offset(0)) /\ At(set_display_start_line(0))
    <2>1. PICK a, b : a = set_display_offset(0) /\ b = set_display_start_line(0)
      OBVIOUS
    <2>2. a = Should(211) /\ b = Should(64)
      BY <2>1 DEF Should
    <2>3. At(a) /\ At(b)
      BY <1>3, <2>2 DEF Fixed
    <2> QED BY <2>1, <2>3
  <1>7. At(set_charge_pump_enabled(TRUE)) /\ At(set_mem_addr_mode(0))
    <2>1. PICK a, b : a = set_charge_pump_enabled(TRUE) /\ b = set_mem_addr_mode(0)
      OBVIOUS
    <2>2. a = Should(141) /\ b = Should(32)
      BY <2>1 DEF Should
    <2>3. At(a) /\ At(b)
      BY <1>3, <2>2 DEF Fixed
    <2> QED BY <2>1, <2>3
  <1>8. At(set_segment_remapping_enabled(FALSE)) /\ At(set_scan_direction_fwd(TRUE))
    <2>1. PICK a, b : /\ a = set_segment_remapping_enabled(FALSE)
                      /\ b = set_scan_direction_fwd(TRUE)
      OBVIOUS
    <2>2. a = Should(160) /\ b = Should(192)
      BY <2>1 DEF Should
    <2>3. At(a) /\ At(b)
      BY <1>3, <2>2 DEF Fixed
    <2> QED BY <2>1, <2>3
  <1>9. At(set_com_pin_hw_config(pin_cfg)) /\ At(set_contrast(159))
    <2>1. PICK a, b : a = set_com_pin_hw_config(pin_cfg) /\ b = set_contrast(159)
      OBVIOUS
    <2>2. a = Should(218) /\ b = Should(129)
      BY <2>1 DEF Should
    <2>3. At(a) /\ At(b)
      BY <1>3, <2>2 DEF Fixed
    <2> QED BY <2>1, <2>3
  <1>10. At(set_precharge_period(241)) /\ At(set_deseltct_lvl(64))
    <2>1. PICK a, b : a = set_precharge_period(241) /\ b = set_deseltct_lvl(64)
      OBVIOUS
    <2>2. a = Should(217) /\ b = Should(219)
      BY <2>1 DEF Should
    <2>3. At(a) /\ At(b)
      BY <1>3, <2>2 DEF Fixed
    <2> QED BY <2>1, <2>3
  <1>12. At(set_inversion(FALSE))
    <2>1. PICK a : a = set_inversion(FALSE)
      OBVIOUS
    <2>2. a = Should(166)
      BY <2>1 DEF Should
    <2>3. At(a)
      BY <1>3, <2>2 DEF Fixed
    <2> QED BY <2>1, <2>3
  <1>11. \A cmd \in {set_osc_freq(128), set_mux_ratio(Height - 1), set_display_offset(0),
                      set_display_start_line(0), set_charge_pump_enabled(TRUE),
                      set_mem_addr_mode(0), set_segment_remapping_enabled(FALSE),
                      set_scan_direction_fwd(TRUE), set_com_pin_hw_config(pin_cfg),
                      set_contrast(159), set_precharge_period(241), set_deseltct_lvl(64),
                      set_whole_display_lighting(FALSE), set_inversion(FALSE)} : At(cmd)
    BY <1>4, <1>5, <1>6, <1>7, <1>8, <1>9, <1>10, <1>12, ZenonT(60)
  <1> QED BY <1>1, <1>11, Zenon DEF Configured, At

\* What a controller becomes by whole commands is well-formed.
LEMMA SentType ==
    ASSUME NEW c, ChipOK(c), NEW bytes \in Seq(Int)
    PROVE  ChipOK(Sent(c, bytes))
  <1>1. Len(bytes) \in 0 .. Len(bytes)
    OBVIOUS
  <1> QED BY <1>1, GotType DEF Sent

\* The attempts of display_init.
LEMMA AttemptsType ==
    ASSUME NEW c, ChipOK(c), NEW n \in 0 .. Len(InitCommands),
           NEW again \in 0 .. Len(InitCommands)
    PROVE  ChipOK(Attempts(c, n, again))
  <1>1. InitCommands \in Seq(Int)
    BY InitPlain, InitIs
  <1> QED BY <1>1, GotType DEF Attempts

\* After one that got through, whatever the first left behind.
LEMMA AttemptsDone ==
    ASSUME NEW n \in 0 .. Len(InitCommands), NEW again \in 0 .. Len(InitCommands),
           again = Len(InitCommands) \/ (n = Len(InitCommands) /\ again = 0)
    PROVE  Settled(Attempts(PoweredOn, n, again), Fixed)
  <1>1. PlainOK(PoweredOn)
    BY PowerOnType DEF PlainOK, PoweredOn
  <1>2. PICK bytes : bytes = InitCommands
    OBVIOUS
  <1>3. bytes \in Seq(Plain)
    BY <1>2, InitPlain
  <1>4. PICK c : c = Got(PoweredOn, bytes, n)
    OBVIOUS
  <1>5. PlainOK(c)
    BY <1>1, <1>2, <1>3, <1>4, GotPlain
  <1>6. CASE again = Len(bytes)
    <2>1. Settled(Sent(c, bytes), Fixed)
      BY <1>2, <1>5, InitDone
    <2> QED BY <1>2, <1>4, <1>6, <2>1 DEF Attempts, Sent
  <1>7. CASE n = Len(bytes) /\ again = 0
    <2>1. Settled(Sent(PoweredOn, bytes), Fixed)
      BY <1>1, <1>2, InitDone
    <2>2. Got(c, bytes, 0) = c
      BY GotNone
    <2> QED BY <1>2, <1>4, <1>7, <2>1, <2>2 DEF Attempts, Sent
  <1> QED BY <1>2, <1>6, <1>7

\* The last command of display_init.
LEMMA DarkReady ==
    ASSUME NEW c, Settled(c, Fixed)
    PROVE  Ready(Sent(c, set_whole_display_lighting(FALSE)))
  <1>1. PICK cmd : cmd = set_whole_display_lighting(FALSE)
    OBVIOUS
  <1>2. Sets(cmd, 164)
    BY <1>1, InitSets, Zenon
  <1>3. Wrote(c, Sent(c, cmd), 164, cmd)
    BY <1>2, SentWrote DEF Settled
  <1>4. Fixed \subseteq Register /\ 164 \notin Fixed
    BY DEF Fixed, Register, OneArgument
  <1>5. Ready(Sent(c, cmd))
    BY <1>1, <1>3, <1>4 DEF Ready, Settled, Wrote
  <1> QED BY <1>1, <1>5

\* The panel is turned on or off: that changes its switch only.
Switched(c, d, cmd) ==
    /\ ChipOK(d) /\ d.ram = c.ram
    /\ Ready(c) => Ready(d) /\ d.regs[174] = cmd

\* That is what the command does.
LEMMA SwitchIs ==
    ASSUME NEW c, ChipOK(c), NEW on \in BOOLEAN
    PROVE  ChipOK(Sent(c, display_on(on)))
           /\ (Ready(c) => Switched(c, Sent(c, display_on(on)), display_on(on)))
  <1>1. PICK cmd : cmd = display_on(on)
    OBVIOUS
  <1>2. Sets(cmd, 174)
    BY <1>1, InitSets
  <1>3. ChipOK(Sent(c, cmd))
    BY <1>2, SentType DEF Sets, Command
  <1>4. CASE Ready(c)
    <2>1. Wrote(c, Sent(c, cmd), 174, cmd)
      BY <1>2, <1>4, SentWrote DEF Ready, Settled
    <2>2. Fixed \subseteq Register /\ 174 \notin Fixed /\ 164 \in Register
      BY DEF Fixed, Register, OneArgument
    <2>3. Ready(Sent(c, cmd))
      <3>1. PICK dark : dark = set_whole_display_lighting(FALSE)
        OBVIOUS
      <3>2. c.regs[164] = dark /\ \A r \in Fixed : c.regs[r] = Should(r)
        BY <1>4, <3>1, Zenon DEF Ready, Settled
      <3>3. Sent(c, cmd).regs[164] = dark /\ Settled(Sent(c, cmd), Fixed)
        BY <2>1, <2>2, <3>2 DEF Settled, Wrote
      <3> QED BY <3>1, <3>3, Zenon DEF Ready
    <2> QED BY <1>1, <1>3, <2>1, <2>3 DEF Switched, Wrote
  <1> QED BY <1>1, <1>3, <1>4

\* The controller c became d by load_frame_buffer.
Loads(c, d, picture) ==
    /\ ChipOK(d)
    /\ Ready(c) => Ready(d) /\ d.ram = picture /\ d.regs[174] = c.regs[174]

\* A picture that is loaded arrives whole.
LEMMA LoadIs ==
    ASSUME NEW c, ChipOK(c), NEW picture \in Picture
    PROVE  Loads(c, Loaded(c, picture), picture)
  <1>1. PICK first : first = IF Width = 64 /\ Height = 32 THEN 32 ELSE 0
    OBVIOUS
  <1>2. PICK columns : columns = set_column_addr(first, first + Width - 1)
    OBVIOUS
  <1>3. PICK pages : pages = set_page_addr(0, (Height \div 8) - 1)
    OBVIOUS
  <1> DEFINE Whole(x) == x.home = TwoArguments /\ x.regs[33] = columns /\ x.regs[34] = pages
  <1>4. PICK d : d = Sent(c, columns \o pages)
    OBVIOUS
  <1>5. PICK e : e = [d EXCEPT !.home = {}, !.ram = IF Whole(d) THEN picture ELSE "garbled"]
    OBVIOUS
  <1>6. Loaded(c, picture) = e
    <2>1. Loaded(c, picture) =
            Only({[x EXCEPT !.home = {}, !.ram = IF Whole(x) THEN picture ELSE "garbled"] :
                  x \in {d}})
      BY <1>1, <1>2, <1>3, <1>4 DEF Loaded
    <2>2. {[x EXCEPT !.home = {}, !.ram = IF Whole(x) THEN picture ELSE "garbled"] :
           x \in {d}} = {e}
      BY <1>5
    <2> QED BY <2>1, <2>2, OnlyIs
  <1>7. Sets(columns, 33)
    <2>1. PICK last : last = first + Width - 1
      OBVIOUS
    <2>2. first \in Int /\ last \in Int
      BY <1>1, <2>1, OledAssumption
    <2> QED BY <1>2, <2>1, <2>2 DEF Sets, Command, set_column_addr, RegisterOf, Register,
               Arguments, OneArgument, TwoArguments, Pairs, Scan
  <1>8. Sets(pages, 34)
    <2>1. PICK last : last = (Height \div 8) - 1
      OBVIOUS
    <2>2. last \in Int
      BY <2>1, OledAssumption
    <2> QED BY <1>3, <2>1, <2>2 DEF Sets, Command, set_page_addr, RegisterOf, Register,
               Arguments, OneArgument, TwoArguments, Pairs, Scan
  <1>9. columns \in Seq(Int) /\ pages \in Seq(Int)
    BY <1>7, <1>8 DEF Sets, Command
  <1>10. ChipOK(d)
    <2>1. columns \o pages \in Seq(Int)
      BY <1>9
    <2> QED BY <1>4, <2>1, SentType
  <1>11. PICK ram : ram = IF Whole(d) THEN picture ELSE "garbled"
    OBVIOUS
  <1>12. ram \in Picture
    BY <1>11, PictureIs
  <1>13. /\ e.unfinished = d.unfinished /\ e.regs = d.regs /\ e.home = {} /\ e.ram = ram
         /\ e \in Chips
    <2>1. d \in Chips /\ e = [d EXCEPT !.home = {}, !.ram = ram]
      BY <1>5, <1>10, <1>11 DEF ChipOK
    <2> HIDE DEF Whole
    <2> QED BY <1>12, <2>1 DEF Chips
  <1>14. ChipOK(e)
    BY <1>10, <1>13 DEF ChipOK
  <1>15. CASE Ready(c)
    <2>1. PICK m : m = Sent(c, columns)
      OBVIOUS
    <2>2. Clean(c)
      BY <1>15 DEF Ready, Settled
    <2>3. Wrote(c, m, 33, columns)
      BY <1>7, <2>1, <2>2, SentWrote
    <2>4. d = Sent(m, pages)
      BY <1>4, <1>9, <2>1, SentThen
    <2>5. Clean(m)
      BY <2>3 DEF Wrote
    <2>6. Wrote(m, d, 34, pages)
      BY <1>8, <2>4, <2>5, SentWrote
    <2>7. c.home \subseteq TwoArguments
      BY DEF ChipOK, Chips
    <2>8. d.home = TwoArguments
      BY <2>3, <2>6, <2>7 DEF Wrote, TwoArguments
    <2>9. /\ {33, 34, 164, 174} \subseteq Register /\ Fixed \subseteq Register
          /\ 33 \notin Fixed /\ 34 \notin Fixed
      BY DEF Fixed, Register, OneArgument, TwoArguments
    <2>10. d.regs[33] = columns /\ d.regs[34] = pages
      BY <2>3, <2>6, <2>9 DEF Wrote
    <2>11. ram = picture
      BY <1>11, <2>8, <2>10
    <2>12. \A r \in Register : r \notin {33, 34} => d.regs[r] = c.regs[r]
      BY <2>3, <2>6, <2>9 DEF Wrote
    <2>13. /\ \A r \in Fixed : e.regs[r] = Should(r)
           /\ e.regs[164] = c.regs[164] /\ e.regs[174] = c.regs[174]
      <3>1. \A r \in Fixed : c.regs[r] = Should(r)
        BY <1>15 DEF Ready, Settled
      <3> QED BY <1>13, <2>9, <2>12, <3>1
    <2>14. e.unfinished = <<>>
      BY <1>13, <2>6 DEF Wrote, Clean
    <2>15. Ready(e)
      BY <1>14, <1>15, <2>13, <2>14 DEF Ready, Settled, Clean
    <2> QED BY <1>6, <1>13, <1>14, <2>11, <2>13, <2>15 DEF Loads
  <1> QED BY <1>6, <1>14, <1>15 DEF Loads

-----------------------------------------------------------------------------
\* What is on the panel, and what the task thinks is on it, from the moment that
\* the panel is first used.
Shows ==
    /\ Lit => chip.ram = fb /\ (fb = "blank" => showing)
    /\ display_active => Lit
    /\ display_active /\ ~showing /\ pc \notin {"next", "end"} =>
          fb \in {"id", Screen(display_screen, 0)}

\* The display and the task agree.
ShownInv ==
    /\ ChipOK(chip) /\ fb \in Picture /\ showing \in BOOLEAN
    /\ pc = "boot" => chip = PoweredOn /\ ret # "ok"
    /\ pc \in {"boot", "ready", "start"} => ~display_active /\ ~showing
    /\ ret = "ok" => Ready(chip)
    /\ ret = "ok" /\ pc \notin {"boot", "ready"} => Shows

\* That is enough for the property.
LEMMA ShownInvIs == ShownInv => Shown
  BY ReadyIs DEF ShownInv, Shows, Shown

\* And, with the types of the loop, for those of the module.
LEMMA ShownTypes == ShownInv => OledTypeOK /\ showing \in BOOLEAN
  <1> SUFFICES ASSUME ShownInv PROVE OledTypeOK /\ showing \in BOOLEAN
    OBVIOUS
  <1>1. ChipOK(chip) /\ fb \in Picture /\ showing \in BOOLEAN
    BY DEF ShownInv
  <1> QED BY <1>1 DEF OledTypeOK, ChipOK, Chips

\* The screens are pictures, and none of them is blank.
LEMMA ScreenIs ==
    ASSUME NEW screen \in 0 .. 2, NEW id
    PROVE  /\ Screen(screen, id) \in Picture \ {"blank", "garbled"}
           /\ Screen(screen, id) \in {"id", Screen(screen, 0)}
  <1>1. <<"0", "1", "2">>[screen + 1] \in {"0", "1", "2"}
    <2>1. screen = 0 \/ screen = 1 \/ screen = 2
      OBVIOUS
    <2> QED BY <2>1
  <1>2. ~(0 > 0)
    OBVIOUS
  <1> QED BY <1>1, <1>2, PictureIs DEF Screen

\* On and off are two commands.
LEMMA OnOff == display_on(TRUE) # display_on(FALSE)
  <1>1. <<175>> # <<174>>
    OBVIOUS
  <1> QED BY <1>1 DEF display_on

\* A picture is drawn: it is in the frame buffer, and a controller that is set as
\* it should be shows it, with the switch as it was.
LEMMA DrawIs ==
    ASSUME ChipOK(chip), NEW picture \in Picture, Draw(picture)
    PROVE  /\ ChipOK(chip') /\ fb' = picture /\ showing' = FALSE
           /\ Ready(chip) => Ready(chip') /\ chip'.ram = picture /\ (Lit' <=> Lit)
  <1>1. chip' = Loaded(chip, picture) /\ fb' = picture /\ showing' = FALSE
    BY DEF Draw
  <1>2. Loads(chip, chip', picture)
    BY <1>1, LoadIs
  <1> QED BY <1>1, <1>2 DEF Loads, Lit

\* The same when the panel is then turned on.
LEMMA DrawOnIs ==
    ASSUME ChipOK(chip), NEW picture \in Picture, DrawOn(picture)
    PROVE  /\ ChipOK(chip') /\ fb' = picture /\ showing' = (picture = "blank")
           /\ Ready(chip) => Ready(chip') /\ chip'.ram = picture /\ Lit'
  <1>1. PICK c : c = Loaded(chip, picture)
    OBVIOUS
  <1>2. PICK cmd : cmd = display_on(TRUE)
    OBVIOUS
  <1>3. chip' = Sent(c, cmd) /\ fb' = picture /\ showing' = (picture = "blank")
    BY <1>1, <1>2, Zenon DEF DrawOn
  <1>4. Loads(chip, c, picture)
    BY <1>1, LoadIs
  <1>5. ChipOK(Sent(c, cmd)) /\ (Ready(c) => Switched(c, Sent(c, cmd), cmd))
    <2>1. ChipOK(c) /\ TRUE \in BOOLEAN
      BY <1>4 DEF Loads
    <2> QED BY <1>2, <2>1, SwitchIs, Zenon
  <1>6. Lit' <=> chip'.regs[174] = cmd
    BY <1>2, Zenon DEF Lit
  <1> QED BY <1>3, <1>4, <1>5, <1>6 DEF Loads, Switched

\* The panel is turned off.
LEMMA TurnOffIs ==
    ASSUME ChipOK(chip), TurnOff
    PROVE  /\ ChipOK(chip') /\ fb' = fb /\ showing' = showing
           /\ Ready(chip) => Ready(chip') /\ ~Lit'
  <1>1. PICK cmd : cmd = display_on(FALSE)
    OBVIOUS
  <1>2. chip' = Sent(chip, cmd) /\ fb' = fb /\ showing' = showing
    BY <1>1, Zenon DEF TurnOff
  <1>3. ChipOK(Sent(chip, cmd)) /\ (Ready(chip) => Switched(chip, Sent(chip, cmd), cmd))
    <2>1. FALSE \in BOOLEAN
      OBVIOUS
    <2> QED BY <1>1, <2>1, SwitchIs, Zenon
  <1>4. chip'.regs[174] = cmd => ~Lit'
    BY <1>1, OnOff, Zenon DEF Lit
  <1> QED BY <1>2, <1>3, <1>4 DEF Switched

\* The task starts with a panel that is off.
LEMMA InitShown == Init => ShownInv
  BY PowerOnType, PictureIs DEF Init, ShownInv

\* display_init leaves a controller that is set as it should be, when it returns 0
\* and its last command arrives.
LEMMA DisplayInitShown ==
    ASSUME ShownInv, display_init
    PROVE  ShownInv'
  <1>1. /\ pc = "boot" /\ pc' = "ready" /\ fb' = fb /\ display_active' = display_active
        /\ showing' = showing /\ ~showing /\ showing \in BOOLEAN
        /\ chip = PoweredOn /\ ChipOK(chip) /\ fb \in Picture /\ ~display_active
    BY DEF display_init, screens, ShownInv
  <1>2. PICK n \in 0 .. Len(InitCommands), again \in 0 .. Len(InitCommands) :
          \/ ret' = "failed" /\ chip' = Attempts(chip, n, again)
          \/ /\ again = Len(InitCommands) \/ (n = Len(InitCommands) /\ again = 0)
             /\ ret' = "ok"
             /\ chip' = Sent(Attempts(chip, n, again), set_whole_display_lighting(FALSE))
          \/ ret' = "dim" /\ chip' = Attempts(chip, n, again)
    BY Zenon DEF display_init
  <1>3. PICK c : c = Attempts(chip, n, again)
    OBVIOUS
  <1>4. ChipOK(c)
    BY <1>1, <1>3, AttemptsType
  <1>5. ChipOK(chip') /\ (ret' = "ok" => Ready(chip'))
    <2>1. CASE ret' # "ok"
      BY <1>2, <1>3, <1>4, <2>1
    <2>2. CASE ret' = "ok"
      <3>1. /\ again = Len(InitCommands) \/ (n = Len(InitCommands) /\ again = 0)
            /\ chip' = Sent(c, set_whole_display_lighting(FALSE))
        BY <1>2, <1>3, <2>2, Zenon
      <3>2. Settled(c, Fixed)
        BY <1>1, <1>3, <3>1, AttemptsDone
      <3>3. Ready(chip')
        BY <3>1, <3>2, DarkReady, Zenon
      <3> QED BY <3>3 DEF Ready, Settled, Clean
    <2> QED BY <2>1, <2>2
  <1> QED BY <1>1, <1>5 DEF ShownInv

\* "Ready" is shown, on a panel that is lit.
LEMMA ShowReadyShown ==
    ASSUME ShownInv, ShowReady
    PROVE  ShownInv'
  <1>1. /\ pc = "ready" /\ pc' = "start" /\ ret' = ret /\ DrawOn("ready")
        /\ display_active' = display_active /\ ~display_active
        /\ ChipOK(chip) /\ (ret = "ok" => Ready(chip))
    BY DEF ShowReady, screens, modes, ShownInv
  <1>2. "ready" \in Picture
    BY PictureIs
  <1>3. /\ ChipOK(chip') /\ fb' = "ready" /\ showing' = FALSE
        /\ Ready(chip) => Ready(chip') /\ chip'.ram = "ready" /\ Lit'
    BY <1>1, <1>2, DrawOnIs
  <1> QED BY <1>1, <1>2, <1>3 DEF ShownInv, Shows

\* Before the task starts the panel goes off.
LEMMA StartShown ==
    ASSUME ShownInv, StartTask
    PROVE  ShownInv'
  <1>1. /\ pc = "start" /\ pc' = "top" /\ ret' = ret /\ fb' = "blank"
        /\ showing' = showing /\ showing \in BOOLEAN
        /\ display_active' = display_active /\ ~display_active
        /\ ChipOK(chip) /\ (ret = "ok" => Ready(chip))
    BY DEF StartTask, screens, modes, ShownInv
  <1>2. PICK c, cmd : c = Loaded(chip, "blank") /\ cmd = display_on(FALSE)
    OBVIOUS
  <1>3. chip' = Sent(c, cmd)
    BY <1>2, Zenon DEF StartTask
  <1>4. "blank" \in Picture
    BY PictureIs
  <1>5. Loads(chip, c, "blank")
    BY <1>1, <1>2, <1>4, LoadIs
  <1>6. ChipOK(Sent(c, cmd)) /\ (Ready(c) => Switched(c, Sent(c, cmd), cmd))
    <2>1. ChipOK(c) /\ FALSE \in BOOLEAN
      BY <1>5 DEF Loads
    <2> QED BY <1>2, <2>1, SwitchIs, Zenon
  <1>7. chip'.regs[174] = cmd => ~Lit'
    BY <1>2, OnOff, Zenon DEF Lit
  <1> QED BY <1>1, <1>3, <1>4, <1>5, <1>6, <1>7 DEF ShownInv, Shows, Loads, Switched

\* Where the display is in use.
InUse == pc \notin {"boot", "ready", "start"}

\* Steps that leave the display and the screens alone.
LEMMA SameShown ==
    ASSUME ShownInv, UNCHANGED display, UNCHANGED screens, ret' = ret,
           \/ pc' = pc
           \/ InUse /\ InUse' /\ (pc \in {"next", "end"} => pc' \in {"next", "end"})
    PROVE  ShownInv'
  <1>1. /\ chip' = chip /\ fb' = fb /\ showing' = showing
        /\ display_active' = display_active /\ display_screen' = display_screen
    BY DEF display, screens
  <1>2. Lit' = Lit /\ Screen(display_screen', 0) = Screen(display_screen, 0)
    BY <1>1 DEF Lit
  <1>3. Shows => Shows'
    BY <1>1, <1>2 DEF Shows
  <1> QED BY <1>1, <1>3 DEF ShownInv, InUse

\* Steps that turn the panel off.
LEMMA OffShown ==
    ASSUME ShownInv, TurnOff, display_active' = FALSE, ret' = ret, InUse, InUse'
    PROVE  ShownInv'
  <1>1. /\ ChipOK(chip) /\ fb \in Picture /\ (ret = "ok" => Ready(chip))
        /\ showing \in BOOLEAN
    BY DEF ShownInv
  <1>2. /\ ChipOK(chip') /\ fb' = fb /\ showing' = showing
        /\ Ready(chip) => Ready(chip') /\ ~Lit'
    BY <1>1, TurnOffIs
  <1> QED BY <1>1, <1>2 DEF ShownInv, Shows, InUse

\* Steps that light the panel, blank or after that a sensor failed.
LEMMA LitShown ==
    ASSUME ShownInv, NEW picture \in Picture, DrawOn(picture),
           ret' = ret, InUse, InUse',
           picture = "blank" \/ pc' \in {"next", "end"}
    PROVE  ShownInv'
  <1>1. /\ ChipOK(chip) /\ fb \in Picture /\ (ret = "ok" => Ready(chip))
    BY DEF ShownInv
  <1>2. /\ ChipOK(chip') /\ fb' = picture /\ showing' = (picture = "blank")
        /\ Ready(chip) => Ready(chip') /\ chip'.ram = picture /\ Lit'
    BY <1>1, DrawOnIs
  <1> QED BY <1>1, <1>2 DEF ShownInv, Shows, InUse

\* Steps that draw another picture.
LEMMA DrawnShown ==
    ASSUME ShownInv, NEW picture \in Picture \ {"blank", "garbled"}, Draw(picture),
           ret' = ret, InUse, InUse', display_active' = display_active,
           (display_active' /\ pc' \notin {"next", "end"}) =>
               picture \in {"id", Screen(display_screen', 0)}
    PROVE  ShownInv'
  <1>1. /\ ChipOK(chip) /\ fb \in Picture /\ (ret = "ok" => Ready(chip))
        /\ ret = "ok" => (display_active => Lit)
    BY DEF ShownInv, Shows, InUse
  <1>2. /\ ChipOK(chip') /\ fb' = picture /\ showing' = FALSE
        /\ Ready(chip) => Ready(chip') /\ chip'.ram = picture /\ (Lit' <=> Lit)
    BY <1>1, DrawIs
  <1> QED BY <1>1, <1>2 DEF ShownInv, Shows, InUse

\* The screen or the new id that comes after the panel was turned on.
LEMMA UpdateShown ==
    ASSUME ShownInv, UpdateDisplay, display_screen \in 0 .. 2
    PROVE  ShownInv'
  <1>1. /\ showing /\ pc' = pc /\ ret' = ret /\ display_active' = display_active
        /\ display_screen' = display_screen /\ Draw(Screen(display_screen, id_left))
    BY DEF UpdateDisplay, screens, modes
  <1>2. InUse /\ InUse'
    BY <1>1 DEF InUse, ShownInv
  <1>3. PICK picture : picture = Screen(display_screen, id_left)
    OBVIOUS
  <1>4. /\ picture \in Picture \ {"blank", "garbled"}
        /\ picture \in {"id", Screen(display_screen', 0)}
    BY <1>1, <1>3, ScreenIs
  <1> QED BY <1>1, <1>2, <1>3, <1>4, DrawnShown

\* An upload: the panel is turned on for a new id, or the display stays.
LEMMA UploadedShown ==
    ASSUME ShownInv, NEW d, Uploaded(d), UNCHANGED screens, ret' = ret, InUse, InUse',
           pc \in {"next", "end"} => pc' \in {"next", "end"}
    PROVE  ShownInv'
  <1>1. DrawOn("blank") \/ UNCHANGED display
    BY DEF Uploaded
  <1>2. CASE DrawOn("blank")
    <2>1. "blank" \in Picture
      BY PictureIs
    <2> QED BY <1>2, <2>1, LitShown
  <1>3. CASE UNCHANGED display
    BY <1>3, SameShown
  <1> QED BY <1>1, <1>2, <1>3

\* The top of a turn: the display goes off, shows the next screen, or stays.
LEMMA TopShown ==
    ASSUME ShownInv, Top, display_screen' \in 0 .. 2
    PROVE  ShownInv'
  <1>1. pc = "top" /\ pc' \in {"work", "cycle"} /\ ret' = ret
    BY DEF Top, modes
  <1>2. InUse /\ InUse'
    BY <1>1 DEF InUse
  <1>3. \/ TurnOff /\ display_active' = FALSE
        \/ Draw(Screen(display_screen', id_left)) /\ display_active' = display_active
        \/ UNCHANGED display /\ UNCHANGED screens
    BY DEF Top
  <1>4. CASE TurnOff /\ display_active' = FALSE
    BY <1>1, <1>2, <1>4, OffShown
  <1>5. CASE Draw(Screen(display_screen', id_left)) /\ display_active' = display_active
    <2>1. PICK picture : picture = Screen(display_screen', id_left)
      OBVIOUS
    <2>2. /\ picture \in Picture \ {"blank", "garbled"}
          /\ picture \in {"id", Screen(display_screen', 0)}
      BY <2>1, ScreenIs
    <2>3. Draw(picture)
      BY <1>5, <2>1
    <2> QED BY <1>1, <1>2, <1>5, <2>2, <2>3, DrawnShown
  <1>6. CASE UNCHANGED display /\ UNCHANGED screens
    BY <1>1, <1>2, <1>6, SameShown
  <1> QED BY <1>3, <1>4, <1>5, <1>6

\* Woken by the button: the panel is lit, for the first screen or because a sensor
\* failed.
LEMMA ButtonCycleShown ==
    ASSUME ShownInv, ButtonCycle
    PROVE  ShownInv'
  <1>1. pc = "cycle" /\ pc' \in {"upload", "end"} /\ ret' = ret
    BY DEF ButtonCycle, modes
  <1>2. InUse /\ InUse'
    BY <1>1 DEF InUse
  <1>3. DrawOn("blank") \/ (pc' = "end" /\ DrawOn("error"))
    BY DEF ButtonCycle, Lights
  <1>4. {"blank", "error"} \subseteq Picture
    BY PictureIs
  <1> QED BY <1>1, <1>2, <1>3, <1>4, LitShown

\* The upload of that cycle.
LEMMA CycleUploadShown ==
    ASSUME ShownInv, CycleUpload
    PROVE  ShownInv'
  <1>1. PICK d : Uploaded(SCREEN_INTERVAL + d)
    BY DEF CycleUpload
  <1>2. pc = "upload" /\ pc' = "next" /\ ret' = ret /\ UNCHANGED screens
    BY DEF CycleUpload, modes
  <1> QED BY <1>1, <1>2, UploadedShown DEF InUse

\* The upload of a cycle that the timer began.
LEMMA TimerCycleShown ==
    ASSUME ShownInv, TimerCycle
    PROVE  ShownInv'
  <1>1. PICK d : Uploaded(d)
    BY DEF TimerCycle
  <1>2. pc = "cycle" /\ pc' = "nap" /\ ret' = ret /\ UNCHANGED screens
    BY DEF TimerCycle, modes
  <1> QED BY <1>1, <1>2, UploadedShown DEF InUse

\* The upload of a turn.
LEMMA SyncShown ==
    ASSUME ShownInv, Sync
    PROVE  ShownInv'
  <1>1. pc = "sync" /\ pc' = "press" /\ ret' = ret /\ UNCHANGED screens
    BY DEF Sync, modes
  <1>2. (\E d : Uploaded(d)) \/ UNCHANGED display
    BY DEF Sync
  <1>3. CASE \E d : Uploaded(d)
    <2>1. PICK d : Uploaded(d)
      BY <1>3
    <2> QED BY <1>1, <2>1, UploadedShown DEF InUse
  <1>4. CASE UNCHANGED display
    BY <1>1, <1>4, SameShown DEF InUse
  <1> QED BY <1>2, <1>3, <1>4

\* The next screen of a cycle.
LEMMA CycleNextShown ==
    ASSUME ShownInv, CycleNext
    PROVE  ShownInv'
  <1>1. /\ pc = "next" /\ pc' = "end" /\ ret' = ret /\ display_active' = display_active
        /\ Draw(Screen(1, id_left))
    BY DEF CycleNext, modes
  <1>2. PICK picture : picture = Screen(1, id_left)
    OBVIOUS
  <1>3. picture \in Picture \ {"blank", "garbled"}
    <2>1. 1 \in 0 .. 2
      OBVIOUS
    <2> QED BY <1>2, <2>1, ScreenIs
  <1> QED BY <1>1, <1>2, <1>3, DrawnShown DEF InUse

\* What is measured is shown while the display is on.
LEMMA MeasureShown ==
    ASSUME ShownInv, Measure, display_screen \in 0 .. 2
    PROVE  ShownInv'
  <1>1. pc = "work" /\ pc' = "sync" /\ ret' = ret /\ UNCHANGED screens
    BY DEF Measure, modes
  <1>2. Draw(Screen(display_screen, id_left)) \/ UNCHANGED display
    BY DEF Measure
  <1>3. CASE Draw(Screen(display_screen, id_left))
    <2>1. PICK picture : picture = Screen(display_screen, id_left)
      OBVIOUS
    <2>2. display_active' = display_active /\ display_screen' = display_screen
      BY <1>1 DEF screens
    <2>3. /\ picture \in Picture \ {"blank", "garbled"}
          /\ picture \in {"id", Screen(display_screen', 0)}
      BY <2>1, <2>2, ScreenIs
    <2> QED BY <1>1, <1>3, <2>1, <2>2, <2>3, DrawnShown DEF InUse
  <1>4. CASE UNCHANGED display
    BY <1>1, <1>4, SameShown DEF InUse
  <1> QED BY <1>2, <1>3, <1>4

\* A press lights the panel, unless the display is on.
LEMMA PressShown ==
    ASSUME ShownInv, Press
    PROVE  ShownInv'
  <1>1. pc = "press" /\ pc' = "sleep" /\ ret' = ret
    BY DEF Press, modes
  <1>2. InUse /\ InUse'
    BY <1>1 DEF InUse
  <1>3. DrawOn("blank") \/ (UNCHANGED display /\ UNCHANGED screens)
    BY DEF Press, Lights
  <1>4. CASE DrawOn("blank")
    <2>1. "blank" \in Picture
      BY PictureIs
    <2> QED BY <1>1, <1>2, <1>4, <2>1, LitShown
  <1>5. CASE UNCHANGED display /\ UNCHANGED screens
    BY <1>1, <1>2, <1>5, SameShown
  <1> QED BY <1>3, <1>4, <1>5

\* A cycle ends in the dark.
LEMMA CycleEndShown ==
    ASSUME ShownInv, CycleEnd
    PROVE  ShownInv'
  <1>1. /\ pc = "end" /\ pc' = "nap" /\ ret' = ret /\ display_active' = FALSE /\ TurnOff
    BY DEF CycleEnd, modes
  <1> QED BY <1>1, OffShown DEF InUse

\* The sleeps, and the user, leave the display alone.
LEMMA SleepShown ==
    ASSUME ShownInv, Nap \/ StayAwake \/ GoToSleep \/ Wake \/ Button
    PROVE  ShownInv'
  <1>1. UNCHANGED display /\ UNCHANGED screens /\ ret' = ret
    BY DEF Nap, StayAwake, GoToSleep, Wake, Button, modes
  <1>2. \/ pc' = pc
        \/ pc \in {"nap", "sleep", "asleep"} /\ pc' \in {"top", "asleep"}
    BY DEF Nap, StayAwake, GoToSleep, Wake, Button
  <1> QED BY <1>1, <1>2, SameShown DEF InUse

\* No step of the system makes the panel show anything else.
LEMMA StepShown ==
    ASSUME LoopInv, LoopInv', ShownInv, [Next]_vars
    PROVE  ShownInv'
  <1>1. display_screen \in 0 .. 2 /\ display_screen' \in 0 .. 2
    BY DEF LoopInv, LoopTypeOK
  <1>2. CASE UNCHANGED vars
    <2>1. UNCHANGED display /\ UNCHANGED screens /\ ret' = ret /\ pc' = pc
      BY <1>2 DEF vars, modes
    <2> QED BY <2>1, SameShown
  <1>3. CASE UpdateDisplay
    BY <1>1, <1>3, UpdateShown
  <1>4. CASE Step \/ Button
    BY <1>1, <1>4, DisplayInitShown, ShowReadyShown, StartShown, TopShown,
       ButtonCycleShown, CycleUploadShown, CycleNextShown, CycleEndShown, TimerCycleShown,
       MeasureShown, SyncShown, PressShown, SleepShown DEF Step
  <1> QED BY <1>2, <1>3, <1>4 DEF Next, Task

\* The panel shows what it should, for every size of panel, every time and every
\* bound on uploads and sleeps.
THEOREM PanelShown == Spec => []Shown
  <1>1. Init => ShownInv
    BY InitShown
  <1>2. LoopInv /\ LoopInv' /\ ShownInv /\ [Next]_vars => ShownInv'
    BY StepShown
  <1>3. ShownInv => Shown
    BY ShownInvIs
  <1> QED BY <1>1, <1>2, <1>3, LoopHolds, PTL DEF Spec

\* Every variable keeps its type.
THEOREM PanelTypeOK == Spec => []TypeOK
  <1>1. Init => ShownInv
    BY InitShown
  <1>2. LoopInv /\ LoopInv' /\ ShownInv /\ [Next]_vars => ShownInv'
    BY StepShown
  <1>3. LoopInv /\ ShownInv => TypeOK
    BY ShownTypes, Types DEF LoopInv
  <1> QED BY <1>1, <1>2, <1>3, LoopHolds, PTL DEF Spec

=============================================================================
