---------------------------- MODULE WifiManager ----------------------------
(***************************************************************************)
(* Staying on the network: components/wifi/wifi_manager.c between the      *)
(* driver, whose events a system task hands to wifi_event_handler, the     *)
(* retry task that waits and reconnects, and the main task that starts and *)
(* stops the radio (the logger does, around every sleep).                  *)
(*                                                                         *)
(* The three tasks share plain variables.  The event task has the highest  *)
(* priority on the single core: the handler is one step unless it blocks   *)
(* in a scan, while the retry task and the main task can be interrupted    *)
(* between any two accesses.                                               *)
(***************************************************************************)
EXTENDS Integers, Sequences, SequencesExt

CONSTANTS
    NetworkCount,   \* configured networks, in dual mode 2
    MaxRssi,        \* bound: signal levels; 0 is out of reach
    FailoverDelay,  \* seconds before reconnecting after a switch (5)
    RetryDelay,     \* seconds after a lost or missing network (60)
    AuthDelay,      \* seconds after a refused password (3600)
    MaxChanges,     \* bound: changes of the air and glitches of the driver
    MaxRestarts     \* bound: stops of the radio

Network == 0 .. NetworkCount - 1
FAILOVER_THRESHOLD == 2

ASSUME WifiAssumption ==
    /\ NetworkCount \in Nat /\ NetworkCount > 1
    /\ MaxRssi \in Nat
    /\ {FailoverDelay, RetryDelay, AuthDelay} \subseteq Nat \ {0}
    /\ MaxChanges \in Nat /\ MaxRestarts \in Nat

VARIABLES
    s_network_count, s_active_idx,
    failures,                   \* consecutive_failures of each network
    s_connected,
    s_retry_delay_sec,          \* the delay the last disconnect asks for
    s_retry_pending, s_retry_delay_pending_sec, s_retry_switch_network,
    notified,                   \* the retry task's notification
    handler,                    \* idle, or blocked in a scan
    task, switched, delay_sec, waited,  \* the retry task and its locals
    main,                       \* where the main task is in bringing WiFi up
    radio, config, target,      \* the driver: state, SSID set, SSID tried
    events,                     \* events the driver has posted
    rssi, good,                 \* signal of each network, right passwords
    changes, restarts

status  == <<s_network_count, s_active_idx, failures, s_connected,
             s_retry_delay_sec>>
request == <<s_retry_pending, s_retry_delay_pending_sec, s_retry_switch_network,
             notified>>
retry   == <<task, switched, delay_sec, waited>>
driver  == <<radio, config, target>>
air     == <<rssi, good>>
bounds  == <<changes, restarts>>
wifiVars == <<status, request, handler, retry, main, driver, events, air, bounds>>

Delay == {FailoverDelay, RetryDelay, AuthDelay}

WifiTypeOK ==
    /\ s_network_count \in {0, NetworkCount} /\ s_active_idx \in Network
    /\ failures \in [Network -> 0 .. FAILOVER_THRESHOLD - 1]
    /\ s_connected \in BOOLEAN
    /\ s_retry_delay_sec \in Delay
    /\ s_retry_pending \in BOOLEAN /\ s_retry_switch_network \in BOOLEAN
    /\ s_retry_delay_pending_sec \in Delay \union {0}
    /\ notified \in BOOLEAN
    /\ handler \in {"idle", "scan"}
    /\ task \in {"take", "switch", "delay", "pending", "clear_switch",
                 "clear_delay", "wait", "done", "apply", "connect"}
    /\ switched \in BOOLEAN /\ delay_sec \in Delay \union {0} /\ waited \in Nat
    /\ main \in {"off", "reset", "stored", "scanned", "applied", "on"}
    /\ radio \in {"stopped", "idle", "connecting", "connected"}
    /\ config \in Network /\ target \in Network
    /\ events \in Seq({"start", "got_ip", "lost", "auth"})
    /\ rssi \in [Network -> 0 .. MaxRssi] /\ good \subseteq Network
    /\ changes \in 0 .. MaxChanges /\ restarts \in 0 .. MaxRestarts

WifiInit ==
    /\ s_network_count = 0 /\ s_active_idx = 0
    /\ failures = [n \in Network |-> 0]
    /\ s_connected = FALSE /\ s_retry_delay_sec = RetryDelay
    /\ s_retry_pending = FALSE /\ s_retry_delay_pending_sec = 0
    /\ s_retry_switch_network = FALSE /\ notified = FALSE
    /\ handler = "idle"
    /\ task = "take" /\ switched = FALSE /\ delay_sec = 0 /\ waited = 0
    /\ main = "off"
    /\ radio = "stopped" /\ config = 0 /\ target = 0
    /\ events = <<>>
    /\ rssi \in [Network -> 0 .. MaxRssi] /\ good \in SUBSET Network
    /\ changes = 0 /\ restarts = 0

-----------------------------------------------------------------------------
\* The driver, as far as the manager sees it.

\* esp_wifi_connect: refused unless the radio is started and has nothing to
\* do; the SSID is the one set at that time.
Connect(ssid) ==
    IF radio = "idle" THEN radio' = "connecting" /\ target' = ssid
                      ELSE UNCHANGED <<radio, target>>

Post(e) == events' = Append(events, e)

Visible == {n \in Network : n < s_network_count /\ rssi[n] > 0}

\* scan_and_select_best: the strongest configured network, the first of equals.
Best == CHOOSE n \in Visible :
            \A m \in Visible : rssi[n] > rssi[m] \/ (rssi[n] = rssi[m] /\ n <= m)

\* Mutant: the 0 of a network that was not seen counts as a strong signal.
MutSelected == IF Visible = Network THEN Best
               ELSE CHOOSE n \in Network : n \notin Visible

Selected == IF Visible = {} THEN s_active_idx ELSE Best

\* An attempt to join ends.
Joined ==
    /\ radio = "connecting"
    /\ rssi[target] > 0 /\ target \in good
    /\ radio' = "connected" /\ Post("got_ip")
    /\ UNCHANGED <<status, request, handler, retry, main, config, target, air,
                   bounds>>

NotJoined ==
    /\ radio = "connecting"
    /\ \/ rssi[target] = 0 /\ Post("lost")
       \/ rssi[target] > 0 /\ target \notin good /\ Post("auth")
    /\ radio' = "idle"
    /\ UNCHANGED <<status, request, handler, retry, main, config, target, air,
                   bounds>>

\* A network that is gone is noticed.
LinkLost ==
    /\ radio = "connected" /\ rssi[target] = 0
    /\ radio' = "idle" /\ Post("lost")
    /\ UNCHANGED <<status, request, handler, retry, main, config, target, air,
                   bounds>>

\* An attempt or a connection fails for no lasting reason.
Glitch ==
    /\ radio \in {"connecting", "connected"} /\ changes < MaxChanges
    /\ changes' = changes + 1
    /\ radio' = "idle" /\ Post("lost")
    /\ UNCHANGED <<status, request, handler, retry, main, config, target, air,
                   restarts>>

AirChanges ==
    /\ changes < MaxChanges /\ changes' = changes + 1
    /\ \E n \in Network, level \in 0 .. MaxRssi :
           rssi' = [rssi EXCEPT ![n] = level]
    /\ UNCHANGED <<good, status, request, handler, retry, main, driver, events,
                   restarts>>

-----------------------------------------------------------------------------
\* wifi_event_handler.

Handles(e) ==
    /\ handler = "idle" /\ events # <<>> /\ Head(events) = e
    /\ events' = Tail(events)

\* WIFI_EVENT_STA_START: apply_active_config and connect.
HandleStart ==
    /\ Handles("start")
    /\ config' = IF s_network_count > 0 THEN s_active_idx ELSE config
    /\ Connect(config')
    /\ UNCHANGED <<status, request, handler, retry, main, air, bounds>>

HandleGotIp ==
    /\ Handles("got_ip")
    /\ s_connected' = TRUE
    /\ failures' = IF s_network_count > 0
                   THEN [failures EXCEPT ![s_active_idx] = 0] ELSE failures
    /\ UNCHANGED <<s_network_count, s_active_idx, s_retry_delay_sec, request,
                   handler, retry, main, driver, air, bounds>>

\* The request to the retry task.
Request(sw) ==
    /\ s_retry_delay_pending_sec' = IF sw THEN FailoverDelay
                                          ELSE s_retry_delay_sec'
    /\ s_retry_switch_network' = sw
    /\ s_retry_pending' = TRUE
    /\ notified' = TRUE

\* WIFI_EVENT_STA_DISCONNECTED, reason e: the count of failures after it.
FailuresAfter(e) ==
    IF s_network_count = 0 THEN failures[s_active_idx]
    ELSE IF e = "auth" THEN 0 ELSE failures[s_active_idx] + 1

\* Mutant: one failure more before the networks are scanned.
MutFailoverDue(e) ==
    s_network_count > 1 /\ FailuresAfter(e) > FAILOVER_THRESHOLD

FailoverDue(e) ==
    s_network_count > 1 /\ FailuresAfter(e) >= FAILOVER_THRESHOLD

\* Mutant: the flag stays until the next connection.
MutConnectedAfter(e) == s_connected

ConnectedAfter(e) == FALSE

HandleDisconnected(e) ==
    /\ Handles(e)
    /\ s_connected' = ConnectedAfter(e)
    /\ s_retry_delay_sec' = IF e = "auth" THEN AuthDelay ELSE RetryDelay
    /\ \/ /\ FailoverDue(e)
          /\ failures' = [failures EXCEPT ![s_active_idx] = 0]
          /\ handler' = "scan"
          /\ UNCHANGED request
       \/ /\ ~FailoverDue(e)
          /\ failures' = [failures EXCEPT ![s_active_idx] = FailuresAfter(e)]
          /\ Request(FALSE)
          /\ UNCHANGED handler
    /\ UNCHANGED <<s_network_count, s_active_idx, retry, main, driver, air, bounds>>

\* The scan of the handler returns; it fails when the radio is busy or off.
HandleScanned ==
    /\ handler = "scan" /\ handler' = "idle"
    /\ \/ radio # "stopped" /\ s_active_idx' = Selected
       \/ radio # "idle" /\ UNCHANGED s_active_idx
    /\ failures' = IF s_active_idx' # s_active_idx
                   THEN [failures EXCEPT ![s_active_idx'] = 0] ELSE failures
    /\ s_retry_delay_sec' = s_retry_delay_sec
    /\ Request(s_active_idx' # s_active_idx)
    /\ UNCHANGED <<s_network_count, s_connected, retry, main, driver, events,
                   air, bounds>>

Handler == \/ HandleStart \/ HandleGotIp \/ HandleScanned
           \/ \E e \in {"lost", "auth"} : HandleDisconnected(e)

-----------------------------------------------------------------------------
\* wifi_retry_task.

RetryKeeps == UNCHANGED <<status, handler, main, events, air, bounds>>

RetryTake ==
    /\ task = "take" /\ notified
    /\ notified' = FALSE
    /\ task' = IF s_retry_pending THEN "switch" ELSE "take"
    /\ UNCHANGED <<switched, delay_sec, waited, s_retry_pending, driver,
                   s_retry_delay_pending_sec, s_retry_switch_network>>
    /\ RetryKeeps

\* The request is copied, then cleared, one variable after the other.
RetryCopy ==
    /\ \/ /\ task = "switch" /\ task' = "delay"
          /\ switched' = s_retry_switch_network /\ UNCHANGED delay_sec
       \/ /\ task = "delay" /\ task' = "pending"
          /\ delay_sec' = s_retry_delay_pending_sec /\ UNCHANGED switched
    /\ UNCHANGED <<waited, request, driver>>
    /\ RetryKeeps

RetryClear ==
    /\ \/ /\ task = "pending" /\ task' = "clear_switch"
          /\ s_retry_pending' = FALSE
          /\ UNCHANGED <<s_retry_switch_network, s_retry_delay_pending_sec>>
       \/ /\ task = "clear_switch" /\ task' = "clear_delay"
          /\ s_retry_switch_network' = FALSE
          /\ UNCHANGED <<s_retry_pending, s_retry_delay_pending_sec>>
       \/ /\ task = "clear_delay" /\ task' = "wait"
          /\ s_retry_delay_pending_sec' = 0
          /\ UNCHANGED <<s_retry_pending, s_retry_switch_network>>
    /\ waited' = 0
    /\ UNCHANGED <<switched, delay_sec, notified, driver>>
    /\ RetryKeeps

\* One second of the wait, which is left early unless a request is pending.
RetryWait ==
    /\ task = "wait"
    /\ waited' = IF waited < delay_sec THEN waited + 1 ELSE waited
    /\ task' = IF waited < delay_sec /\ s_retry_pending THEN "wait" ELSE "done"
    /\ UNCHANGED <<switched, delay_sec, request, driver>>
    /\ RetryKeeps

\* Mutant: a request that arrived during the wait is dropped.
MutRetryDone ==
    /\ task = "done"
    /\ task' = IF s_retry_pending THEN "take"
               ELSE IF switched THEN "apply" ELSE "connect"
    /\ s_retry_pending' = FALSE
    /\ UNCHANGED <<switched, delay_sec, waited, s_retry_delay_pending_sec,
                   s_retry_switch_network, notified, driver>>
    /\ RetryKeeps

RetryDone ==
    /\ task = "done"
    /\ task' = IF s_retry_pending THEN "take"
               ELSE IF switched THEN "apply" ELSE "connect"
    /\ UNCHANGED <<switched, delay_sec, waited, request, driver>>
    /\ RetryKeeps

\* Mutant: the switch is not applied.
MutApplied == config

Applied == IF s_network_count > 0 THEN s_active_idx ELSE config

RetryApply ==
    /\ task = "apply" /\ task' = "connect"
    /\ config' = Applied
    /\ UNCHANGED <<switched, delay_sec, waited, request, radio, target>>
    /\ RetryKeeps

RetryConnect ==
    /\ task = "connect" /\ task' = "take"
    /\ Connect(config)
    /\ UNCHANGED <<switched, delay_sec, waited, request, config>>
    /\ RetryKeeps

Retry == \/ RetryTake \/ RetryCopy \/ RetryClear \/ RetryWait
         \/ RetryDone \/ RetryApply \/ RetryConnect

-----------------------------------------------------------------------------
\* The main task: wifi_manager_init_sta_dual, and the logger's esp_wifi_stop.

InitReset ==
    /\ main = "off" /\ main' = "reset"
    /\ failures' = [n \in Network |-> 0]
    /\ s_network_count' = 0 /\ s_active_idx' = 0 /\ s_connected' = FALSE
    /\ UNCHANGED <<s_retry_delay_sec, request, handler, retry, driver, events,
                   air, bounds>>

InitStore ==
    /\ main = "reset" /\ main' = "stored"
    /\ s_network_count' = NetworkCount
    /\ failures' = [n \in Network |-> 0]
    /\ UNCHANGED <<s_active_idx, s_connected, s_retry_delay_sec, request,
                   handler, retry, driver, events, air, bounds>>

\* Whether a scan works before esp_wifi_start is up to the driver.
InitScan ==
    /\ main = "stored" /\ main' = "scanned"
    /\ s_active_idx' \in {s_active_idx, Selected}
    /\ failures' = IF s_active_idx' # s_active_idx
                   THEN [failures EXCEPT ![s_active_idx'] = 0] ELSE failures
    /\ UNCHANGED <<s_network_count, s_connected, s_retry_delay_sec, request,
                   handler, retry, driver, events, air, bounds>>

InitApply ==
    /\ main = "scanned" /\ main' = "applied"
    /\ config' = s_active_idx
    /\ UNCHANGED <<status, request, handler, retry, radio, target, events, air,
                   bounds>>

InitStart ==
    /\ main = "applied" /\ main' = "on"
    /\ radio' = "idle" /\ Post("start")
    /\ UNCHANGED <<status, request, handler, retry, config, target, air, bounds>>

InitStaDual == InitReset \/ InitStore \/ InitScan \/ InitApply \/ InitStart

\* esp_wifi_stop: leaving a network is an event, giving up an attempt may be.
Stop ==
    /\ main = "on" /\ restarts < MaxRestarts
    /\ main' = "off" /\ restarts' = restarts + 1
    /\ radio' = "stopped"
    /\ \/ radio \in {"connecting", "connected"} /\ Post("lost")
       \/ radio # "connected" /\ UNCHANGED events
    /\ UNCHANGED <<status, request, handler, retry, config, target, air, changes>>

Driver == Joined \/ NotJoined \/ LinkLost

WifiNext == Driver \/ Glitch \/ AirChanges \/ Handler \/ Retry \/ InitStaDual \/ Stop

WifiSpec == WifiInit /\ [][WifiNext]_wifiVars

-----------------------------------------------------------------------------
Quiet == events = <<>> /\ handler = "idle"

\* wifi_manager_is_connected, which everybody asks, is right as soon as the
\* events are handled, however stops, resets of the flag and events interleave.
StatusSettles == Quiet => (s_connected <=> radio = "connected")

\* A started radio that is neither connected nor connecting is on somebody's
\* agenda: an event will be handled, or the retry task has a request left or
\* will connect, although requests are overwritten and cleared unguarded.
NoStall ==
    main = "on" /\ radio = "idle" =>
        ~Quiet \/ task # "take" \/ (notified /\ s_retry_pending)

\* While the radio is left on, as on the server, the network it tries or is on
\* is the active one, which is shown to the user and blamed for failures: the
\* tasks that pass a switch on through shared flags do not lose it.
ActiveTried ==
    restarts = 0 /\ radio \in {"connecting", "connected"}
                 /\ ~Contains(events, "start")
        => target = s_active_idx

\* Every task goes on; the driver ends every attempt and notices lost links.
WifiFairSpec ==
    /\ WifiSpec
    /\ WF_wifiVars(Handler) /\ WF_wifiVars(Retry) /\ WF_wifiVars(InitStaDual)
    /\ WF_wifiVars(Driver)

Reachable == {n \in Network : rssi[n] > 0}

\* A station that leaves its radio on ends up connected when the air settles
\* with a network in reach and none in reach refuses the password.
EventuallyConnected ==
    <>[](restarts = 0 /\ Reachable # {} /\ Reachable \subseteq good)
        => <>[]s_connected
=============================================================================
