----------------------------- MODULE LoggerTask -----------------------------
(***************************************************************************)
(* A logger's day: client_task of apps/client/main/main.c with the         *)
(* discovery and the address of wifi_sync.c, the button, and the server's  *)
(* responder, udp_discovery_task of apps/server/main/main.c.               *)
(*                                                                         *)
(* The loop measures, uploads and sleeps.  A tick of the model is the      *)
(* shortest turn of the loop; the tick counter of a turn is read at its    *)
(* top only.  A time that the loop remembers is kept as its age at that    *)
(* moment, up to the interval it is compared with.                         *)
(***************************************************************************)
EXTENDS Integers, FiniteSetsExt

CONSTANTS
    Address,                  \* addresses the server may have
    NoAddress,                \* not an address
    SERVER_IP,                \* the configured fallback, NoAddress if none
    SENSOR_READ_INTERVAL, RETRY_INTERVAL, SyncInterval,
    DISCOVER_TIMEOUT,
    DISPLAY_ON,               \* how long a press lights the display
    POLLS,                    \* short first sleeps
    MaxAwake                  \* bound: the longest turn without its sleep

ASSUME LoggerAssumption ==
    /\ NoAddress \notin Address
    /\ SERVER_IP \in Address \union {NoAddress}
    /\ \A n \in {SENSOR_READ_INTERVAL, RETRY_INTERVAL, SyncInterval,
                 DISCOVER_TIMEOUT, DISPLAY_ON, MaxAwake} : n \in Nat \ {0}
    /\ POLLS \in Nat

VARIABLES
    pc,                       \* where the task is in its turn
    state, s_wifi_initialized, upload_failures, initial_polls_remaining,
    woke,                     \* woke_by_button, woke_by_timer or neither
    since_read,               \* since last_sensor_read
    since,                    \* since the time that the state waits on
    display,                  \* until display_on_until, 0 when off
    planned,                  \* the sleep under way, s_planned_sleep_ms
    s_ip_resolved, s_server_ip,
    radio, online,            \* the radio is started; wifi_manager_is_connected
    unstopped,                \* history: it was to stop in this turn, and has not
    air, held,                \* the network is in reach; the button is down
    ip,                       \* the server's address, NoAddress while it is off
    responder, server_ip,     \* udp_discovery_task and its copy of the address
    ticks_run,                \* the tick counter goes on in light sleep
    gap                       \* history: time since a record was measured

task    == <<pc, state, s_wifi_initialized, upload_failures,
             initial_polls_remaining, woke>>
times   == <<since_read, since, display, planned, gap>>
address == <<s_ip_resolved, s_server_ip>>
wifi    == <<radio, online, unstopped>>
world   == <<air, held, ticks_run>>
server  == <<ip, responder, server_ip>>
vars == <<task, times, address, wifi, world, server>>

\* The interval that the state compares since with.
Wait == CASE state = "DISCOVERING" -> DISCOVER_TIMEOUT
          [] state = "CONNECTED"   -> SyncInterval
          [] state = "AUTONOMOUS"  -> RETRY_INTERVAL

LongestGap == 2 * SENSOR_READ_INTERVAL + MaxAwake

TypeOK ==
    /\ pc \in {"top", "state", "connect", "discover", "ensure", "first",
               "upload", "rest", "nap", "plan", "sleep"}
    /\ state \in {"DISCOVERING", "CONNECTED", "AUTONOMOUS"}
    /\ s_wifi_initialized \in BOOLEAN
    /\ upload_failures \in 0 .. 2 /\ initial_polls_remaining \in 0 .. POLLS
    /\ woke \in {"no", "button", "timer"}
    /\ since_read \in 0 .. SENSOR_READ_INTERVAL /\ since \in 0 .. Wait
    /\ display \in 0 .. DISPLAY_ON /\ planned \in 0 .. SENSOR_READ_INTERVAL
    /\ s_ip_resolved \in BOOLEAN /\ s_server_ip \in Address \union {NoAddress}
    /\ radio \in BOOLEAN /\ online \in BOOLEAN /\ unstopped \in BOOLEAN
    /\ air \in BOOLEAN /\ held \in BOOLEAN /\ ticks_run \in BOOLEAN
    /\ ip \in Address \union {NoAddress}
    /\ responder \in {"wait", "listen", "replied"}
    /\ server_ip \in Address \union {NoAddress}
    /\ gap \in 0 .. LongestGap + 1

Init ==
    /\ pc = "top"
    /\ state = "DISCOVERING" /\ s_wifi_initialized = FALSE
    /\ upload_failures = 0 /\ initial_polls_remaining = POLLS /\ woke = "no"
    /\ since_read = 0 /\ since = 0 /\ display = 0 /\ planned = 0 /\ gap = 0
    /\ s_ip_resolved = (SERVER_IP # NoAddress) /\ s_server_ip = SERVER_IP
    /\ radio = FALSE /\ online = FALSE /\ unstopped = FALSE
    /\ air \in BOOLEAN /\ held \in BOOLEAN /\ ticks_run \in BOOLEAN
    /\ ip = NoAddress /\ responder = "wait" /\ server_ip = NoAddress

-----------------------------------------------------------------------------
\* A turn ends: awake ticks were spent in it and slept ticks in its sleep,
\* which the tick counter may have missed.
Elapse(lit, awake, slept) ==
    LET ticks == awake + (IF ticks_run THEN slept ELSE 0) IN
    /\ since_read' = Min({since_read + ticks, SENSOR_READ_INTERVAL})
    /\ since' = Min({since + ticks, Wait})
    /\ display' = IF lit > ticks THEN lit - ticks ELSE 0
    /\ gap' = Min({gap + awake + slept, LongestGap + 1})

\* read_sensors_and_store: a record is stored, whatever the sensors said.
Measured == since_read' = 0 /\ gap' = 0

\* client_bootstrap_wifi: whether the connection of before is still good.
StillUp == s_wifi_initialized /\ online /\ s_ip_resolved

\* The radio is started, or is on already.
Start == radio' = TRUE /\ unstopped' = FALSE /\ UNCHANGED online

\* The top of a turn after a wake-up: measure, then upload.
WakeCycle ==
    /\ pc = "top" /\ woke # "no"
    /\ Measured
    /\ IF StillUp
       THEN pc' = "upload" /\ UNCHANGED <<s_ip_resolved, wifi>>
       ELSE pc' = "connect" /\ s_ip_resolved' = FALSE /\ Start
    /\ UNCHANGED <<state, s_wifi_initialized, upload_failures, woke, since,
                   initial_polls_remaining, display, planned, s_server_ip,
                   world, server>>

\* After a press an error of the sensors is shown, and nothing is uploaded.
SensorError ==
    /\ pc = "top" /\ woke = "button"
    /\ Measured
    /\ pc' = "rest"
    /\ UNCHANGED <<state, s_wifi_initialized, upload_failures, woke, since,
                   initial_polls_remaining, display, planned, address,
                   wifi, world, server>>

\* The top of any other turn.
Turn ==
    /\ pc = "top" /\ woke = "no" /\ pc' = "state"
    /\ IF since_read = SENSOR_READ_INTERVAL THEN Measured
                                            ELSE UNCHANGED <<since_read, gap>>
    /\ UNCHANGED <<state, s_wifi_initialized, upload_failures, woke,
                   initial_polls_remaining, since, display, planned, address,
                   wifi, world, server>>

-----------------------------------------------------------------------------
\* The switch on the state.

\* DISCOVERING: wifi_sync_connect_to_server for the first time.
StartDiscovery ==
    /\ pc = "state" /\ state = "DISCOVERING" /\ ~s_wifi_initialized
    /\ s_wifi_initialized' = TRUE
    /\ s_ip_resolved' = FALSE /\ Start
    /\ pc' = "connect"
    /\ UNCHANGED <<state, upload_failures, initial_polls_remaining, woke, times,
                   s_server_ip, world, server>>

\* Mutant: the radio is left on.
MutGiveUp ==
    /\ state' = "AUTONOMOUS" /\ since' = 0
    /\ s_wifi_initialized' = FALSE
    /\ UNCHANGED wifi

\* esp_wifi_stop.  Where it fails, or the radio takes longer to stop than
\* anybody waits for it, the task goes on all the same.
Stop ==
    \/ radio' = FALSE /\ online' = FALSE /\ unstopped' = FALSE
    \/ radio /\ unstopped' = TRUE /\ UNCHANGED <<radio, online>>

\* The radio is stopped, and the task is on its own for a while.
GiveUp ==
    /\ state' = "AUTONOMOUS" /\ since' = 0
    /\ s_wifi_initialized' = FALSE
    /\ Stop

DiscoveryTimeout ==
    /\ pc = "state" /\ state = "DISCOVERING" /\ s_wifi_initialized
    /\ ~s_ip_resolved /\ since = Wait
    /\ GiveUp
    /\ pc' = "plan"
    /\ UNCHANGED <<upload_failures, initial_polls_remaining, woke,
                   since_read, display, planned, gap, address, world, server>>

\* CONNECTED: an upload is due.
UploadDue ==
    /\ pc = "state" /\ state = "CONNECTED" /\ since = Wait
    /\ since' = 0
    /\ pc' = IF online THEN "upload" ELSE "ensure"
    /\ Start
    /\ UNCHANGED <<state, s_wifi_initialized, upload_failures, woke,
                   initial_polls_remaining, since_read, display, planned, gap,
                   address, world, server>>

\* AUTONOMOUS: look for the server again.
RetryDiscovery ==
    /\ pc = "state" /\ state = "AUTONOMOUS" /\ since = Wait
    /\ state' = "DISCOVERING" /\ since' = 0 /\ s_wifi_initialized' = FALSE
    /\ pc' = "plan"
    /\ UNCHANGED <<upload_failures, initial_polls_remaining, woke,
                   since_read, display, planned, gap, address, wifi, world,
                   server>>

NothingDue ==
    /\ pc = "state" /\ since < Wait
    /\ state = "DISCOVERING" => s_wifi_initialized /\ ~s_ip_resolved
    /\ pc' = "plan"
    /\ UNCHANGED <<state, s_wifi_initialized, upload_failures, woke,
                   initial_polls_remaining, times, address, wifi, world, server>>

-----------------------------------------------------------------------------
\* Connecting and uploading.

Connected ==
    /\ pc \in {"connect", "ensure"} /\ air
    /\ online' = TRUE
    /\ pc' = IF pc = "connect" THEN "discover" ELSE "upload"
    /\ UNCHANGED <<state, s_wifi_initialized, upload_failures, woke,
                   initial_polls_remaining, times, address, radio, unstopped,
                   world, server>>

\* Mutant: any number of failures is suffered.
MutNeverGivesUp ==
    UNCHANGED <<upload_failures, state, since, s_wifi_initialized, wifi>>

\* An upload that is counted failed, or could not be tried.
CountFailure ==
    IF upload_failures < 2
    THEN /\ upload_failures' = upload_failures + 1
         /\ UNCHANGED <<state, since, s_wifi_initialized, wifi>>
    ELSE upload_failures' = 0 /\ GiveUp

\* Where the upload of a wake-up, and of the state, ends.
Uploaded == IF woke = "no" THEN "plan" ELSE "rest"

\* A failure counts when the state was CONNECTED already.
Failed ==
    /\ pc' = Uploaded
    /\ IF woke = "no" /\ state = "CONNECTED" /\ pc # "first" THEN CountFailure
       ELSE UNCHANGED <<state, since, s_wifi_initialized, upload_failures, wifi>>
    /\ UNCHANGED <<initial_polls_remaining, woke, since_read, display,
                   planned, gap, world, server>>

ConnectTimeout ==
    /\ pc \in {"connect", "ensure"}
    /\ Failed
    /\ UNCHANGED address

\* An address was found; a wake-up connects again if the network has gone.
Resolved(a) ==
    /\ s_ip_resolved' = TRUE /\ s_server_ip' = a
    /\ s_wifi_initialized' = TRUE
    /\ \/ /\ woke = "no" /\ pc' = "first"
          /\ state' = "CONNECTED" /\ since' = 0 /\ upload_failures' = 0
       \/ /\ woke # "no" /\ pc' = IF online THEN "upload" ELSE "ensure"
          /\ UNCHANGED <<state, since, upload_failures>>
    /\ UNCHANGED <<initial_polls_remaining, woke, since_read, display,
                   planned, gap, wifi, world, ip, server_ip>>

\* wifi_sync_discover_server: a probe is answered.
Discovered ==
    /\ pc = "discover" /\ online /\ ip # NoAddress /\ responder = "listen"
    /\ Resolved(server_ip)
    /\ responder' = "replied"

\* The probes or the answers are lost.
DiscoveryFails ==
    /\ pc = "discover"
    /\ IF SERVER_IP # NoAddress
       THEN Resolved(SERVER_IP) /\ UNCHANGED responder
       ELSE Failed /\ UNCHANGED address

UploadOk ==
    /\ pc \in {"first", "upload"}
    /\ online /\ s_ip_resolved /\ ip # NoAddress /\ s_server_ip = ip
    /\ pc' = Uploaded
    /\ upload_failures' = IF woke = "no" THEN 0 ELSE upload_failures
    /\ UNCHANGED <<state, s_wifi_initialized, initial_polls_remaining,
                   woke, times, address, wifi, world, server>>

UploadFails ==
    /\ pc \in {"first", "upload"}
    /\ Failed
    /\ UNCHANGED address

-----------------------------------------------------------------------------
\* Sleeping.

\* The end of a wake-up: the radio goes off for a sleep of full length.
Rest ==
    /\ pc = "rest" /\ pc' = "nap"
    /\ GiveUp
    /\ upload_failures' = 0 /\ woke' = "no"
    /\ display' = IF woke = "button" THEN 0 ELSE display
    /\ planned' = SENSOR_READ_INTERVAL
    /\ UNCHANGED <<initial_polls_remaining, since_read, gap, address,
                   world, server>>

\* How long a sleep may last: a press ends it, and it may fail to begin.
Slept == {0, planned} \union (IF held THEN 1 .. planned ELSE {})

\* The next turn is not a wake-up, whatever ended this sleep.
NapEnds ==
    /\ pc = "nap" /\ pc' = "top"
    /\ \E awake \in 1 .. MaxAwake, slept \in Slept : Elapse(display, awake, slept)
    /\ planned' = 0 /\ unstopped' = FALSE
    /\ UNCHANGED <<state, s_wifi_initialized, upload_failures, woke, radio, online,
                   initial_polls_remaining, address, world, server>>

\* A press that the turn sees lights the display.
Lit == IF held /\ display = 0 THEN {0, DISPLAY_ON} ELSE {display}

\* Mutant: the next reading does not end the sleep.
MutPlanned ==
    IF state = "DISCOVERING" \/ initial_polls_remaining > 0 THEN 1
    ELSE Min({SENSOR_READ_INTERVAL, Wait - since})

\* sleep_ticks.
Planned ==
    IF state = "DISCOVERING" \/ initial_polls_remaining > 0 THEN 1
    ELSE Min({SENSOR_READ_INTERVAL - since_read, Wait - since}
             \union (IF display > 0 THEN {display} ELSE {}))

\* Mutant: the count of the first polls is not guarded.
MutPolled == initial_polls_remaining' = initial_polls_remaining - 1

Polled == initial_polls_remaining' =
              IF initial_polls_remaining > 0 THEN initial_polls_remaining - 1
                                             ELSE 0

PlanSleep ==
    /\ pc = "plan" /\ ~held /\ pc' = "sleep"
    /\ planned' = Planned
    /\ Polled
    /\ Stop
    /\ UNCHANGED <<state, s_wifi_initialized, upload_failures, woke,
                   since_read, since, display, gap, address, world, server>>

StayAwake ==
    /\ pc = "plan" /\ held /\ pc' = "top"
    /\ Polled
    /\ \E lit \in Lit, awake \in 1 .. MaxAwake : Elapse(lit, awake, 0)
    /\ unstopped' = FALSE
    /\ UNCHANGED <<state, s_wifi_initialized, upload_failures, woke, radio, online,
                   planned, address, world, server>>

SleepEnds ==
    /\ pc = "sleep" /\ pc' = "top"
    /\ \E awake \in 1 .. MaxAwake, slept \in Slept : Elapse(display, awake, slept)
    /\ planned' = 0 /\ unstopped' = FALSE
    /\ woke' = IF held THEN "button" ELSE "timer"
    /\ UNCHANGED <<state, s_wifi_initialized, upload_failures, radio, online,
                   initial_polls_remaining, address, world, server>>

-----------------------------------------------------------------------------
\* The world: the network in reach, the button, the server.

AirChanges ==
    /\ air' = ~air
    /\ UNCHANGED <<held, ticks_run, task, times, address, wifi, server>>

LinkLost ==
    /\ online /\ ~air /\ online' = FALSE
    /\ UNCHANGED <<radio, unstopped, world, task, times, address, server>>

\* A radio that was to stop stops late.
LateStop ==
    /\ unstopped
    /\ radio' = FALSE /\ online' = FALSE /\ unstopped' = FALSE
    /\ UNCHANGED <<world, task, times, address, server>>

Button ==
    /\ held' = ~held
    /\ UNCHANGED <<air, ticks_run, task, times, address, wifi, server>>

ServerLost ==
    /\ ip # NoAddress /\ ip' = NoAddress
    /\ UNCHANGED <<responder, server_ip, task, times, address, wifi, world>>

ServerBack ==
    /\ ip = NoAddress /\ ip' \in Address
    /\ UNCHANGED <<responder, server_ip, task, times, address, wifi, world>>

\* udp_discovery_task: it learns the address once before it listens, and looks
\* at the connection again only after a probe that it answered.
Listen ==
    /\ responder = "wait" /\ ip # NoAddress
    /\ responder' = "listen" /\ server_ip' = ip
    /\ UNCHANGED <<ip, task, times, address, wifi, world>>

Replied ==
    /\ responder = "replied"
    /\ responder' = IF ip # NoAddress THEN "listen" ELSE "wait"
    /\ UNCHANGED <<ip, server_ip, task, times, address, wifi, world>>

Responder == Listen \/ Replied

Task == \/ WakeCycle \/ SensorError \/ Turn
        \/ StartDiscovery \/ DiscoveryTimeout \/ UploadDue \/ RetryDiscovery
        \/ NothingDue
        \/ Connected \/ ConnectTimeout \/ Discovered \/ DiscoveryFails
        \/ UploadOk \/ UploadFails
        \/ Rest \/ NapEnds \/ PlanSleep \/ StayAwake \/ SleepEnds

World == AirChanges \/ LinkLost \/ LateStop \/ Button \/ ServerLost \/ ServerBack

Next == Task \/ Responder \/ World

Spec == Init /\ [][Next]_vars

-----------------------------------------------------------------------------
\* A record is measured at least every two intervals, whether the tick counter
\* runs in light sleep or not, however the user presses and uploads fail: the
\* sleep after a wake-up counts for nothing in the second case.
MeasuredInTime == gap <= LongestGap

\* On every path into light sleep the radio is stopped first: it is on while the
\* board sleeps only if it was to stop in that turn and failed to, or came too
\* late, and no attempt of an earlier turn stands in for that one.
SleepsOffline == pc \in {"nap", "sleep"} => ~radio \/ unstopped

\* The loop goes on and the responder runs; and of the measurements, joins,
\* probes and uploads that can succeed, infinitely many do.
FairSpec ==
    /\ Spec
    /\ WF_vars(Task) /\ WF_vars(Responder)
    /\ SF_vars(WakeCycle) /\ SF_vars(Connected) /\ SF_vars(Discovered)
    /\ SF_vars(UploadOk)

\* Once network and server stay, and the responder knows the server's address,
\* uploads succeed for ever, whatever state, cached address or failures the
\* logger came from, and even if the button is stuck.
UploadsResume ==
    <>[](air /\ ip # NoAddress /\ server_ip = ip) => []<><<UploadOk>>_vars
=============================================================================
