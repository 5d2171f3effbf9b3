-------------------------- MODULE LoggerTaskProofs --------------------------
(***************************************************************************)
(* Theorems about LoggerTask, for any intervals, number of short sleeps,   *)
(* addresses and behaviour of network, server, button and tick counter.    *)
(***************************************************************************)
EXTENDS LoggerTask, TLAPS

\* What the intervals are, one by one.
LEMMA Intervals ==
    /\ SENSOR_READ_INTERVAL \in Nat \ {0} /\ RETRY_INTERVAL \in Nat \ {0}
    /\ SyncInterval \in Nat \ {0} /\ DISCOVER_TIMEOUT \in Nat \ {0}
    /\ DISPLAY_ON \in Nat \ {0} /\ MaxAwake \in Nat \ {0} /\ POLLS \in Nat
  BY LoggerAssumption

\* Min of two numbers, and of a set that has a least one.
LEMMA MinOfTwo ==
    ASSUME NEW a \in Int, NEW b \in Int
    PROVE  Min({a, b}) = IF a <= b THEN a ELSE b
  <1> DEFINE m == IF a <= b THEN a ELSE b
  <1>1. m \in {a, b} /\ \A y \in {a, b} : m <= y
    OBVIOUS
  <1>2. \A x \in {a, b} : (\A y \in {a, b} : x <= y) => x = m
    OBVIOUS
  <1> HIDE DEF m
  <1>3. Min({a, b}) = m
    BY <1>1, <1>2 DEF Min
  <1> QED BY <1>3 DEF m

\* A least element is what Min returns.
LEMMA MinIsLeast ==
    ASSUME NEW S, NEW m \in S, \A y \in S : m <= y
    PROVE  Min(S) \in S /\ \A y \in S : Min(S) <= y
  BY DEF Min

\* Every state waits for some time.
LEMMA WaitType ==
    state \in {"DISCOVERING", "CONNECTED", "AUTONOMOUS"} => Wait \in Nat \ {0}
  BY Intervals DEF Wait

\* The sleep planned ends no later than the next reading is due.
LEMMA PlannedType ==
    ASSUME TypeOK
    PROVE  /\ Planned \in 0 .. SENSOR_READ_INTERVAL
           /\ since_read < SENSOR_READ_INTERVAL => Planned <= SENSOR_READ_INTERVAL - since_read
  <1> DEFINE a == SENSOR_READ_INTERVAL - since_read
             b == Wait - since
             S == {a, b} \union (IF display > 0 THEN {display} ELSE {})
  <1>1. Wait \in Nat
    BY WaitType DEF TypeOK
  <1>2. /\ since_read \in 0 .. SENSOR_READ_INTERVAL /\ since \in 0 .. Wait
        /\ display \in 0 .. DISPLAY_ON
    BY DEF TypeOK
  <1>3. a \in 0 .. SENSOR_READ_INTERVAL /\ b \in Nat /\ display \in Nat
    BY <1>1, <1>2, Intervals
  <1> HIDE DEF a, b
  <1>4. S = {a, b} \/ S = {a, b, display}
    OBVIOUS
  <1>5. S \subseteq Nat /\ a \in S
    BY <1>3, <1>4
  <1>6. \E m \in S : \A y \in S : m <= y
    <2>1. \E m \in {a, b} : m <= a /\ m <= b
      BY <1>3
    <2>2. PICK m \in {a, b} : m <= a /\ m <= b
      BY <2>1
    <2>3. CASE S = {a, b}
      BY <2>2, <2>3
    <2>4. CASE S = {a, b, display}
      <3>1. m \in Nat
        BY <1>3, <2>2
      <3>2. CASE m <= display
        BY <2>2, <2>4, <3>2
      <3>3. CASE display <= m
        BY <1>3, <2>2, <2>4, <3>1, <3>3
      <3> QED BY <1>3, <3>1, <3>2, <3>3
    <2> QED BY <1>4, <2>3, <2>4
  <1>7. Min(S) \in Nat /\ Min(S) <= a
    <2>1. Min(S) \in S /\ \A y \in S : Min(S) <= y
      BY <1>6, MinIsLeast
    <2> QED BY <1>5, <2>1
  <1>8. Planned = 1 \/ Planned = Min(S)
    BY DEF Planned, a, b
  <1> HIDE DEF S
  <1> QED BY <1>2, <1>3, <1>7, <1>8, Intervals DEF a

\* What the end of a turn does to the times.
LEMMA Elapsed ==
    ASSUME TypeOK, NEW lit \in 0 .. DISPLAY_ON, NEW awake \in 1 .. MaxAwake,
           NEW slept \in 0 .. SENSOR_READ_INTERVAL, Elapse(lit, awake, slept)
    PROVE  /\ since_read' \in 0 .. SENSOR_READ_INTERVAL /\ since' \in 0 .. Wait
           /\ display' \in 0 .. DISPLAY_ON /\ gap' \in 0 .. LongestGap + 1
           /\ since_read' = SENSOR_READ_INTERVAL \/ since_read' >= since_read + awake
           /\ gap' <= gap + awake + slept
  <1> DEFINE ticks == awake + (IF ticks_run THEN slept ELSE 0)
  <1>1. ticks \in Nat /\ ticks >= awake
    <2>1. awake \in Nat /\ slept \in Nat
      BY Intervals
    <2> QED BY <2>1
  <1>2. /\ since_read' = Min({since_read + ticks, SENSOR_READ_INTERVAL})
        /\ since' = Min({since + ticks, Wait})
        /\ display' = IF lit > ticks THEN lit - ticks ELSE 0
        /\ gap' = Min({gap + awake + slept, LongestGap + 1})
    BY DEF Elapse
  <1> HIDE DEF ticks
  <1>3. /\ since_read \in Nat /\ since_read <= SENSOR_READ_INTERVAL
        /\ since \in Nat /\ since <= Wait /\ Wait \in Nat
        /\ gap \in Nat /\ LongestGap \in Nat /\ awake \in Nat /\ slept \in Nat
    BY Intervals, WaitType DEF TypeOK, LongestGap
  <1>4. /\ since_read' \in 0 .. SENSOR_READ_INTERVAL
        /\ since_read' = SENSOR_READ_INTERVAL \/ since_read' >= since_read + awake
    BY <1>1, <1>2, <1>3, MinOfTwo, Intervals
  <1>5. since' \in 0 .. Wait
    BY <1>1, <1>2, <1>3, MinOfTwo
  <1>6. display' \in 0 .. DISPLAY_ON
    BY <1>1, <1>2, Intervals
  <1>7. gap' \in 0 .. LongestGap + 1 /\ gap' <= gap + awake + slept
    BY <1>2, <1>3, MinOfTwo
  <1> QED BY <1>4, <1>5, <1>6, <1>7

-----------------------------------------------------------------------------
\* The task starts with every variable in its type.
LEMMA TypeInit == Init => TypeOK
  <1> SUFFICES ASSUME Init PROVE TypeOK
    OBVIOUS
  <1>1. Wait \in Nat \ {0} /\ LongestGap \in Nat
    BY Intervals, WaitType DEF Init, LongestGap
  <1>2. s_ip_resolved \in BOOLEAN /\ s_server_ip \in Address \union {NoAddress}
    BY LoggerAssumption DEF Init
  <1>3. /\ 0 \in 0 .. SENSOR_READ_INTERVAL /\ 0 \in 0 .. Wait /\ 0 \in 0 .. DISPLAY_ON
        /\ 0 \in 0 .. LongestGap + 1 /\ POLLS \in 0 .. POLLS
    BY <1>1, Intervals
  <1>4. /\ s_wifi_initialized \in BOOLEAN /\ radio \in BOOLEAN /\ online \in BOOLEAN
        /\ air \in BOOLEAN /\ held \in BOOLEAN /\ ticks_run \in BOOLEAN
        /\ unstopped \in BOOLEAN
    BY DEF Init
  <1>5. /\ pc = "top" /\ state = "DISCOVERING" /\ upload_failures = 0 /\ woke = "no"
        /\ initial_polls_remaining = POLLS /\ ip = NoAddress /\ responder = "wait"
        /\ server_ip = NoAddress
    BY DEF Init
  <1>6. since_read = 0 /\ since = 0 /\ display = 0 /\ planned = 0 /\ gap = 0
    BY DEF Init
  <1> QED BY <1>2, <1>3, <1>4, <1>5, <1>6 DEF TypeOK

\* The radio stays on or off, and the station online or not, while it is
\* started and stopped.
LEMMA WifiType ==
    ASSUME TypeOK, Start \/ Stop \/ UNCHANGED wifi
    PROVE  radio' \in BOOLEAN /\ online' \in BOOLEAN /\ unstopped' \in BOOLEAN
  <1>1. radio \in BOOLEAN /\ online \in BOOLEAN /\ unstopped \in BOOLEAN
    BY DEF TypeOK
  <1> QED BY <1>1 DEF Start, Stop, wifi

\* Giving up leaves the state AUTONOMOUS.
LEMMA GiveUpType ==
    ASSUME TypeOK, GiveUp
    PROVE  /\ state' \in {"DISCOVERING", "CONNECTED", "AUTONOMOUS"}
           /\ since' \in 0 .. Wait' /\ s_wifi_initialized' \in BOOLEAN
           /\ radio' \in BOOLEAN /\ online' \in BOOLEAN /\ unstopped' \in BOOLEAN
  <1>1. state' = "AUTONOMOUS" /\ since' = 0
    BY DEF GiveUp
  <1>2. Wait' = RETRY_INTERVAL
    BY <1>1 DEF Wait
  <1>3. s_wifi_initialized' \in BOOLEAN
    BY DEF GiveUp
  <1>4. radio' \in BOOLEAN /\ online' \in BOOLEAN /\ unstopped' \in BOOLEAN
    BY WifiType DEF GiveUp
  <1> QED BY <1>1, <1>2, <1>3, <1>4, Intervals

\* A failed upload or connection.
LEMMA FailedType ==
    ASSUME TypeOK, Failed, UNCHANGED responder, UNCHANGED address
    PROVE  TypeOK'
  <1>1. pc' \in {"plan", "rest"}
    BY DEF Failed, Uploaded
  <1>2. CASE UNCHANGED <<state, since, s_wifi_initialized, upload_failures, wifi>>
    BY <1>1, <1>2 DEF Failed, TypeOK, Wait, LongestGap, address, wifi, world, server
  <1>3. CASE CountFailure
    <2>1. CASE upload_failures < 2
      BY <1>1, <1>3, <2>1 DEF CountFailure, Failed, TypeOK, Wait, LongestGap, address, wifi,
                              world, server
    <2>2. CASE ~(upload_failures < 2)
      <3>1. GiveUp /\ upload_failures' = 0
        BY <1>3, <2>2 DEF CountFailure
      <3> QED BY <1>1, <3>1, GiveUpType
              DEF Failed, TypeOK, LongestGap, address, world, server
    <2> QED BY <2>1, <2>2
  <1> QED BY <1>2, <1>3 DEF Failed

\* A server's address was found.
LEMMA ResolvedType ==
    ASSUME TypeOK, NEW a \in Address \union {NoAddress}, Resolved(a),
           responder' \in {"wait", "listen", "replied"}
    PROVE  TypeOK'
  <1>1. /\ pc' \in {"first", "upload", "ensure"}
        /\ upload_failures' \in 0 .. 2
        /\ state' \in {"DISCOVERING", "CONNECTED", "AUTONOMOUS"}
        /\ since' \in 0 .. Wait'
    <2>1. CASE woke = "no"
      BY <2>1, Intervals DEF Resolved, Wait, TypeOK
    <2>2. CASE woke # "no"
      BY <2>2 DEF Resolved, Wait, TypeOK
    <2> QED BY <2>1, <2>2
  <1> QED BY <1>1 DEF Resolved, TypeOK, LongestGap, wifi, world

\* Every step of the task, the responder and the world keeps the types.
LEMMA TypeNext == TypeOK /\ [Next]_vars => TypeOK'
  <1> SUFFICES ASSUME TypeOK, [Next]_vars PROVE TypeOK'
    OBVIOUS
  <1> USE DEF LongestGap
  <1>a. /\ LongestGap \in Nat /\ Wait \in Nat \ {0}
        /\ 0 \in 0 .. SENSOR_READ_INTERVAL /\ 0 \in 0 .. LongestGap + 1
        /\ SENSOR_READ_INTERVAL \in 0 .. SENSOR_READ_INTERVAL
        /\ 0 \in 0 .. DISPLAY_ON
    BY Intervals, WaitType DEF TypeOK
  <1>1. CASE WakeCycle
    <2>1. /\ pc' \in {"upload", "connect"} /\ s_ip_resolved' \in BOOLEAN
          /\ radio' \in BOOLEAN /\ online' \in BOOLEAN /\ unstopped' \in BOOLEAN
      <3>1. CASE StillUp
        BY <1>1, <3>1, WifiType DEF WakeCycle, TypeOK
      <3>2. CASE ~StillUp
        BY <1>1, <3>2, WifiType DEF WakeCycle
      <3> QED BY <3>1, <3>2
    <2>2. Wait' = Wait
      BY <1>1 DEF WakeCycle, Wait
    <2>3. since_read' = 0 /\ gap' = 0
      BY <1>1 DEF WakeCycle, Measured
    <2>4. UNCHANGED <<state, s_wifi_initialized, upload_failures, woke, since,
                      initial_polls_remaining, display, planned, s_server_ip,
                      world, server>>
      BY <1>1 DEF WakeCycle
    <2> QED BY <1>a, <2>1, <2>2, <2>3, <2>4 DEF TypeOK, world, server
  <1>2. CASE SensorError
    BY <1>2, <1>a DEF SensorError, Measured, TypeOK, Wait, address, wifi, world, server
  <1>3. CASE Turn
    BY <1>3, <1>a DEF Turn, Measured, TypeOK, Wait, address, wifi, world, server
  <1>4. CASE StartDiscovery
    <2>1. radio' \in BOOLEAN /\ online' \in BOOLEAN /\ unstopped' \in BOOLEAN
      BY <1>4, WifiType DEF StartDiscovery
    <2>2. pc' = "connect" /\ s_wifi_initialized' = TRUE /\ s_ip_resolved' = FALSE
      BY <1>4 DEF StartDiscovery
    <2>3. UNCHANGED <<state, upload_failures, initial_polls_remaining, woke, times,
                      s_server_ip, world, server>>
      BY <1>4 DEF StartDiscovery
    <2>4. Wait' = Wait
      BY <2>3 DEF Wait
    <2> QED BY <2>1, <2>2, <2>3, <2>4 DEF TypeOK, times, world, server
  <1>5. CASE DiscoveryTimeout
    BY <1>5, <1>a, GiveUpType DEF DiscoveryTimeout, TypeOK, address, world, server
  <1>6. CASE UploadDue
    <2>1. radio' \in BOOLEAN /\ online' \in BOOLEAN /\ unstopped' \in BOOLEAN
      BY <1>6, WifiType DEF UploadDue
    <2>2. pc' \in {"upload", "ensure"} /\ since' = 0
      BY <1>6 DEF UploadDue
    <2>3. UNCHANGED <<state, s_wifi_initialized, upload_failures, woke,
                      initial_polls_remaining, since_read, display, planned, gap,
                      address, world, server>>
      BY <1>6 DEF UploadDue
    <2>4. Wait' = Wait
      BY <2>3 DEF Wait
    <2> QED BY <1>a, <2>1, <2>2, <2>3, <2>4 DEF TypeOK, address, world, server
  <1>7. CASE RetryDiscovery
    <2>1. since' \in 0 .. Wait'
      BY <1>7, Intervals DEF RetryDiscovery, Wait
    <2>2. state' = "DISCOVERING" /\ s_wifi_initialized' \in BOOLEAN /\ pc' = "plan"
      BY <1>7 DEF RetryDiscovery
    <2>3. UNCHANGED <<upload_failures, initial_polls_remaining, woke, since_read, display,
                      planned, gap, address, wifi, world, server>>
      BY <1>7 DEF RetryDiscovery
    <2> QED BY <2>1, <2>2, <2>3 DEF TypeOK, address, wifi, world, server
  <1>8. CASE NothingDue
    BY <1>8, <1>a DEF NothingDue, TypeOK, Wait, times, address, wifi, world, server
  <1>9. CASE Connected
    BY <1>9, <1>a DEF Connected, TypeOK, Wait, times, address, world, server
  <1>10. CASE ConnectTimeout \/ UploadFails
    BY <1>10, FailedType DEF ConnectTimeout, UploadFails, Failed, server
  <1>11. CASE Discovered
    <2>1. server_ip \in Address \union {NoAddress}
      BY DEF TypeOK
    <2> QED BY <1>11, <2>1, ResolvedType DEF Discovered
  <1>12. CASE DiscoveryFails
    <2>1. CASE SERVER_IP # NoAddress
      BY <1>12, <2>1, ResolvedType, LoggerAssumption DEF DiscoveryFails, TypeOK
    <2>2. CASE SERVER_IP = NoAddress
      BY <1>12, <2>2, FailedType DEF DiscoveryFails, Failed, server
    <2> QED BY <2>1, <2>2
  <1>13. CASE UploadOk
    <2>1. pc' \in {"plan", "rest"} /\ upload_failures' \in 0 .. 2
      BY <1>13 DEF UploadOk, Uploaded, TypeOK
    <2> QED BY <1>13, <1>a, <2>1 DEF UploadOk, TypeOK, Wait, times, address, wifi, world, server
  <1>14. CASE Rest
    <2>1. /\ state' \in {"DISCOVERING", "CONNECTED", "AUTONOMOUS"}
          /\ since' \in 0 .. Wait' /\ s_wifi_initialized' \in BOOLEAN
          /\ radio' \in BOOLEAN /\ online' \in BOOLEAN /\ unstopped' \in BOOLEAN
      BY <1>14, GiveUpType DEF Rest
    <2>2. /\ pc' = "nap" /\ upload_failures' = 0 /\ woke' = "no"
          /\ planned' = SENSOR_READ_INTERVAL
          /\ UNCHANGED <<initial_polls_remaining, since_read, gap, address, world, server>>
      BY <1>14 DEF Rest
    <2>3. display' \in 0 .. DISPLAY_ON
      BY <1>14, <1>a DEF Rest, TypeOK
    <2> QED BY <1>a, <2>1, <2>2, <2>3 DEF TypeOK, address, world, server
  <1>15. CASE NapEnds \/ SleepEnds
    <2>1. PICK awake \in 1 .. MaxAwake, slept \in Slept : Elapse(display, awake, slept)
      BY <1>15 DEF NapEnds, SleepEnds
    <2>2. slept \in 0 .. SENSOR_READ_INTERVAL /\ display \in 0 .. DISPLAY_ON
      <3>1. planned \in 0 .. SENSOR_READ_INTERVAL /\ display \in 0 .. DISPLAY_ON
        BY DEF TypeOK
      <3> QED BY <2>1, <3>1, Intervals DEF Slept
    <2>3. UNCHANGED state
      BY <1>15 DEF NapEnds, SleepEnds
    <2>4. /\ since_read' \in 0 .. SENSOR_READ_INTERVAL /\ since' \in 0 .. Wait'
          /\ display' \in 0 .. DISPLAY_ON /\ gap' \in 0 .. LongestGap + 1
      BY <2>1, <2>2, <2>3, Elapsed DEF Wait
    <2>5. woke' \in {"no", "button", "timer"} /\ pc' = "top" /\ planned' = 0
      BY <1>15 DEF NapEnds, SleepEnds, TypeOK
    <2>6. /\ UNCHANGED <<s_wifi_initialized, upload_failures, initial_polls_remaining,
                         radio, online, address, world, server>>
          /\ unstopped' = FALSE
      BY <1>15 DEF NapEnds, SleepEnds
    <2>7. /\ state' \in {"DISCOVERING", "CONNECTED", "AUTONOMOUS"}
          /\ s_wifi_initialized' \in BOOLEAN /\ upload_failures' \in 0 .. 2
          /\ initial_polls_remaining' \in 0 .. POLLS
          /\ radio' \in BOOLEAN /\ online' \in BOOLEAN /\ unstopped' \in BOOLEAN
      BY <2>3, <2>6 DEF TypeOK
    <2> QED BY <1>a, <2>4, <2>5, <2>6, <2>7 DEF TypeOK, address, world, server
  <1>16. CASE PlanSleep
    <2>1. initial_polls_remaining' \in 0 .. POLLS
      BY <1>16, Intervals DEF PlanSleep, Polled, TypeOK
    <2>2. planned' \in 0 .. SENSOR_READ_INTERVAL
      BY <1>16, PlannedType DEF PlanSleep
    <2>3. /\ pc' = "sleep"
          /\ radio' \in BOOLEAN /\ online' \in BOOLEAN /\ unstopped' \in BOOLEAN
      BY <1>16, WifiType DEF PlanSleep
    <2>4. UNCHANGED <<state, s_wifi_initialized, upload_failures, woke, since_read, since,
                      display, gap, address, world, server>>
      BY <1>16 DEF PlanSleep
    <2>5. Wait' = Wait
      BY <2>4 DEF Wait
    <2> QED BY <2>1, <2>2, <2>3, <2>4, <2>5 DEF TypeOK, address, world, server
  <1>17. CASE StayAwake
    <2>1. initial_polls_remaining' \in 0 .. POLLS
      BY <1>17, Intervals DEF StayAwake, Polled, TypeOK
    <2>2. PICK lit \in Lit, awake \in 1 .. MaxAwake : Elapse(lit, awake, 0)
      BY <1>17 DEF StayAwake
    <2>3. lit \in 0 .. DISPLAY_ON /\ 0 \in 0 .. SENSOR_READ_INTERVAL
      BY <2>2, Intervals DEF Lit, TypeOK
    <2>4. UNCHANGED state
      BY <1>17 DEF StayAwake
    <2>5. /\ since_read' \in 0 .. SENSOR_READ_INTERVAL /\ since' \in 0 .. Wait'
          /\ display' \in 0 .. DISPLAY_ON /\ gap' \in 0 .. LongestGap + 1
      BY <2>2, <2>3, <2>4, Elapsed DEF Wait
    <2>6. /\ UNCHANGED <<s_wifi_initialized, upload_failures, woke, radio, online, planned,
                         address, world, server>>
          /\ pc' = "top" /\ unstopped' = FALSE
      BY <1>17 DEF StayAwake
    <2>7. /\ state' \in {"DISCOVERING", "CONNECTED", "AUTONOMOUS"}
          /\ s_wifi_initialized' \in BOOLEAN /\ upload_failures' \in 0 .. 2
          /\ woke' \in {"no", "button", "timer"} /\ planned' \in 0 .. SENSOR_READ_INTERVAL
          /\ radio' \in BOOLEAN /\ online' \in BOOLEAN /\ unstopped' \in BOOLEAN
      BY <2>4, <2>6 DEF TypeOK
    <2> QED BY <2>1, <2>5, <2>6, <2>7 DEF TypeOK, address, world, server
  <1>18. CASE World
    <2>1. UNCHANGED <<task, times, address, responder, server_ip, ticks_run>>
      BY <1>18 DEF World, AirChanges, LinkLost, LateStop, Button, ServerLost, ServerBack, world,
                   server
    <2>2. /\ air' \in BOOLEAN /\ held' \in BOOLEAN
          /\ radio' \in BOOLEAN /\ online' \in BOOLEAN /\ unstopped' \in BOOLEAN
      BY <1>18 DEF World, AirChanges, LinkLost, LateStop, Button, ServerLost, ServerBack,
                   TypeOK, wifi, world
    <2>3. ip' \in Address \union {NoAddress}
      BY <1>18 DEF World, AirChanges, LinkLost, LateStop, Button, ServerLost, ServerBack,
                   TypeOK, server
    <2>4. Wait' = Wait
      BY <2>1 DEF Wait, task
    <2> QED BY <2>1, <2>2, <2>3, <2>4 DEF TypeOK, task, times, address
  <1>19. CASE Responder
    BY <1>19 DEF Responder, Listen, Replied, TypeOK, Wait, task, times, address, wifi, world
  <1>20. CASE UNCHANGED vars
    BY <1>20 DEF vars, TypeOK, Wait, task, times, address, wifi, world, server
  <1> QED BY <1>1, <1>2, <1>3, <1>4, <1>5, <1>6, <1>7, <1>8, <1>9, <1>10, <1>11, <1>12,
             <1>13, <1>14, <1>15, <1>16, <1>17, <1>18, <1>19, <1>20 DEF Next, Task

\* The counters and times stay in their bounds, whatever happens.
THEOREM LoggerTypeOK == Spec => []TypeOK
  BY TypeInit, TypeNext, PTL DEF Spec

-----------------------------------------------------------------------------
\* In every sleep the radio is off, or was to stop in that very turn and failed
\* to, or is late: no path leads into a sleep past the attempt to stop it.
THEOREM LoggerSleepsOffline == Spec => []SleepsOffline
  <1>1. Init => SleepsOffline
    BY DEF Init, SleepsOffline
  <1>2. SleepsOffline /\ [Next]_vars => SleepsOffline'
    <2> SUFFICES ASSUME SleepsOffline, [Next]_vars PROVE SleepsOffline'
      OBVIOUS
    <2>1. CASE Rest \/ PlanSleep
      <3>1. Stop
        BY <2>1 DEF Rest, GiveUp, PlanSleep
      <3>2. radio' = FALSE \/ unstopped' = TRUE
        BY <3>1 DEF Stop
      <3> QED BY <3>2 DEF SleepsOffline
    <2>2. CASE World \/ Responder \/ UNCHANGED vars
      <3>1. UNCHANGED pc /\ (UNCHANGED <<radio, unstopped>> \/ radio' = FALSE)
        BY <2>2 DEF World, AirChanges, LinkLost, LateStop, Button, ServerLost, ServerBack,
                    Responder, Listen, Replied, vars, task, wifi
      <3> QED BY <3>1 DEF SleepsOffline
    <2>3. CASE Task /\ ~Rest /\ ~PlanSleep
      <3>1. pc' \notin {"nap", "sleep"}
        BY <2>3 DEF Task, WakeCycle, SensorError, Turn, StartDiscovery, DiscoveryTimeout,
                    UploadDue, RetryDiscovery, NothingDue, Connected, ConnectTimeout,
                    Discovered, DiscoveryFails, Resolved, UploadOk, UploadFails, Failed,
                    Uploaded, NapEnds, StayAwake, SleepEnds
      <3> QED BY <3>1 DEF SleepsOffline
    <2> QED BY <2>1, <2>2, <2>3 DEF Next
  <1> QED BY <1>1, <1>2, PTL DEF Spec

-----------------------------------------------------------------------------
\* Why no gap is longer than two intervals and a turn.  A turn without a
\* wake-up knows the gap up to the one sleep that the tick counter may have
\* missed, the one after a wake-up; a sleep of its own ends with the interval,
\* and the wake-up behind it measures.
GapInv ==
    /\ gap <= LongestGap
    /\ pc = "top" /\ woke = "no" =>
         since_read = SENSOR_READ_INTERVAL \/ gap <= since_read + SENSOR_READ_INTERVAL
    /\ pc \notin {"top", "nap", "sleep"} /\ woke = "no" =>
         since_read < SENSOR_READ_INTERVAL /\ gap <= since_read + SENSOR_READ_INTERVAL
    /\ pc # "top" /\ woke # "no" => gap = 0
    /\ pc = "nap" => woke = "no" /\ gap = 0
    /\ pc = "rest" => woke # "no"
    /\ pc \in {"state", "plan", "sleep"} => woke = "no"
    /\ pc = "sleep" => gap + planned <= 2 * SENSOR_READ_INTERVAL

\* Nothing has been missed at the start.
LEMMA GapInit == Init => GapInv
  BY Intervals DEF Init, GapInv, LongestGap

\* The steps between the measurement and the sleep take no time.
LEMMA GapWithin ==
    ASSUME TypeOK, GapInv,
           pc \notin {"top", "rest", "nap", "sleep"},
           pc' \in {"connect", "ensure", "discover", "first", "upload", Uploaded},
           UNCHANGED <<woke, since_read, gap>>
    PROVE  GapInv'
  BY Intervals DEF GapInv, LongestGap, Uploaded

\* A measurement, after a wake-up or in its time.
LEMMA GapMeasured ==
    ASSUME TypeOK, GapInv, WakeCycle \/ SensorError \/ Turn
    PROVE  GapInv'
  <1>1. LongestGap \in Nat /\ LongestGap' = LongestGap /\ since_read \in 0 .. SENSOR_READ_INTERVAL
    BY Intervals DEF LongestGap, TypeOK
  <1>2. CASE WakeCycle \/ SensorError
    <2>1. woke' # "no" /\ gap' = 0 /\ pc' \in {"connect", "upload", "rest"}
      BY <1>2 DEF WakeCycle, SensorError, Measured
    <2> QED BY <1>1, <2>1 DEF GapInv
  <1>3. CASE Turn
    <2>1. woke = "no" /\ woke' = "no" /\ pc = "top" /\ pc' = "state"
      BY <1>3 DEF Turn
    <2>2. CASE since_read = SENSOR_READ_INTERVAL
      <3>1. since_read' = 0 /\ gap' = 0
        BY <1>3, <2>2 DEF Turn, Measured
      <3> QED BY <1>1, <2>1, <3>1, Intervals DEF GapInv
    <2>3. CASE since_read # SENSOR_READ_INTERVAL
      <3>1. since_read' = since_read /\ gap' = gap
        BY <1>3, <2>3 DEF Turn
      <3> QED BY <1>1, <2>1, <2>3, <3>1, Intervals DEF GapInv
    <2> QED BY <2>2, <2>3
  <1> QED BY <1>2, <1>3

\* A gap that is known up to one interval stays so while both clocks go on.
LEMMA GapGrows ==
    ASSUME NEW g \in Nat, NEW g1 \in Nat, NEW r \in Nat, NEW r1 \in Nat, NEW w \in Nat,
           NEW s \in Nat, g + s <= r + SENSOR_READ_INTERVAL, g1 <= g + w + s, r1 >= r + w
    PROVE  g1 <= r1 + SENSOR_READ_INTERVAL
  BY Intervals

\* The ends of a turn: into a sleep, out of it, or without one.
LEMMA GapSleeps ==
    ASSUME TypeOK, GapInv, Rest \/ NapEnds \/ PlanSleep \/ StayAwake \/ SleepEnds
    PROVE  GapInv'
  <1>1. /\ LongestGap' = LongestGap /\ LongestGap = 2 * SENSOR_READ_INTERVAL + MaxAwake
        /\ SENSOR_READ_INTERVAL \in Nat \ {0} /\ MaxAwake \in Nat \ {0}
        /\ since_read \in 0 .. SENSOR_READ_INTERVAL /\ planned \in 0 .. SENSOR_READ_INTERVAL
        /\ gap \in Nat /\ display \in 0 .. DISPLAY_ON
    BY Intervals DEF LongestGap, TypeOK
  <1>2. CASE Rest
    <2>1. pc' = "nap" /\ woke' = "no" /\ gap' = gap /\ gap = 0
      BY <1>2 DEF Rest, GapInv
    <2> QED BY <1>1, <2>1 DEF GapInv
  <1>3. CASE PlanSleep
    <2>1. pc' = "sleep" /\ woke' = "no" /\ gap' = gap /\ planned' = Planned
      BY <1>3 DEF PlanSleep, GapInv
    <2>2. since_read < SENSOR_READ_INTERVAL /\ gap <= since_read + SENSOR_READ_INTERVAL
      BY <1>3 DEF PlanSleep, GapInv
    <2>3. Planned \in Nat /\ Planned <= SENSOR_READ_INTERVAL - since_read
      BY <1>1, <2>2, PlannedType
    <2> QED BY <1>1, <2>1, <2>2, <2>3 DEF GapInv
  <1>4. CASE NapEnds \/ SleepEnds
    <2>1. PICK awake \in 1 .. MaxAwake, slept \in Slept : Elapse(display, awake, slept)
      BY <1>4 DEF NapEnds, SleepEnds
    <2>2. slept \in 0 .. SENSOR_READ_INTERVAL /\ slept <= planned /\ awake \in Nat
          /\ awake <= MaxAwake
      BY <1>1, <2>1 DEF Slept
    <2>3. /\ since_read' = SENSOR_READ_INTERVAL \/ since_read' >= since_read + awake
          /\ gap' <= gap + awake + slept
          /\ since_read' \in Nat /\ gap' \in Nat
      <3>1. since_read' \in 0 .. SENSOR_READ_INTERVAL /\ gap' \in 0 .. LongestGap + 1
        BY <1>1, <2>1, <2>2, Elapsed
      <3>2. /\ since_read' = SENSOR_READ_INTERVAL \/ since_read' >= since_read + awake
            /\ gap' <= gap + awake + slept
        BY <1>1, <2>1, <2>2, Elapsed
      <3> QED BY <1>1, <3>1, <3>2
    <2>4. CASE NapEnds
      <3>1. pc' = "top" /\ woke' = "no" /\ gap = 0
        BY <2>4 DEF NapEnds, GapInv
      <3>2. gap' <= LongestGap
        BY <1>1, <2>2, <2>3, <3>1
      <3>3. since_read' = SENSOR_READ_INTERVAL \/ gap' <= since_read' + SENSOR_READ_INTERVAL
        <4>1. slept \in Nat /\ slept <= SENSOR_READ_INTERVAL /\ since_read \in Nat
          BY <1>1, <2>2
        <4>2. gap + slept <= since_read + SENSOR_READ_INTERVAL
          BY <1>1, <3>1, <4>1
        <4>3. CASE since_read' >= since_read + awake
          BY <1>1, <2>2, <2>3, <4>1, <4>2, <4>3, GapGrows
        <4> QED BY <2>3, <4>3
      <3> QED BY <1>1, <3>1, <3>2, <3>3 DEF GapInv
    <2>5. CASE SleepEnds
      <3>1. pc' = "top" /\ woke' # "no" /\ gap + planned <= 2 * SENSOR_READ_INTERVAL
        BY <2>5 DEF SleepEnds, GapInv
      <3>2. gap' <= LongestGap
        BY <1>1, <2>2, <2>3, <3>1
      <3> QED BY <1>1, <3>1, <3>2 DEF GapInv
    <2> QED BY <1>4, <2>4, <2>5
  <1>5. CASE StayAwake
    <2>1. PICK lit \in Lit, awake \in 1 .. MaxAwake : Elapse(lit, awake, 0)
      BY <1>5 DEF StayAwake
    <2>2. lit \in 0 .. DISPLAY_ON /\ 0 \in 0 .. SENSOR_READ_INTERVAL /\ awake \in Nat
          /\ awake <= MaxAwake
      BY <1>1, <2>1, Intervals DEF Lit
    <2>3. /\ since_read' = SENSOR_READ_INTERVAL \/ since_read' >= since_read + awake
          /\ gap' <= gap + awake + 0
          /\ since_read' \in Nat /\ gap' \in Nat
      <3>1. since_read' \in 0 .. SENSOR_READ_INTERVAL /\ gap' \in 0 .. LongestGap + 1
        BY <2>1, <2>2, Elapsed
      <3>2. /\ since_read' = SENSOR_READ_INTERVAL \/ since_read' >= since_read + awake
            /\ gap' <= gap + awake + 0
        BY <2>1, <2>2, Elapsed
      <3> QED BY <1>1, <3>1, <3>2
    <2>4. /\ pc' = "top" /\ woke' = "no"
          /\ since_read < SENSOR_READ_INTERVAL /\ gap <= since_read + SENSOR_READ_INTERVAL
      BY <1>5 DEF StayAwake, GapInv
    <2>5. gap' <= LongestGap
      BY <1>1, <2>2, <2>3, <2>4
    <2>6. since_read' = SENSOR_READ_INTERVAL \/ gap' <= since_read' + SENSOR_READ_INTERVAL
      <3>1. gap + 0 <= since_read + SENSOR_READ_INTERVAL /\ since_read \in Nat /\ 0 \in Nat
        BY <1>1, <2>4
      <3>2. CASE since_read' >= since_read + awake
        BY <1>1, <2>2, <2>3, <3>1, <3>2, GapGrows
      <3> QED BY <2>3, <3>2
    <2> QED BY <1>1, <2>4, <2>5, <2>6 DEF GapInv
  <1> QED BY <1>2, <1>3, <1>4, <1>5

\* No step breaks what is known of the gap.
LEMMA GapNext == TypeOK /\ GapInv /\ [Next]_vars => GapInv'
  <1> SUFFICES ASSUME TypeOK, GapInv, [Next]_vars PROVE GapInv'
    OBVIOUS
  <1>1. CASE WakeCycle \/ SensorError \/ Turn
    BY <1>1, GapMeasured
  <1>2. CASE Rest \/ NapEnds \/ PlanSleep \/ StayAwake \/ SleepEnds
    BY <1>2, GapSleeps
  <1>3. CASE StartDiscovery \/ DiscoveryTimeout \/ UploadDue \/ RetryDiscovery \/ NothingDue
    <2>1. pc = "state" /\ woke = "no" /\ UNCHANGED <<woke, since_read, gap>>
      BY <1>3 DEF StartDiscovery, DiscoveryTimeout, UploadDue, RetryDiscovery, NothingDue,
                  GapInv, times
    <2>2. pc' \in {"connect", "ensure", "discover", "first", "upload", Uploaded}
      BY <1>3, <2>1 DEF StartDiscovery, DiscoveryTimeout, UploadDue, RetryDiscovery, NothingDue,
                        Uploaded
    <2> QED BY <2>1, <2>2, GapWithin
  <1>4. CASE Connected \/ ConnectTimeout \/ Discovered \/ DiscoveryFails \/ UploadOk \/ UploadFails
    <2>1. pc \in {"connect", "ensure", "discover", "first", "upload"}
      BY <1>4 DEF Connected, ConnectTimeout, Discovered, DiscoveryFails, UploadOk, UploadFails
    <2>2. UNCHANGED <<woke, since_read, gap>>
      BY <1>4 DEF Connected, ConnectTimeout, Discovered, DiscoveryFails, UploadOk, UploadFails,
                  Failed, Resolved, times
    <2>3. pc' \in {"connect", "ensure", "discover", "first", "upload", Uploaded}
      BY <1>4 DEF Connected, ConnectTimeout, Discovered, DiscoveryFails, UploadOk, UploadFails,
                  Failed, Resolved
    <2> QED BY <2>1, <2>2, <2>3, GapWithin
  <1>5. CASE World \/ Responder \/ UNCHANGED vars
    <2>1. UNCHANGED <<task, times>>
      BY <1>5 DEF World, AirChanges, LinkLost, LateStop, Button, ServerLost, ServerBack,
                  Responder, Listen, Replied, vars
    <2> QED BY <2>1 DEF GapInv, LongestGap, task, times
  <1> QED BY <1>1, <1>2, <1>3, <1>4, <1>5 DEF Next, Task

\* A record is measured at least every two intervals and the longest turn,
\* whether or not the tick counter runs in light sleep, however often the
\* button ends a sleep early and however uploads fail.
THEOREM LoggerMeasuredInTime == Spec => []MeasuredInTime
  <1>1. GapInv => MeasuredInTime
    BY DEF GapInv, MeasuredInTime
  <1> QED BY <1>1, TypeInit, TypeNext, GapInit, GapNext, PTL DEF Spec
=============================================================================
