# Indoor logger: TLA+ models, checks and proofs

The repository holds the firmware of an indoor climate logger for two kinds of
ESP8266 boards. *Loggers* (`src/apps/client`) measure temperature, humidity and
air quality, store the records in flash and upload them in batches. A *server*
(`src/apps/server`) keeps one file per logger, serves a web page and hands its
settings (id, name, mode, clock, interval) back in the answers to uploads. Both
use the WiFi manager in `src/components/wifi`. This directory models the parts
of that system in which an order of events decides whether a record survives,
whether a logger and the server agree on who it is, whether a board that lost
its network comes back, and whether what the user is shown - on the web page and
on the logger's display - is what there is.

## Inventory

| Part | State it keeps | Operations | Talks to |
|---|---|---|---|
| Logger's record store, `data_storage.c` | ring of slots with a `synced` flag, header (`write_idx`, `total_written`, `unsynced_count`) in the file and in RAM | `init`, `append`, `read_unsynced`, `mark_synced` | main task (append), upload cycle (read, mark) |
| Logger's network side, `wifi_sync.c` | server address, id, name, mode, interval (the last four partly in NVS) | connect and discover, fetch the time, `upload_unsynced`, `apply_server_config` | WiFi manager, record store, server over HTTP and UDP |
| Logger's main task, `client/main/main.c` | DISCOVERING / CONNECTED / AUTONOMOUS, times of the last reading, upload and discovery, wake-up cause | one loop: read, upload, sleep, wake | all of the above, button, display |
| Button, `button.c` | last raw and debounced state, times of the last change, pending press | poll, consume, arm as wake-up source | main task |
| Display, `ssd1306.c`, `Display.c`, `fonts.c` | the controller's registers and memory, a frame buffer | init, draw, load, light, darken | main task |
| Sensors, `aht21.c`, `ens160.c` | calibration state in the chips | init, read with retries | main task |
| Server's data store, `data_store.c` | a file per client id: header (`write_idx`, `count`) and a ring of records | append, `read_range`, `read_since`, aggregate, rename, delete | HTTP handlers, registry |
| Client registry, `client_registry.c` | up to 16 entries (id, address, name, mode, last seen, online) and up to 16 pending renames; saved in NVS | `update`, `rename_id`, `resolve_id`, `remove`, `check_stale`, `save`, `load` | HTTP handlers, data store, main task |
| HTTP handlers, `http_server.c` | none of their own | upload, set id / name / mode, delete, queries | registry, data store, settings |
| Server start, `server/main/main.c` | settings, clock, UDP responder | start, discovery answers, stale check every 30 s | WiFi manager, registry |
| WiFi manager, `wifi_manager.c` | configured networks and their failures, the active one, connected flag, a retry request shared by two tasks | event handler, retry task, init, rescan | the driver's event loop, main tasks |
| Web page, `web_ui.h` | the client shown, its data, range and mode; which buttons are disabled | rows, ranges, toggles, renames, settings, a refresh every 5 s | HTTP handlers |
| Build scripts | - | partition table, build, flash | - |

How they interact. On a logger one task calls the store and the upload cycle in
turn, so their hazards are resets between two file operations, calls that fail,
and a ring that fills while the server is away. Between logger and server every
request can be lost before or after the server handled it. On the server one
HTTP task runs one handler at a time, so requests are atomic to each other,
but a handler is several file operations long, and a reset may fall between
any two of them. Loggers are told a new id in the answer to an upload, so
renames by the user race with uploads under the old id; entries are also taken
over by address, which races with both. In the WiFi manager the event handler,
the retry task and the main task share plain variables. The web page runs
several asynchronous functions over the same global variables, and their answers
overtake one another. The logger's main task polls the button and times the
display in a loop that sleeps and uploads for minutes between two polls.

What makes each part correct:

- record store: what was not confirmed is uploaded again, what was confirmed is
  not, nothing that was stored is passed over;
- data store: the newest records are read back, oldest first, whatever call was
  interrupted;
- registry: no file is lost, orphaned or mixed with another logger's, and
  loggers and registry agree in the end;
- WiFi manager: no state in which nobody will ever reconnect, and the network
  tried is the network chosen;
- main task: every record is measured on time and an upload is tried again;
- queries: what was uploaded since a time is found, whatever the clocks did, and
  averages are over the records they name;
- web page: the page at rest shows one client, and no button stays disabled;
- button and display: a lit panel shows a whole picture, and goes dark again.

`PROJECT.json` lists the hazards at their lines, each with the properties that
would show it going wrong.

## Modules

| Module | Models | Kind |
|---|---|---|
| `SyncQueue` | what the upload cycle needs from the record store: a FIFO queue | abstract |
| `ClientStorage` | `data_storage.c` and the outcomes of `wifi_sync_upload_unsynced` | detailed |
| `ClientStorageProofs` | theorems about `ClientStorage` | proofs |
| `BoundedLog` | what the HTTP handlers need from the data store: bounded logs | abstract |
| `ServerStore` | `data_store_append`, `read_range`, `rename_client`, `delete_client` | detailed |
| `ServerStoreProofs` | theorems about `ServerStore` | proofs |
| `ServerQueries` | `data_store_get_count`, `read_since`, `read_aggregated` and the handlers that answer from them | detailed |
| `ServerQueriesProofs` | theorems about `ServerQueries` | proofs |
| `ClientRegistry` | `client_registry.c` and its handlers, composed with the files and with the loggers' uploads | detailed, composed |
| `ClientRegistryProofs` | theorems about `ClientRegistry` | proofs |
| `RegistryStore` | the same registry in RAM and in NVS, with the files, write by write | detailed |
| `RegistryStoreProofs` | theorems about `RegistryStore` | proofs |
| `WebPage` | the page's asynchronous functions, composed with the routes they call | detailed, composed |
| `WebPageProofs` | theorems about `WebPage` | proofs |
| `WifiManager` | `wifi_manager.c`: the event handler, the retry task and the task that starts and stops the radio | detailed |
| `LoggerTask` | `client_task` with the discovery of `wifi_sync.c`, composed with the server's `udp_discovery_task` | detailed, composed |
| `LoggerTaskProofs` | theorems about `LoggerTask` | proofs |
| `Oled` | the display driver and the controller it talks to | detailed, part of `Panel` |
| `Panel` | the button, the display and the same loop between them | detailed, composed |
| `PeripheralProofs` | theorems about `WifiManager` and `Panel`, the peripherals with a state of their own | proofs |
| `MCClientStorage`, `MCServerStore`, `MCServerQueries`, `MCClientRegistry`, `MCRegistryStore`, `MCWebPage`, `MCWifiManager`, `MCLoggerTask`, `MCPanel` | small instances | TLC |

### ClientStorage

`pc` is the place of the single task inside the storage code, so that `Crash`
can fall between any two file operations: `append` writes the record
(`AppendRecord`) and then the header (`AppendHeader`), `mark_synced` writes one
flag per turn of its loop (`MarkSlot`) and the header at the end
(`MarkHeader`). `s_header` is the RAM copy, `file` the copy in the file; a
reset loses the first and keeps the second. `data` and `synced` are the slots.
Records are numbered in the order they are measured. Unsigned subtraction is
taken modulo `UintMod`, as the C code does for `uint32_t`. The server is
present as the two outcomes of an upload: `UploadOk` adds the batch to
`delivered`, the records a 200 answered for.

stdio keeps what `fwrite` takes in a buffer until the next `fseek` or `fflush`
writes it out, and the code ignores what these two return (`data_storage.c:46`,
`:50`, `:167`, `:212`, `:217`). `BootLost`, `AppendRecordLost`,
`AppendHeaderLost` and `MarkSlotLost` are the writes that fail there: the call
goes on as if they had succeeded. (Assumed is that a seek whose flush failed
still leaves the next write at its own place. A file system that delays a write
and loses it at a reset has an outcome that these actions have too.)

`Faults` selects what the environment may do: `overrun` (measure on although the
ring is full of unsynced records), `reset`, `mark_reset` (a reset inside
`mark_synced`), `read_error`, `write_error`, `lost_write`. `failed` records the
calls in which a file operation failed, what was lost unnoticed (`Lost`), and
`start_idx` once an upload computed it with
`unsynced_count > write_idx + MaxRecords`, where the unsigned subtraction wraps
around: a property names exactly the errors that it does not survive.

### ServerStore

As above with one file per id. `state` is absent, blank (no valid header) or
valid. `log` is a history variable: the acknowledged records of each id.
`damaged` collects the files that the code itself does not repair: those that a
failing `fopen` or `fread` truncated or cut off (`data_store_append` falls back
to `"w+"`, and a rename stops copying and removes the source), those a reset or
a failed `unlink` left half copied, and those that lack what a flush lost in
`fseek` or `fclose`, whose results are ignored (`data_store.c:103`, `:116`,
`:123`, `:295`): `AppendInitLost`, `AppendRecordLost`, `AppendHeaderLost`, and
`RenameCutOff`, after which the source is removed all the same.

### ServerQueries

Uploads and queries run in one task, so the log of times stands still while it
is searched. A record is reduced to its time, and times may go up and down: a
logger's clock is set back by an answer, and the server stamps the records of a
logger without a clock. `Probe` is one turn of the binary search (`lo`, `hi`),
`ProbeFails` a read that fails in it, `Collect` the reading of what was found,
`AnswerPage` the fallback of `data_get_handler`, `MakeBucket` one bucket of the
aggregation with its inner loop (`Run`). `answer` holds the positions of the
records listed. `DataGetPage` (a page without a time), `Latest` and the CSV export read at
once.

### ClientRegistry

A handler is one step (`UploadApplied`, `UploadUnread`, `ClientIdPost`,
`ClientNameGet`, `ClientBasicModePost`, `ClientDelete`), since the HTTP task
runs them one at a time. `Update` is `client_registry_update`: an id that is not
registered takes over an entry with its address (`Bound`) and moves that
entry's file to its own name (`Renamed`). A logger's record is the pair of the
logger and a number, so that files know whose records they hold. `UploadUnread`
is the upload whose answer is lost in whole or after its status line. A file may
fail to be moved or removed (`Moved`, `MisRenamed`, `ClientDelete`): no caller
acts on the result (`http_server.c:612` logs it and saves the registry anyway,
`client_registry.c:102` and `http_server.c:660` ignore it). `unmoved` are the ids
left with a file by such a call. An append that fails inside an upload is
`ServerStore`'s matter and `RegistryStore`'s, and left out here.

### RegistryStore

The other view of the registry: `mem` are the arrays with their counts in RAM,
`nvs` the five values they are saved as. What a request does in RAM is one step;
what it writes - the values one after another, the move or removal of a file,
the answer - is a list `todo`, one step each, and `Reset` may fall between any
two. `WriteFails` ends a save early, and its caller goes on; so does the caller
of a move or removal of a file that fails (`FileFails`), and an upload whose
records cannot be stored goes on to the registry (`Upload`). After a reset
`Loaded` is what `client_registry_load` makes of the values. `chosen` and `kept`
are history: the name and mode every client should have, now and as of the last
whole save. A takeover is one client under another id, so its wish goes along;
what the entry made anew does not keep of it, the mode and a name that the upload
does not repeat, is noted in `lost` until somebody sets it again. `torn` says that
a reset has fallen inside a save, `touched` and `excused` whose place in the list
a reset or a failed call may cost.

### WebPage

A *call* is the part of an asynchronous function that waits for an answer; it is
sent, answered, lost, an orphan when `fetchJSON` gave it up while the request may
yet arrive, or stalled when the headers have come and the body has not (`Stall`,
`BodyComes`, `BodyFails`): `fetchJSON` clears its timer with the headers
(`web_ui.h:230`), and nothing gives up the wait for the body. `Handle` is the
server taking a request, `Receive` the function going on with the answer up to its
next `await`, `Refused` and `GiveUp` its `catch` and `finally`. `User` are the
clicks. `charts`, `metrics` and `title` say of which client and range they are.
`hurried`, `reordered` and `trouble` are history, so that a property can say
exactly who is misled.

### WifiManager

The manager's static variables keep their names. Three tasks step: the driver's
event task in `wifi_event_handler` (one step per event, because it has the
highest priority on the single core, unless the handler blocks in a scan: then
`HandleScanned` is its second half), `wifi_retry_task` (`task` is its place; each
copy and each clearing of a shared variable is a step, because the event task may
preempt it there) and the main task in `wifi_manager_init_sta_dual` (`main`).
`failures[n]` is `consecutive_failures`; it is counted in dual mode only, which
is what both programs use.

The driver is external: `radio`, the SSID it is configured with (`config`) and
the one it tries (`target`), and the queue `events`. What is assumed of it:
`esp_wifi_connect` does nothing unless the radio is started and idle; an attempt
ends in `got_ip`, in `auth` (a refused password) or in `lost` (any other
reason); leaving a network, also by `esp_wifi_stop`, posts a disconnect; a scan
while the radio is stopped or busy may fail. `rssi` is the signal of each
network, `good` the networks whose password is right. The retry task's `i` is
`waited` here, and the names every specification has (`WifiInit`, `WifiSpec`,
`WifiTypeOK`, ...) carry a prefix, because `PeripheralProofs` extends `Panel` too.

### LoggerTask

`pc` is the place inside one turn of the loop of `client_task`: its top, the
switch on the state, connecting, discovering, uploading, the two sleeps (`nap`
at the end of a wake-up, `sleep` at the end of any other turn). The loop reads
the tick counter once per turn and compares it with remembered times; the model
keeps the *age* of each of them at the top of the turn, cut off at the interval
it is compared with (`since_read`; `since` for the one time that the present
state consults, since each is set when its state is entered). `ticks_run` says
whether the tick counter goes on in light sleep: nothing in the repository
depends on one answer consistently, so both are checked.

The WiFi manager is what `WifiManager` shows of it: a started radio gets onto a
network in reach (`Connected`), and a stopped one has been reported
disconnected before the next turn begins. To stop it may fail, or take longer
than the bounded wait for it, and the loop goes on all the same (`Stop`,
`LateStop`; `client/main/main.c:374`, `:720`); `unstopped` is history, and says
so of the present turn. An upload succeeds only if the
address the logger holds is the server's. `responder` and `server_ip` are the
UDP task's place and its copy of the address, and `ip` the address the server
really has.

What the model makes visible: after every wake-up the logger is AUTONOMOUS and
sleeps 300 s, so the sync interval and the hourly discovery of `README.md:159`
and `README.md:160` count only while a held button keeps it awake; and the turn
after that sleep is no wake-up, so it uploads after every second sleep.

### Oled and Panel

`Oled` sends a command byte by byte, each in a transfer of its own, as
`ssd1306.c` does, to a controller that keeps an unfinished command until its
other bytes come; so an initialisation that broke off inside a command gives its
first byte of the next attempt to the old command. The controller is external and is
what the driver takes it for. The setters' range guards and masks hold for the
values that the programs pass. A picture is a name.

`Panel` is `client_task` again, with the network reduced to uploads that take
some time and may bring a new mode or id. `Top` is the debouncing poll and the
display's time-out, `Press` the second look at the button, behind the
measurement and the upload; the loop's `now` is read before these, hence `late`.
The loop turns a dark panel on with a blank picture and draws the screen or the id
in a call of its own behind that: `showing` says that this `UpdateDisplay` is due.
Transfers fail during the initialisation only; new ids arrive in uploads only.
`by` and `lights` are history: what turned the panel on, and how often a press
has.

## Runs

| Run | Question | Instance |
|---|---|---|
| `storage_faults` | do overruns, resets, failing reads and writes, and writes lost in a buffer lose or falsely confirm records? | ring of 3, batch of 2, 2 resets, `UintMod` 257; 4 records, and up to 6 in behaviours with few faults (`FewFaults`) |
| `storage_queue` | is the ring a FIFO queue that drains? | ring of 3, batch of 2, 6 records, 2 resets outside `mark_synced` |
| `store` | what do resets, failing calls and failing flushes leave of the server's files, and are they bounded logs until then? | 2 ids, ring of 3, 5 records, 1 reset; past 3 records while a file is undamaged (`SomeSound`) |
| `queries` | are the records asked for found, averaged and answered? | times 0 to 3 in any order, ring of 4, answers of up to 3, 2 buckets of 2 s, failing reads |
| `registry_files` | do takeovers, renames and deletions lose or orphan files? | 2 loggers, 3 ids, 3 addresses, no names, room for 2 entries, 2 requests, all events; one misplaced file, with room in the registry (`OneMisplaced`) |
| `registry_converge` | do loggers and registry agree in the end, and do files stay apart? | 2 loggers, 3 ids, room for 3, 3 requests, fixed addresses, one rename pending at a time |
| `registry_routed` | does an upload under a renamed id survive? (violated) | 1 logger, 2 ids, 2 requests |
| `registry_store` | what does a reset between two writes, or one that fails, cost the list and the files? | 2 loggers, 3 ids, room for 3, 2 requests, 2 resets, failed writes or failed moves |
| `web` | does the page at rest show one client, and does it come to rest? | 2 clients and an id to rename to, a long and a short range, 1 setting, 3 clicks, 1 request lost, stalled or given up |
| `wifi` | does a station that lost its network come back, to the network it chose? | 2 networks, 2 signal levels, delays of 1, 2 and 3 s, 2 changes of the air, 1 restart of the radio |
| `logger` | does the logger measure in time, sleep safely and come back to uploading? | readings every 2 ticks, discovery and upload due after 3, 1 short poll, 2 addresses; the world may change for ever |
| `panel` | is what is lit whole, and does a press end in the dark? | 128 x 32, a screen 1, an id and a long press 2 ticks, uploads and sleeps of up to 3; the first attempts break off anywhere, two failing ones after 2 bytes |

Why the bounds are enough. A ring of three is the smallest in which a batch is
shorter than the window, the window is shorter than the ring, and the window can
wrap; six records overrun it by its own length, and two of them delivered and four
not are enough for an upload to wrap `start_idx` and leave a record behind.
`storage_faults` follows a behaviour past the fourth record only while no read and
no write of a flag has failed, nothing was lost in a buffer, and no more than two
resets or failed appends are behind it; up to there every fault may happen at
every step. After a write lost in a buffer it is followed until the ring has been
filled once, with one reset at most; the theorems have no such bound. A batch of
two can be marked by half, and two resets hit two different calls. `UintMod` need
only be large against the ring (the assumption `UintMod > 2 * MaxRecords` says how
much) for subtraction to wrap where it wraps modulo 2^32; 257 is not a multiple of
the ring's size, as 2^32 is not of the code's `max_records`. In `queries` a search
over four records takes up to three probes, times of four values in any order put
a jump back before, at and behind every probe, and more records than an answer or
two buckets hold let each be cut short; the theorems lift all of these bounds. Two
loggers are needed for a takeover and for two records to meet, three ids for a
chain of two renames, three addresses for a logger to move to an address nobody
has and back. In `registry_files` the registry has room for two of three ids, so
it is full while a third appears; names play no part in what becomes of files, and
after a failed move one misplaced file is enough for every later request to meet
it (the theorems know no such bound). In `registry_store` two faults let a reset
meet what an earlier one left, and three slots hold two loggers and an entry that
a reset left without an id. Three clicks on the page are one that opens a client
and two that race with each other; `WebPageOneClient` holds for any number. The
three delays of the WiFi manager only have to differ, and two networks are what
dual mode has; two changes of the air let the active network vanish and another
one, or the same, appear while a request waits; one restart puts every stage of
`wifi_manager_init_sta_dual` beside every stage of the other tasks. In the
logger's runs only the order of the intervals matters: a turn is shorter than the
time between readings, and that is shorter than the retry interval; two addresses
let the server move and return. In `panel` the times keep their order (a screen
shorter than an id and a long press, a long press no longer than two screens as 5
s are to 8 s, both shorter than the three screens of a press), sleeps and uploads
are as long as the display's time, and a press may come and go at any tick.
Uploads must be that long: with those of one tick no press lights the panel more
than twice, and it can three times.

### What the runs show

- `SyncedWasDelivered`: no record is flagged before its 200, through overruns,
  wrap-around, resets, failed writes and writes lost in a buffer. It exempts
  behaviours in which a read failed *inside `read_unsynced`* - see the known
  limits.
- `PendingInWindow`, `UnsyncedCountCovers`: the `unsynced_count` slots before
  `write_idx` contain all that is still owed. The count covers it whatever call
  reports an error; the place holds until a flag fails to be written or
  `start_idx` wraps around. Neither survives a write that was lost in a buffer
  (`Lost`): the append returned 0, or the flag was counted, and without this
  premise TLC finds both violated (see the known limits).
- `NoSilentLoss`: without failing file operations in `init`, `read_unsynced` and
  `mark_synced` and without writes lost in a buffer, an acknowledged record that
  is younger than the ring's capacity is delivered or is still in the window.
  `PendingInWindow` and `NoSilentLoss` exempt behaviours in which `start_idx`
  wrapped around: without this premise TLC finds both violated (see the known
  limits).
- `ImplementsSyncQueue`, `EventuallyDelivered`: as long as the ring does not
  overrun, the store refines `SyncQueue` and every stored record is delivered.
- `RecentKept`, `TailInOrder`: of an undamaged file the last `MaxRecords - 1`
  acknowledged records are read back last and in order, whatever write a reset
  interrupts and whatever call reports an error. What the code does not notice
  makes a file damaged, a flush that fails among it.
- `ImplementsBoundedLog`: until a fault the files are bounded logs.
- `RecentFound`, `FoundExactly`: however the times jump, the binary search does
  not land behind the last old record, so what was uploaded since is found, unless
  the answer is full, and an answer has no hole; in a log in order nothing else is
  found. Which end of the log a full answer leaves out is not part of the
  property, because code and header disagree on it (see the known limits).
- `BucketsSplit`, `Answered`: the averages are over consecutive runs that split
  what was read, and every request that begins to search is answered.
- `FilesTracked`, `HistoryKept`: no file is left behind under an id that no page
  lists, unless the registry was full or the file could not be moved or removed;
  only a deletion, or a move of that or onto such a file, loses stored records.
- `NotMixed`, `Converges`: with fixed addresses, files that can be moved and one
  rename pending at a time, files stay apart, and every logger ends up with its
  entry's id, name and mode. Chains of pending renames are outside: with them
  both are false (see the known limits).
- `ListedOnce`, `EntriesKept`: a reset or a failed write costs at most the
  clients of the request it cuts off their place in the list, a failed move or
  removal leaves no other file than its own unlisted, and no id is listed twice;
  names and modes stay with their clients as long as no reset falls inside a save,
  but for the mode, and a name not yet told to the logger, of a client taken over.
- `OneClient`, `Settles`: the page at rest shows the client that its buttons act
  on, and only a user who clicks on while answers overtake one another or fail
  is misled; it always comes to rest, whatever is lost, unless an answer stops
  behind its headers and never goes on.
- `StatusSettles`, `NoStall`: with restarts of the radio as on the logger and
  without as on the server, `wifi_manager_is_connected` is right once the events
  are handled, and a started, idle radio is always on somebody's agenda.
- `ActiveTried`, `EventuallyConnected`: while the radio is left on, as on the
  server, the unguarded flags lose no switch of the network, and the station
  gets onto a network when the air settles. With a restart in the retry task's
  copying window a switch can be lost until the next start applies it.
- `MeasuredInTime`: two intervals is the longest time without a record; it is
  reached when the tick counter stops in light sleep.
- `SleepsOffline`: every path into a sleep stops the radio first. It is on in a
  sleep only if `esp_wifi_stop` of that very turn failed or was late, which the code
  does not look at.
- `UploadsResume`: whatever happened before, the logger uploads again once the
  network stays and the responder knows the server's address, even with a stuck
  button, which keeps the loop from sleeping.
- `Shown`, `HeldLights`, `PressGoesDark`: after an initialisation that returned
  success a lit panel shows a whole picture, even if the first attempt broke off
  inside a command, and is blank only from `display_on` to the `update_display`
  that follows it; a held button lights it at most three times, and what a press
  lit goes dark. Three: in the cycle it woke, by the second look at the pin
  in the turn behind that cycle, and, where the upload of that turn outlasted the
  display's time (which counts from before it), by the poll at the next top, which
  has not reported this press yet. Then it is a long one and is ignored.

One run is expected to be violated, and is a finding in `PROJECT.json`:

- `registry_routed`: `upload_post_handler` stores the records under the id in
  the request before it asks the registry. If that id was renamed, the takeover
  by address then renames the file of the new id over the file just written.

### Fairness

`storage_queue`: weak fairness for every step of the storage code, because it runs
in a task that loops for ever and each call ends; strong fairness for `UploadOk`:
the server answers infinitely many of the uploads that are tried. Nothing is
assumed about measuring and resets. `registry_converge`: weak fairness for
`UploadApplied` of each logger: it uploads in every cycle, and not every answer is
lost. The user is not assumed to do anything. `queries`: weak fairness for the
handler, one task that goes on with its request. `web`: weak fairness for the
server taking some request, and for the browser continuing some call, by its
answer or its timer; clicks, losses, stalls and the periodic list are not fair.
`wifi`: weak fairness for the handler, the retry task, the starting of the radio
and the driver: each is a task that runs when it has something to do, and the
driver ends every attempt and notices a lost link. The air, glitches and restarts
are bounded, not fair. `logger`: weak fairness for the loop and the responder,
which run in tasks of their own; strong fairness for a wake-up whose sensors work,
for joining the network, for discovery and for uploads: infinitely many of those
that can succeed do. `panel`: weak fairness for the loop; the user is not fair.

## Theorems

`tlapm` proves, for every value of the constants within the stated assumptions:

| Theorem | Statement |
|---|---|
| `StorageTypeOK` | the store's header and slots stay in range |
| `StorageSyncedWasDelivered` | `SyncedWasDelivered` is an invariant |
| `StorageUnsyncedCountCovers` | `UnsyncedCountCovers` is an invariant: it holds through every fault but a counted write that is lost in a buffer |
| `StoragePendingInWindow`, `StorageNoSilentLoss` | `PendingInWindow` and `NoSilentLoss` are invariants, under the premises they name |
| `StorageImplementsSyncQueue` | with no fault but resets outside `mark_synced`, the ring refines `SyncQueue` |
| `StoreTypeOK`, `StoreTailInOrder`, `StoreRecentKept` | the three invariants of `ServerStore`, for files that no unnoticed failure has damaged |
| `StoreImplementsBoundedLog` | until a fault, the files refine `BoundedLog` |
| `RegistryStoreTypeOK`, `RegistryStoreListedOnce`, `RegistryStoreEntriesKept` | the three invariants of `RegistryStore`, wherever resets, failed writes and failed moves fall |
| `RegistryTypeOK` | neither table of the registry outgrows its room |
| `RegistryFilesTracked` | every file with records belongs to a listed or refused id, or could not be moved or removed |
| `RegistryHistoryKept` | `HistoryKept` holds of every step, failing moves included |
| `RegistryNotMixed` | `NotMixed` is an invariant under its four conditions (`Settled`) |
| `TypeCorrect` | a ring never outgrows its capacity, and a search stays inside it |
| `SearchCorrect` | the search keeps the place it looks for between its bounds |
| `RecentIsFound`, `FoundExactlyInOrder` | `RecentFound` and `FoundExactly` are invariants |
| `NoOldWhenNew` | old records are answered only when the newest one is old |
| `BucketsAreASplit` | `BucketsSplit` is an invariant |
| `WebPageTypeOK`, `WebPageOneClient` | the two invariants of `WebPage`, for any number of clients, clicks and failures |
| `WifiTypes`, `WifiStatusSettles`, `WifiNoStall`, `WifiActiveTried` | the four invariants of `WifiManager` |
| `PanelTypeOK`, `PanelShown`, `PressesLightUp` | the three invariants of `Panel`, for every panel, all times with a long press of at most two screens, all uploads and sleeps |
| `LoopHolds` | the invariant of the loop that these rest on |
| `LoggerTypeOK`, `LoggerSleepsOffline`, `LoggerMeasuredInTime` | the three invariants of `LoggerTask` |

*StorageSyncedWasDelivered.* The property alone is not inductive: marking slot
`i` is right only because of what `read_unsynced` did earlier. The invariant
`DeliveryInv` adds `BatchInv`: while reading, the first `i` slots of the window
hold only records of the batch, flagged ones or nothing, and the batch is not
longer than `i`; while uploading, this holds of the first `Len(records)` slots;
while marking, the unflagged records in these slots are delivered. Every record
read cost at least one slot, so the slots that `mark_synced` visits were
all visited by `read_unsynced`, even if the ring overran and the window visits
slots twice. A failed read in `read_unsynced` breaks `BatchInv`, hence the
premise; the failed calls only ever accumulate (`FailedGrows`).

*StorageUnsyncedCountCovers.* A header stands for the slots of its window, those
whose `Age` - the distance behind its `write_idx` - is below `unsynced_count`.
`CountInv` says that the header in memory, and the one in the file, counts at
least as many slots as are pending or lie unflagged in its window (`Owed`). That
is more than the property asks for: the count that `mark_synced` takes off is the
number of flags it newly set *in the window*, so a slot there that holds an
unacknowledged record has to be counted as well. While marking, the slots already
flagged are still counted. `NoneOf` carries the header in the file over the
appends that were not yet saved: a slot it does not know of yet holds nothing
acknowledged. A header or a flag that was counted and then lost in a buffer breaks
all of this, hence the premise; what was lost stays on record (`FailedGrows`).

*StoragePendingInWindow.* `WindowInv` places the pending slots inside the window of both
headers. A new header's window is the old one moved on by a slot
(`HeaderAfterAppend`), and after marking it loses its oldest slots, which
`mark_synced` flagged one by one. `WindowIsScanned` leads from the window to the
slots that one turn of `Position` visits: `start_idx` is the window's oldest slot as
long as the count fits into the ring, and any slot after that.

*StorageNoSilentLoss.* `AgeInv`: a slot's age is at most the number of records
measured since its own, so the slot to be overwritten, whose age is the capacity
minus one, holds a record as old as the ring. With it an acknowledged record
stays in the ring as long as the property says (`KeptInv`); the two theorems above say the
rest.

*StorageImplementsSyncQueue.* `QueueInv` adds to the numbers that the header in
the file is the one in RAM whenever the board is up, and that the window is `Lined`:
place by place later records, none of them delivered and none flagged but those of
the batch that `mark_synced` works on. The batch is `Taken` from the window's head,
and while marking `marked = i`, so the count goes down by the whole batch. Below a
full ring a place of the window is the slot of a given age (`ScanPlaces`,
`PlaceOfAge`), whence an append leaves the places alone and adds one
(`PlacesAfterAppend`), and marking shifts them (`PlacesAfterMark`). `QueueActions`
writes out the mapping; then `AppendHeader` is `Put`, `ReadDone` is `Fetch`, a 200 is
`Confirm`, `MarkHeader` is `Discard`, a failed upload or a reset during one is
`Abandon`, and an empty batch or any other step leaves the queue alone. The premise
is the one of the run: an overrun or a failed read or write breaks `Lined`.

*The data store.* `FileInv` says what an undamaged file is: below a full ring
`write_idx` is `count`; the acknowledged records are the latest of the ring
(`Kept`); behind the oldest place the ring ascends (`Ascends`); and no slot below
`count` is empty (`Filled`). The oldest place of a full ring is exempt: it is where
an append that was cut off before its header left its record, and the next append
overwrites it. `NumberInv` adds that the record of the append under way is later
than all others, and `RenameInv` relates the file that `data_store_rename_client`
fills to the one it copies: the copy stops at the first slot without a record, and
a sound file has none behind that. What a full read returns of such a
file (`ReadFilled`, `ReadAscends`) needs lemmas on the loop whose failed reads
leave no gap in `out` (`FillerWorks`), and these the least element of a set of
naturals (`LeastNatural`). For the refinement `LogSeen` writes out the mapping, and
`RefinementStep` shows for every operation which abstract step it is: the record
of an append to a full ring is `MakeRoom`, its header `Add`, `RenameUnlink` is
`Move`, and the rest of a rename leaves the logs alone.

*The registry write by write.* `RegInv` has four parts. `Table` relates a registry
to a count of clients in flash: no id is listed twice; what lies behind the
registry's own count has no id as far as flash's count reaches; and what lies
beyond flash's count belongs to requests not saved to the end. The second clause
is what makes the first inductive, since a reset between the writes of `clients`
and `count` boots new entries with an old count: those the old count takes in must
not repeat an id. The third keeps the files listed after such a reset. `Shape`
says what a request may have left to do - a move, then a tail of the five writes
in their order, then a removal or the answer - and `SavedUpTo` that the values
before the one to be written are those of RAM already, so that the last write
leaves flash equal to RAM (`AfterWrite`). `FilesInv` accounts for each file twice,
by the table in RAM with what is left to do, and by the table in flash with the
ids of unsaved requests. `Fits` relates a table to the name and mode wanted for
each id, but for what a takeover lost; it holds of RAM and `chosen`, and between
saves of flash and `kept` (`KeptInv`). The lemmas say what each operation on the
arrays makes of a `Table` and of `Fits` (`AddedTable`, `RemovedTable`,
`UploadedTable`, `RenamedTable`, ...), so that the steps of a request need not
look at the arrays again.

*RegistryFilesTracked* and *RegistryHistoryKept* rest on what a move of a file
does (the lemmas on `Renamed` and `Update`): the target of a move is never a
listed id, so by `FilesTracked` it holds nothing unless it was refused or left by a
failed move; and a move that fails leaves every file but its two alone. The
bound on the tables needs cardinality lemmas on replacing one key by another.

*RegistryNotMixed.* `HomeInv` gives every id to at most one logger. `Linked` is the
id a logger uses and, while a rename of it is pending, the other of the two: it
may still upload as the old one. The files hold records of the logger whose id is
linked to theirs (`Owned`), and an entry with an address has that of such a logger
(`Attached`), so an upload takes over only what was its own (`UpdateHome`). Under
`Settled` at most one rename is pending, since the next waits for the table to be
empty again, and it leads to an id no logger has.

*The queries.* `Bracket` is what a binary search knows when its log need not
ascend: the record before `lo` is older than the time asked for, the one at `hi`
is not. So no `Recent` position lies before `lo`, in whatever order the times are
(`RecentIsFound`); in a log that ascends everything from `hi` on is recent as
well (`FoundExactlyInOrder`). For the buckets the invariant
adds that what is left lies behind every bucket made, so that a run, which
ends before the rest, splits it in two.

*WebPageOneClient.* `PageInv` is about what is still on the way, since a page at rest
is right because of the answers that were yet to come. `Alone` is for a user who waits:
at most one call is waited for, if it loads a client it is the one shown, and if none
does the page says its last word about that one already. `Following` is for answers
that come in order and do not fail, however fast the user clicks: the *last* data
asked for are the client's (`DataFollow`) and of the chosen range (`RangeFollows`),
the last client asked for is the one shown, its answer true to the server
(`ClientFollows`), and where nothing is left to come the page shows it already
(`ShownFollow`). The two parts do not speak of a pending toggle, rename or timer,
which replaces all of this: they end in `showDetail`, and whatever came before,
the call it appends is the last one (`Asked`). In order means from the front of `calls`
(`FirstTaken`), and the lemmas `FirstOut` and `LastIn` say which calls are the last of
their kind when one goes or comes. The two cases meet in `NoOvertaking`: who waits
overtakes nothing until something fails.

*The WiFi manager.* Three invariants, each about one hand-over between tasks.
`StatusInv`: the last event in the queue that tells of the connection tells
what the radio does, and with no such event the flag does. `RequestInv`: a
pending request that the retry task has not taken up has notified it.
`TokenInv`: while the radio is left on, exactly one party acts on the station at
a time - the driver, an event in the queue, the scan of the handler, or the
retry task - and the network it acts with is the active one or is about to be
applied. The invariants hold for any number of networks, delays and changes of
the air.

*LoggerMeasuredInTime.* `GapInv` splits the true time since a measurement into
what the loop's clock knows and what it may have missed. It can miss only the
sleep after a wake-up, which begins right after a measurement and lasts one
interval; a sleep that the loop plans itself ends by the next reading, and the
wake-up behind it measures whatever its clock says. So the gap is two intervals and
the turn in which the second ends.

*PressesLightUp.* That `lights` is at most three is not inductive, since the button may
still be down. `Budget` adds what is to come: `CyclesLeft`, one while a wake-up by the
button has not had its cycle, and `PressesLeft`, how often a look at the button may
still find a press to report to a dark panel as long as it is held. The sum never
exceeds three, and letting go starts a new press with a new count. That a short press
which has lit the panel cannot do so again before it counts as a long one needs the
panel to stay lit until then: the age of the press and the time the panel is still on
add up to a long press (the last line of `PressesLeft`), which is where the
assumption `LONG_PRESS <= 2 * SCREEN_INTERVAL` comes in. `Order` ties the place in the
loop to the button's state.

*PanelShown.* What a lit panel needs is what every byte sent so far has made of the
controller. `Sent` folds over a command's bytes, and no induction over them is needed:
the states after each byte are a function (`History`) that is determined by its first
value, because two that differ would differ at a least place (`LeastNumber`). So a
command sent to a controller with no half command sets its own register and no other
(`SentIs`; from it `InitDone` for the whole of the initialisation, and `LoadIs` for
a picture). The first attempt may have broken off inside a command. `PlainOK` says
that such a half command lacks one byte only, since none of `ssd1306_init` has two
arguments; so the first byte of the next attempt either completes it or turns the panel
off (`SentFirst`), and everything behind it arrives whole. `ShownInv` then says of each
place of the loop what the controller, the frame buffer and the task's idea of the
screen have in common; each action has a lemma of its own.

Only model-checked: liveness (`EventuallyDelivered`, `Converges`, `Answered`,
`Settles`, `EventuallyConnected`, `UploadsResume`, `PressGoesDark`), which is
out of the prover's reach. Every invariant that a run checks is a theorem.

## Known limits of the code the models exempt

Each was met while modelling; the properties above name the condition under
which it does not arise.

- `mark_synced(count)` marks the first `count` *slots* of the window, while
  `read_unsynced` returned `count` *records*. After an `fread` error in between
  (`data_storage.c:195`) a record that was never sent is flagged. After flagged
  slots at the window's head (a reset in `mark_synced`), delivered records stay
  unflagged and are uploaded again.
- After an overrun `unsynced_count` exceeds the ring, and the window starts at
  another slot and is scanned more than once: records are uploaded repeatedly and out
  of order. None younger than the ring is lost as long as `unsynced_count` does
  not exceed `write_idx + max_records` when an upload begins.
- Where it does, the subtraction in `start_idx` (`data_storage.c:189` and `:208`)
  wraps around 2^32, which is no multiple of `max_records` unless that is a power
  of two, and the window starts at a slot that is not the oldest. With
  `write_idx` 0 and `unsynced_count` `max_records + 1` it starts at slot
  (2^32 - 1) mod `max_records`; a batch of 50 marked there lowers the count to
  `max_records - 49`, and if slots 0 to 48, the oldest records, are not among the
  flagged ones, they are outside the window from then on and are overwritten
  unsent.
- A write that fails when stdio's buffer is written out is not noticed, since the
  results of `fseek` and `fflush` are ignored: `append` returns 0 although record
  or header never reached the flash (`data_storage.c:46`, `:50`, `:167`), and a
  flag is counted although it did not (`:212`, `:217`), so the count can fall below
  what is owed. On the server the same holds of `fseek` and `fclose`
  (`data_store.c:103`, `:116`, `:123`), and a rename removes its source after
  closing the copy failed (`:295`).
- A reset between the flags and the header in `mark_synced`
  (`data_storage.c:216`) leaves flagged slots at the window's head. When a scan
  finds only such slots the batch is empty, an empty batch marks nothing
  (`data_storage.c:224`), and the header's count is never lowered: nothing behind
  a full window of flagged slots is looked at again, against `README.md:97` of the
  client. `storage_queue` therefore has no reset inside `mark_synced`.
- `data_store_append` recreates a file that `fopen("r+")` fails to open, and a
  rename whose copying stops at a read error still removes the source.
- A rename while an earlier one is not confirmed can free an id that is still
  promised to a logger (`client_registry.c:47`), and leads to chains of pending
  renames (`client_registry.c:52`); two loggers may then be told the same id. With
  it (`impatience`) TLC finds `NotMixed` and `Converges` violated, so they are
  checked with one rename pending at a time.
- A file that cannot be moved stays where it is, or in part, and the registry is
  saved all the same (`http_server.c:612` logs a warning, `client_registry.c:102`
  ignores the result): it is listed under no id, and the next move to its id
  replaces it. A deletion that cannot remove the file answers as if it had
  (`http_server.c:660`).
- A pending rename is removed by a takeover only (`client_registry.c:102`), not
  when the logger confirms its id by using it, as `client_registry.h:75` says.
- The waiting loop of `wifi_retry_task` breaks when *no* newer request is pending
  (`wifi_manager.c:316`), so it ends after one second; the 60 s and 60 min of
  `README.md:398` are never waited for. The delays are modelled and have no
  effect.
- `udp_discovery_task` reads the server's address before it blocks in
  `recvfrom`, which has no timeout (`server/main/main.c:302`). If the server
  comes back with another address meanwhile, every later probe is answered with
  the old one: the reason for the premise of `UploadsResume`.
- The networks are scanned after two failures of the active one
  (`FAILOVER_THRESHOLD`, `wifi_manager.c:53`), of any kind but a refused
  password; `README.md:401` and `README.md:475` speak of three `NO_AP_FOUND`.
- A refused password never counts as a failure: a station whose strongest
  network has the wrong password configured stays with it, the reason for the
  premise of `EventuallyConnected`.
- A press ends a sleep early, but `client_adjust_time_after_sleep` moves the
  clock on by the whole planned sleep. Records are then stamped ahead of time
  until an upload sets the clock back, so the timestamps of a file need not
  ascend, as the binary search of `data_store_read_since` needs.
- A takeover by address makes the entry anew (`client_registry.c:102`): the mode
  goes, and so does a name that the logger was not told yet. A logger that missed
  the answer with its new id thus costs its user both, where
  `client_registry.h:65` speaks of "preserving name/IP/status/basic_mode" and of
  uploads under the old id that are "routed to the renamed entry".
- `esp_wifi_stop` may fail, or take longer than the loop waits for it, and the
  logger sleeps all the same (`client/main/main.c:374`, `:720`), with the radio on
  that its own comment says makes light sleep unstable.
- `fetchJSON` clears its timer with the headers (`web_ui.h:230`) and then waits for
  the body: a body that never comes leaves the button disabled, or the page
  loading, until the connection breaks.
- `RegistryStore`, after a reset inside one request: an insertion cut off between
  the clients and the count is not listed, and the next new client inherits its
  name; a deletion cut off there leaves an entry without an id that nothing
  removes; after a rename whose file was moved, or a deletion whose file was not
  removed, a file stays that no page lists; a save cut off before the pending
  renames undoes a rename for the logger.
- The web page saves its settings with a GET of a value, which the server
  answers with the old one: "Saved" is shown and nothing changes
  (`README.md:411`). The averaged answers for twelve hours and more carry `ts`
  where the page's filter looks for `timestamp`, so these charts stay empty.
  A client without data leaves the charts of the one before it on the page.
- A new id that arrives while the display is dark turns the panel on and starts no
  timer: it stays lit until the next press is over (`PressGoesDark` is about presses).
  A press that wakes the logger lights the panel, and a button still down behind
  that cycle lights it up to twice more. If a long press were longer than two screens
  it could be oftener; `PanelAssumption` excludes that, and the code has 5 s and 4 s.
- A wake-up by the timer while the display is on (the short first sleeps are not
  shortened to the display's time) sleeps on with the panel lit.
- A name of 22 characters and more is wider than a column counter of eight bits
  at scale 2, and is drawn over its start.
- A failed sensor read stores the last values as a new record.
- `data_store_read_since` is documented as "newest-first" (`data_store.h:67`), but
  reads on from the oldest record it finds: an answer of `data_get_handler` is in
  ascending order, and one that is full leaves out the newest records, not the
  oldest. `RecentFound` holds of either order; the mutant that leaves out
  what it found first breaks it. The averages are over the first 2000.

## Not modelled, and the plan

In this order:

1. The time of a client's last upload with the online flag and the stale check of
   the other task (`client_registry.c:182`); the POST handlers of the settings;
   what both programs keep of their settings in NVS.
2. The wall clock: a press ends a sleep early and the clock is moved on by the
   whole of it (`client/main/main.c:205`). No model carries it; `ServerQueries`
   takes its consequence, times in any order, for granted.

The sync interval's 32-bit product (`client/main/main.c:612`) is not modelled: it
is raised to a minute at least, and hardly used.

Left out for good: conversions without state (the sensors' registers, the JSON
and CSV texts, number formats), the SH1106 variant, scrolling, shapes and
bitmaps of the display driver, which neither program uses, the glyph tables, the
drawing of charts and tooltips, and the build scripts.
