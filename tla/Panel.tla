-------------------------------- MODULE Panel --------------------------------
(***************************************************************************)
(* What a user sees and touches of a logger: the button (button.c), the    *)
(* display (module Oled) and the part of client_task of                    *)
(* apps/client/main/main.c that connects them, with the sensors whose      *)
(* readings are shown.  LoggerTask has the other half of that loop, the    *)
(* network; here an upload takes some time and may bring a new id or mode. *)
(*                                                                         *)
(* A tick is the shortest turn of the loop, 100 ms, which is more than     *)
(* DEBOUNCE_TIME_MS: a level that two turns see is a stable one.  A time   *)
(* is kept as its age, or as what is left of it.  Transfers to the display *)
(* may fail while it is initialised, not later.                            *)
(***************************************************************************)
EXTENDS Oled, FiniteSetsExt

CONSTANTS
    SCREEN_INTERVAL,   \* DISPLAY_SCREEN_INTERVAL_MS
    ID_TIME,           \* how long a new id is shown
    LONG_PRESS,        \* LONG_PRESS_IGNORE_MS
    Breaks,            \* bound: the bytes that arrive when both attempts fail
    MaxTurn,           \* bound: the longest upload
    MaxSleep           \* bound: the longest sleep

ASSUME PanelAssumption ==
    /\ Picture = {"garbled", "blank", "ready", "error", "id", "0", "1", "2"}
    /\ \A n \in {SCREEN_INTERVAL, ID_TIME, LONG_PRESS, MaxTurn, MaxSleep} : n \in Nat \ {0}
    /\ LONG_PRESS <= 2 * SCREEN_INTERVAL

VARIABLES
    pc,                \* where the task is
    showing,           \* update_display is to be called next
    ret,               \* what display_init returned; "dim" its last command failed
    basic,             \* wifi_sync_is_basic_mode
    woke,              \* woke_by_button, woke_by_timer or neither
    display_active, display_screen,
    on_left,           \* until display_on_until, 0 unless display_active
    shown_for,         \* since last_screen_switch, 0 unless display_active
    id_left,           \* until s_id_display_until
    late,              \* since now was read
    held, raw,         \* the button is down; s_prev_button_raw
    last_button_state, debounced_state, long_press_ignore, press_reported,
    press_age,         \* since press_start_time, 0 while the button is up
    pressed,           \* button_pressed, FALSE once it was used
    ticks_run,         \* the tick counter goes on in light sleep
    by,                \* history: what turned the panel on
    lights             \* history: how often this press has lit the panel

button  == <<last_button_state, debounced_state, long_press_ignore, press_reported, pressed>>
screens == <<display_active, display_screen>>
timers  == <<on_left, shown_for, id_left, press_age>>
modes   == <<ret, ticks_run>>
display == <<chip, fb, showing>>
vars ==
    <<pc, woke, raw, late, basic, held, button, screens, timers, modes, display, by, lights>>

\* Mutant: one screen more than the display has.
MutMaxScreens == IF basic THEN 2 ELSE 4

max_screens == IF basic THEN 2 ELSE 3

TypeOK ==
    /\ OledTypeOK
    /\ pc \in {"boot", "ready", "start", "top", "cycle", "upload", "next", "end", "work",
               "sync", "press", "sleep", "asleep", "nap"}
    /\ ret \in {"none", "ok", "dim", "failed"} /\ woke \in {"no", "button", "timer"}
    /\ display_screen \in 0 .. 2
    /\ on_left \in 0 .. 3 * SCREEN_INTERVAL /\ shown_for \in 0 .. SCREEN_INTERVAL
    /\ ~display_active => on_left = 0 /\ shown_for = 0
    /\ id_left \in 0 .. ID_TIME /\ late \in 0 .. MaxTurn
    /\ press_age \in 0 .. LONG_PRESS
    /\ by \in {"none", "press", "id"} /\ lights \in 0 .. 4
    /\ {basic, held, raw, last_button_state, debounced_state, long_press_ignore,
        press_reported, pressed, ticks_run, display_active, showing} \subseteq BOOLEAN

Init ==
    /\ chip = PoweredOn /\ fb = "blank" /\ showing = FALSE
    /\ pc = "boot" /\ ret = "none" /\ woke = "no"
    /\ basic \in BOOLEAN /\ ticks_run \in BOOLEAN
    /\ display_active = FALSE /\ display_screen = 0
    /\ on_left = 0 /\ shown_for = 0 /\ id_left = 0 /\ late = 0
    /\ held \in BOOLEAN /\ raw = TRUE
    /\ last_button_state = FALSE /\ debounced_state = FALSE
    /\ long_press_ignore = FALSE /\ press_reported = FALSE
    /\ press_age = 0 /\ pressed = FALSE
    /\ by = "none" /\ lights = 0

-----------------------------------------------------------------------------
\* app_main.

\* ssd1306_init from c on: the first n bytes arrived.  After a failure it is
\* called again, and the first again bytes arrive.
Attempts(c, n, again) == Got(Got(c, InitCommands, n), InitCommands, again)

\* display_init.  The result of the last command is not looked at.
display_init ==
    /\ pc = "boot" /\ pc' = "ready"
    /\ \E n, again \in 0 .. Len(InitCommands) :
          LET c == Attempts(chip, n, again)
          IN \/ {n, again} \subseteq Breaks /\ ret' = "failed" /\ chip' = c
             \/ /\ again = Len(InitCommands) \/ (n = Len(InitCommands) /\ again = 0)
                /\ \/ ret' = "ok" /\ chip' = Sent(c, set_whole_display_lighting(FALSE))
                   \/ ret' = "dim" /\ chip' = c
    /\ UNCHANGED <<fb, showing, woke, raw, late, basic, held, button, screens, timers,
                   ticks_run, by, lights>>

\* display_clear_fb, drawing and display_present.
Draw(picture) == fb' = picture /\ chip' = Loaded(chip, picture) /\ showing' = FALSE

\* The same, and then the panel is turned on.  A screen or an id comes after
\* that, when a blank panel is lit already.
DrawOn(picture) ==
    /\ fb' = picture /\ chip' = Sent(Loaded(chip, picture), display_on(TRUE))
    /\ showing' = (picture = "blank")

TurnOff ==
    /\ by' = "none" /\ chip' = Sent(chip, display_on(FALSE))
    /\ UNCHANGED <<fb, showing>>

\* button_init, which may find the button down, and "Ready" is shown.
ShowReady ==
    /\ pc = "ready" /\ pc' = "start"
    /\ last_button_state' = held /\ debounced_state' = held
    /\ press_age' \in IF held THEN 0 .. LONG_PRESS ELSE {0}
    /\ DrawOn("ready")
    /\ UNCHANGED <<woke, raw, late, basic, held, long_press_ignore, press_reported, pressed,
                   screens, on_left, shown_for, id_left, modes, by, lights>>

\* The panel is turned off and the task starts.
StartTask ==
    /\ pc = "start" /\ pc' = "top"
    /\ fb' = "blank" /\ chip' = Sent(Loaded(chip, "blank"), display_on(FALSE))
    /\ UNCHANGED showing
    /\ UNCHANGED <<woke, raw, late, basic, held, button, screens, timers, modes, by, lights>>

-----------------------------------------------------------------------------
\* Time, and what is shown.

Less(left, d)      == Max({left - d, 0})
Older(age, d, top) == Min({age + d, top})

Held(d) == press_age' = IF last_button_state THEN Older(press_age, d, LONG_PRESS) ELSE 0

\* d ticks go by, for the id as well or for all but the id.
Elapse(d) ==
    /\ on_left' = Less(on_left, d)
    /\ shown_for' = IF display_active THEN Older(shown_for, d, SCREEN_INTERVAL) ELSE 0
    /\ Held(d)

Pass(d) == Elapse(d) /\ id_left' = Less(id_left, d)

\* update_display: the new id for its time, otherwise the screen.
Screen(screen, id) == IF id > 0 THEN "id" ELSE <<"0", "1", "2">>[screen + 1]

\* It is called once the panel has been turned on.
UpdateDisplay ==
    /\ showing /\ Draw(Screen(display_screen, id_left))
    /\ UNCHANGED <<pc, woke, raw, late, basic, held, button, screens, timers, modes, by,
                   lights>>

\* An upload of d ticks ends.  It may have brought a new mode, and a new id,
\* for which client_check_id_change_and_show turns the panel on.
Uploaded(d) ==
    /\ basic' \in BOOLEAN
    /\ Elapse(d)
    /\ \/ /\ id_left' = ID_TIME /\ DrawOn("blank")
          /\ by' = IF by = "none" THEN "id" ELSE by
       \/ id_left' = Less(id_left, d) /\ UNCHANGED <<display, by>>

\* The sensors: how many of a read's three transfers in a row fail, and whether
\* one that is not repeated does.
aht21_read(trigger, data) == trigger < 3 /\ data < 3
ens160_read(waits, error) == waits < 3 /\ ~error

\* read_sensors_and_store: what it may return.
Readings ==
    {aht21_read(t, d) /\ (basic \/ ens160_read(w, e)) :
        t \in 0 .. 3, d \in 0 .. 3, w \in 0 .. 3, e \in BOOLEAN}

-----------------------------------------------------------------------------
\* button.c.

\* button_is_pressed_debounced: a change is noted, a level seen twice counts.
button_is_pressed_debounced ==
    /\ last_button_state' = held
    /\ IF held # last_button_state
       THEN /\ debounced_state' = (~held /\ debounced_state)
            /\ press_age' = IF held THEN 0 ELSE press_age
            /\ pressed' = FALSE
            /\ press_reported' = FALSE
            /\ long_press_ignore' = (debounced_state' /\ press_age >= LONG_PRESS)
       ELSE /\ debounced_state' = held
            /\ pressed' = (held /\ ~press_reported /\ ~long_press_ignore)
            /\ press_reported' = (held /\ (press_reported \/ pressed'))
            /\ long_press_ignore' = (held /\ (long_press_ignore \/ press_age >= LONG_PRESS))
            /\ UNCHANGED press_age

\* button_was_pressed: a button that stays down may be reported again.
button_was_pressed == press_reported' = (press_reported /\ ~debounced_state)

-----------------------------------------------------------------------------
\* A turn of client_task.

\* Mutant: only the screens change.
MutTimeIsUp == FALSE

\* The display has been on for its time.
TimeIsUp == on_left = 0

\* The top of the loop: the button, and the display's time.
Top ==
    /\ pc = "top" /\ pc' = IF woke = "no" THEN "work" ELSE "cycle"
    /\ late' = 0
    /\ button_is_pressed_debounced
    /\ \/ /\ display_active /\ TimeIsUp
          /\ display_active' = FALSE /\ display_screen' = 0
          /\ shown_for' = 0 /\ on_left' = 0
          /\ TurnOff
       \/ /\ display_active /\ ~TimeIsUp /\ shown_for = SCREEN_INTERVAL
          /\ display_screen' = (display_screen + 1) % max_screens
          /\ shown_for' = 0
          /\ Draw(Screen(display_screen', id_left))
          /\ UNCHANGED <<display_active, on_left, by>>
       \/ /\ display_active => ~TimeIsUp /\ shown_for < SCREEN_INTERVAL
          /\ UNCHANGED <<screens, shown_for, on_left, display, by>>
    /\ UNCHANGED <<woke, raw, basic, held, id_left, modes, lights>>

\* The panel is lit by a press.
Lights(picture) == DrawOn(picture) /\ by' = "press" /\ lights' = Min({lights + 1, 4})

\* Woken by the button: the first screen is to be shown, or that a sensor failed.
ButtonCycle ==
    /\ pc = "cycle" /\ woke = "button"
    /\ \E ok \in Readings :
          \/ /\ ok /\ pc' = "upload"
             /\ display_active' = TRUE /\ display_screen' = 0
             /\ on_left' = SCREEN_INTERVAL * max_screens /\ shown_for' = 0
             /\ Lights("blank")
          \/ /\ ~ok /\ pc' = "end"
             /\ Lights("error")
             /\ UNCHANGED <<screens, on_left, shown_for>>
    /\ UNCHANGED <<woke, raw, late, basic, held, button, id_left, press_age, modes>>

\* A screen's time later the records are uploaded.
CycleUpload ==
    /\ pc = "upload" /\ pc' = "next"
    /\ \E d \in 0 .. MaxTurn : Uploaded(SCREEN_INTERVAL + d)
    /\ UNCHANGED <<woke, raw, late, held, button, screens, modes, lights>>

\* Then comes the next screen.
CycleNext ==
    /\ pc = "next" /\ pc' = "end"
    /\ display_screen' = 1 /\ shown_for' = 0
    /\ Draw(Screen(1, id_left))
    /\ UNCHANGED <<woke, raw, late, basic, held, button, display_active, on_left, id_left,
                   press_age, modes, by, lights>>

\* A screen's time after that the panel goes dark, and the logger sleeps.
CycleEnd ==
    /\ pc = "end" /\ pc' = "nap" /\ woke' = "no"
    /\ display_active' = FALSE /\ display_screen' = 0
    /\ on_left' = 0 /\ shown_for' = 0
    /\ id_left' = Less(id_left, SCREEN_INTERVAL)
    /\ Held(SCREEN_INTERVAL)
    /\ TurnOff
    /\ UNCHANGED <<raw, late, basic, held, button, modes, lights>>

\* Woken by the timer: only a new id is shown.
TimerCycle ==
    /\ pc = "cycle" /\ woke = "timer" /\ pc' = "nap" /\ woke' = "no"
    /\ \E d \in 0 .. MaxTurn : Uploaded(d)
    /\ UNCHANGED <<raw, late, held, button, screens, modes, lights>>

\* The sleep after a cycle, which ends without a look at the button.
Nap ==
    /\ pc = "nap" /\ pc' = "top"
    /\ \E slept \in 0 .. IF ticks_run THEN MaxSleep ELSE 0 : Pass(slept + 1)
    /\ UNCHANGED <<woke, raw, late, basic, held, button, screens, modes, display, by, lights>>

\* Another turn: when the sensors are due they are read and what is shown is new.
Measure ==
    /\ pc = "work" /\ pc' = "sync"
    /\ \/ display_active /\ Draw(Screen(display_screen, id_left))
       \/ UNCHANGED display
    /\ UNCHANGED <<woke, raw, late, basic, held, button, screens, timers, modes, by, lights>>

\* Then an upload may be due.
Sync ==
    /\ pc = "sync" /\ pc' = "press"
    /\ \/ \E d \in 1 .. MaxTurn : late' = d /\ Uploaded(d)
       \/ UNCHANGED <<late, basic, timers, display, by>>
    /\ UNCHANGED <<woke, raw, held, button, screens, modes, lights>>

\* Mutant: the level lights the panel, not the edge.
MutEdge == held

\* button_falling_edge, which nothing debounces.
Edge == held /\ ~raw

\* The button again, as it is now; the display's time counts from the turn's top.
Press ==
    /\ pc = "press" /\ pc' = "sleep"
    /\ raw' = held /\ late' = 0 /\ pressed' = FALSE
    /\ IF (pressed \/ Edge) /\ ~display_active
       THEN /\ display_active' = TRUE /\ display_screen' = 0
            /\ on_left' = Less(SCREEN_INTERVAL * max_screens, late)
            /\ shown_for' = Older(0, late, SCREEN_INTERVAL)
            /\ Lights("blank")
            /\ button_was_pressed
       ELSE UNCHANGED <<screens, on_left, shown_for, display, by, lights, press_reported>>
    /\ UNCHANGED <<woke, basic, held, last_button_state, debounced_state,
                   long_press_ignore, id_left, press_age, modes>>

\* No sleep while the button is down, or when something is due at once.
StayAwake ==
    /\ pc = "sleep" /\ pc' = "top"
    /\ Pass(1)
    /\ UNCHANGED <<woke, raw, late, basic, held, button, screens, modes, display, by, lights>>

\* A sleep, which the first polls and a discovery may make shorter or longer
\* than the display's time.
GoToSleep ==
    /\ pc = "sleep" /\ ~held /\ pc' = "asleep"
    /\ UNCHANGED <<woke, raw, late, basic, held, button, screens, timers, modes, display, by,
                   lights>>

\* Awake: it was the button when it is still down.
Wake ==
    /\ pc = "asleep" /\ pc' = "top"
    /\ woke' = IF held THEN "button" ELSE "timer"
    /\ \E slept \in 0 .. IF ticks_run THEN MaxSleep ELSE 0 : Pass(slept + 1)
    /\ UNCHANGED <<raw, late, basic, held, button, screens, modes, display, by, lights>>

Step ==
    \/ display_init \/ ShowReady \/ StartTask \/ Top
    \/ ButtonCycle \/ CycleUpload \/ CycleNext \/ CycleEnd \/ TimerCycle \/ Nap
    \/ Measure \/ Sync \/ Press \/ StayAwake \/ GoToSleep \/ Wake

Task == UpdateDisplay \/ (~showing /\ Step)

\* The user presses the button, or lets it go.
Button ==
    /\ held' = ~held /\ lights' = 0
    /\ UNCHANGED <<pc, woke, raw, late, basic, button, screens, timers, modes, display, by>>

Next == Task \/ Button

Spec == Init /\ [][Next]_vars
FairSpec == Spec /\ WF_vars(Task)

-----------------------------------------------------------------------------
\* After a display_init that returned 0 and whose last command arrived, a panel
\* that is lit shows the whole of a picture that was drawn, with the controller
\* set as it should be, even when the first attempt broke off in the middle of
\* a command; and while display_active says so, that picture is the screen of
\* display_screen or an id.  Only from display_on to the update_display that
\* follows it is the panel lit and blank.
Shown ==
    ret = "ok" /\ pc \notin {"boot", "ready"} =>
        /\ Lit => Configured /\ chip.ram = fb /\ (fb = "blank" => showing)
        /\ display_active => Lit
        /\ display_active /\ ~showing /\ pc \notin {"next", "end"} =>
              fb \in {"id", Screen(display_screen, 0)}

\* A button that is held down lights the panel at most three times, however long
\* the uploads and the sleeps are: a held button may be reported again, but by
\* the time the display has gone off twice the press is a long one.
HeldLights == lights <= 3

\* A panel that a press has lit goes dark again, whatever the user, the uploads
\* and the sleeps do meanwhile.  (One that a new id has lit stays lit until the
\* next press.)
PressGoesDark == (Lit /\ by = "press") ~> ~Lit
=============================================================================
