-------------------------------- MODULE Oled --------------------------------
(***************************************************************************)
(* The display: the driver, components/display/ssd1306.c with the wrapper  *)
(* Display.c, and the controller at the other end of the bus as the driver *)
(* takes it to be.                                                         *)
(*                                                                         *)
(* A command goes out byte by byte, every byte in a transfer of its own,   *)
(* so the controller must keep a command that is not complete until its    *)
(* other bytes come.  A driver function stops at the first transfer that   *)
(* fails: what the controller has got is some prefix of its bytes, for the *)
(* byte that failed may have arrived.  What is drawn into the frame buffer *)
(* is reduced to a name.                                                   *)
(***************************************************************************)
EXTENDS Integers, Sequences

CONSTANTS
    Width, Height,   \* of the panel
    Picture          \* what may be on it; "garbled" and "blank" among them

ASSUME OledAssumption ==
    /\ Width \in 1 .. 128 /\ Height \in {16, 32, 64}
    /\ {"garbled", "blank"} \subseteq Picture

VARIABLES
    chip,            \* the controller
    fb               \* the frame buffer

oled == <<chip, fb>>

\* Commands that take one argument, and two; pairs that turn something on or
\* off; 64 to 127 set the first line.
OneArgument  == {32, 129, 141, 168, 211, 213, 217, 218, 219}
TwoArguments == {33, 34}
Pairs        == {160, 161, 164, 165, 166, 167, 174, 175}
Scan         == {192, 200}

Register == OneArgument \union TwoArguments \union {64, 160, 164, 166, 174, 192}

RegisterOf(b) == IF b \in 64 .. 127 THEN 64
                 ELSE IF b \in Pairs THEN b - (b % 2)
                 ELSE IF b \in Scan THEN 192
                 ELSE b

Arguments(b) == IF b \in TwoArguments THEN 2 ELSE IF b \in OneArgument THEN 1 ELSE 0

\* The controller after power-on: unfinished is a command that is not complete,
\* regs the last complete command of every register, home the address pointers
\* that were set since the last data.
PoweredOn == [unfinished |-> <<>>, home |-> {}, ram |-> "garbled",
              regs |-> [r \in Register |-> IF r = 174 THEN <<174>> ELSE <<>>]]

\* It gets a byte of a command; one that it does not know changes nothing.
Receive(c, b) ==
    LET cmd == Append(c.unfinished, b)
        reg == RegisterOf(cmd[1])
    IN IF Len(cmd) <= Arguments(cmd[1]) THEN [c EXCEPT !.unfinished = cmd]
       ELSE IF reg \notin Register THEN [c EXCEPT !.unfinished = <<>>]
       ELSE [c EXCEPT !.unfinished = <<>>, !.regs[reg] = cmd,
                      !.home = @ \union ({reg} \intersect TwoArguments)]

\* The element of a singleton.
Only(S) == CHOOSE x \in S : TRUE

\* The controller after it got the first n of these bytes.
Got(c, bytes, n) ==
    LET after[i \in 0 .. n] ==
            IF i = 0 THEN {c} ELSE {Receive(d, bytes[i]) : d \in after[i - 1]}
    IN Only(after[n])

-----------------------------------------------------------------------------
\* The commands of the driver.
display_on(on)                     == <<IF on THEN 175 ELSE 174>>
set_display_start_line(line)       == <<64 + line>>
set_display_offset(offset)         == <<211, offset>>
set_charge_pump_enabled(on)        == <<141, IF on THEN 20 ELSE 16>>
set_mem_addr_mode(mode)            == <<32, mode>>
set_segment_remapping_enabled(on)  == <<IF on THEN 161 ELSE 160>>
set_scan_direction_fwd(fwd)        == <<IF fwd THEN 192 ELSE 200>>
set_com_pin_hw_config(config)      == <<218, config>>
set_contrast(contrast)             == <<129, contrast>>
set_inversion(on)                  == <<IF on THEN 167 ELSE 166>>
set_osc_freq(freq)                 == <<213, freq>>
set_mux_ratio(ratio)               == <<168, ratio>>
set_column_addr(start, stop)       == <<33, start, stop>>
set_page_addr(start, stop)         == <<34, start, stop>>
set_precharge_period(period)       == <<217, period>>
set_deseltct_lvl(level)            == <<219, level>>
set_whole_display_lighting(light)  == <<IF light THEN 165 ELSE 164>>

pin_cfg == IF Height = 64 \/ (Height = 32 /\ Width # 128) THEN 18 ELSE 2

\* Mutant: the panel is not turned off first.
MutInitCommands ==
    set_osc_freq(128) \o set_mux_ratio(Height - 1)
    \o set_display_offset(0) \o set_display_start_line(0)
    \o set_charge_pump_enabled(TRUE) \o set_mem_addr_mode(0)
    \o set_segment_remapping_enabled(FALSE) \o set_scan_direction_fwd(TRUE)
    \o set_com_pin_hw_config(pin_cfg) \o set_contrast(159)
    \o set_precharge_period(241) \o set_deseltct_lvl(64)
    \o set_whole_display_lighting(TRUE) \o set_inversion(FALSE) \o display_on(TRUE)

\* ssd1306_init.
InitCommands ==
    display_on(FALSE) \o set_osc_freq(128) \o set_mux_ratio(Height - 1)
    \o set_display_offset(0) \o set_display_start_line(0)
    \o set_charge_pump_enabled(TRUE) \o set_mem_addr_mode(0)
    \o set_segment_remapping_enabled(FALSE) \o set_scan_direction_fwd(TRUE)
    \o set_com_pin_hw_config(pin_cfg) \o set_contrast(159)
    \o set_precharge_period(241) \o set_deseltct_lvl(64)
    \o set_whole_display_lighting(TRUE) \o set_inversion(FALSE) \o display_on(TRUE)

Sent(c, bytes) == Got(c, bytes, Len(bytes))

\* load_frame_buffer: the addresses, then the data of all pages, which go where
\* the pointers are; a complete picture needs both at the start.
Loaded(c, picture) ==
    LET first == IF Width = 64 /\ Height = 32 THEN 32 ELSE 0
        columns == set_column_addr(first, first + Width - 1)
        pages == set_page_addr(0, (Height \div 8) - 1)
        Whole(d) == d.home = TwoArguments /\ d.regs[33] = columns /\ d.regs[34] = pages
    IN Only({[d EXCEPT !.home = {}, !.ram = IF Whole(d) THEN picture ELSE "garbled"] :
             d \in {Sent(c, columns \o pages)}})

\* The panel is on.
Lit == chip.regs[174] = display_on(TRUE)

\* No command is left half, and every register has what it should have.
Configured ==
    /\ chip.unfinished = <<>>
    /\ \A cmd \in {set_osc_freq(128), set_mux_ratio(Height - 1), set_display_offset(0),
                    set_display_start_line(0), set_charge_pump_enabled(TRUE),
                    set_mem_addr_mode(0), set_segment_remapping_enabled(FALSE),
                    set_scan_direction_fwd(TRUE), set_com_pin_hw_config(pin_cfg),
                    set_contrast(159), set_precharge_period(241), set_deseltct_lvl(64),
                    set_whole_display_lighting(FALSE), set_inversion(FALSE)} :
          chip.regs[RegisterOf(cmd[1])] = cmd

OledTypeOK ==
    /\ chip.unfinished = <<>> \/ Len(chip.unfinished) \in 1 .. Arguments(chip.unfinished[1])
    /\ chip.home \subseteq TwoArguments /\ chip.ram \in Picture
    /\ DOMAIN chip.regs = Register
    /\ fb \in Picture
=============================================================================
