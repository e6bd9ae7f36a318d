-------------------------------- MODULE Pins --------------------------------
(***************************************************************************)
(* The pin tables of src/core/pins.h and what the two firmwares make of     *)
(* them at boot, a call of the SDK at a time: bus_init on the master and    *)
(* device_init on the emulator.  BusReset runs them.                        *)
(*                                                                         *)
(* A pad is driven by the function that owns it, SIO (the CPU) or PIO, each *)
(* with an output level and a direction of its own.                         *)
(***************************************************************************)
EXTENDS Integers, Sequences

Signal == {"Data", "Cmd", "Att", "Clk", "Ack"}

kMasterPins ==
    <<  [signal |-> "Data", drive |-> "OpenDrainInputOnly"],
        [signal |-> "Cmd",  drive |-> "PushPull"],
        [signal |-> "Att",  drive |-> "PushPull"],
        [signal |-> "Clk",  drive |-> "PushPull"],
        [signal |-> "Ack",  drive |-> "OpenDrainInputOnly"]  >>

kEmulatorPins ==
    <<  [signal |-> "Data", drive |-> "OpenDrainOutput"],
        [signal |-> "Cmd",  drive |-> "Input"],
        [signal |-> "Att",  drive |-> "Input"],
        [signal |-> "Clk",  drive |-> "Input"],
        [signal |-> "Ack",  drive |-> "OpenDrainOutput"]  >>

(* Wrong: ATT is an output before its level is set. *)
MasterCalls_late(pin) ==
    IF pin.drive = "OpenDrainInputOnly" THEN <<"gpio_init", "gpio_pull_up">>
    ELSE IF pin.signal = "Att" THEN <<"gpio_init", "gpio_set_dir", "gpio_put">>
    ELSE <<"pio_set_pins", "pio_set_pindirs", "pio_gpio_init">>

(* The calls bus_init makes for one pin, in their order.                    *)
MasterCalls(pin) ==
    IF pin.drive = "OpenDrainInputOnly" THEN <<"gpio_init", "gpio_pull_up">>
    ELSE IF pin.signal = "Att" THEN <<"gpio_init", "gpio_put", "gpio_set_dir">>
    ELSE <<"pio_set_pins", "pio_set_pindirs", "pio_gpio_init">>

(* Wrong: the override is set first, and lost again. *)
EmulatorCalls_early(pin) ==
    IF pin.drive = "OpenDrainOutput"
    THEN <<"pio_clear_pindirs", "gpio_set_outover", "pio_gpio_init">>
    ELSE <<"gpio_init", "gpio_disable_pulls">>

(* The calls device_init makes for one pin.                                 *)
EmulatorCalls(pin) ==
    IF pin.drive = "OpenDrainOutput"
    THEN <<"pio_clear_pindirs", "pio_gpio_init", "gpio_set_outover">>
    ELSE <<"gpio_init", "gpio_disable_pulls">>

kPins == [master |-> kMasterPins, emulator |-> kEmulatorPins]
Pico  == DOMAIN kPins

(* The calls of a boot, a row of the table after the other.                 *)
Boot == [master   |-> [row \in DOMAIN kMasterPins |-> MasterCalls(kMasterPins[row])],
         emulator |-> [row \in DOMAIN kEmulatorPins |-> EmulatorCalls(kEmulatorPins[row])]]

(* A place in a boot: the row, and how many of its calls are made.          *)
Places(pico) == {at \in (DOMAIN Boot[pico]) \X (0 .. 3) : at[2] <= Len(Boot[pico][at[1]])}

FirstPlace == <<1, 0>>
LastPlace ==
    [pico \in Pico |-> <<Len(kPins[pico]), Len(Boot[pico][Len(kPins[pico])])>>]

NextPlace(pico, at) ==
    IF at[2] < Len(Boot[pico][at[1]]) THEN <<at[1], at[2] + 1>> ELSE <<at[1] + 1, 1>>

Pad ==
    [func : {"none", "sio", "pio"}, sio_out : {0, 1}, sio_oe : BOOLEAN,
     pio_out : {0, 1}, pio_oe : BOOLEAN, is_low : BOOLEAN,
     pull : {"down", "up", "none"}]

(* Out of reset.  What the PIO's output latch holds is not relied on.       *)
ResetPad(latch) ==
    [func |-> "none", sio_out |-> 0, sio_oe |-> FALSE, pio_out |-> latch,
     pio_oe |-> FALSE, is_low |-> FALSE, pull |-> "down"]

(* A call of the SDK.  Selecting a pad's function clears its override.      *)
Called(pad, call) ==
    CASE call = "gpio_init" ->
            [pad EXCEPT !.sio_oe = FALSE, !.sio_out = 0, !.func = "sio", !.is_low = FALSE]
      [] call = "gpio_put"           -> [pad EXCEPT !.sio_out = 1]
      [] call = "gpio_set_dir"       -> [pad EXCEPT !.sio_oe = TRUE]
      [] call = "gpio_pull_up"       -> [pad EXCEPT !.pull = "up"]
      [] call = "gpio_disable_pulls" -> [pad EXCEPT !.pull = "none"]
      [] call = "gpio_set_outover"   -> [pad EXCEPT !.is_low = TRUE]
      [] call = "pio_set_pins"       -> [pad EXCEPT !.pio_out = 1]
      [] call = "pio_set_pindirs"    -> [pad EXCEPT !.pio_oe = TRUE]
      [] call = "pio_clear_pindirs"  -> [pad EXCEPT !.pio_oe = FALSE]
      [] call = "pio_gpio_init"      -> [pad EXCEPT !.func = "pio", !.is_low = FALSE]

(* The level a pad puts on its wire, or "released".                         *)
Driven(pad) ==
    IF pad.func = "sio" /\ pad.sio_oe THEN IF pad.sio_out = 1 THEN "high" ELSE "low"
    ELSE IF pad.func = "pio" /\ pad.pio_oe
    THEN IF pad.pio_out = 1 /\ ~pad.is_low THEN "high" ELSE "low"
    ELSE "released"

(* A pad after the first n of its calls.                                    *)
AfterCalls(pad, calls, n) ==
    LET first  == Called(pad, calls[1])
        second == Called(first, calls[2])
    IN  CASE n = 0 -> pad
          [] n = 1 -> first
          [] n = 2 -> second
          [] n = 3 -> Called(second, calls[3])

CallsMade(pico, at, row) ==
    IF row < at[1] THEN Len(Boot[pico][row]) ELSE IF row = at[1] THEN at[2] ELSE 0

RowOf(pico, signal) == CHOOSE row \in DOMAIN kPins[pico] : kPins[pico][row].signal = signal

(* A Pico's pads at a place of its boot, by what the latch of its PIO held. *)
PadTable ==
    [pico \in Pico |-> [latch \in {0, 1} |->
        [row \in DOMAIN Boot[pico] |-> [n \in 0 .. Len(Boot[pico][row]) |->
            [signal \in Signal |->
                LET its == RowOf(pico, signal)
                IN  AfterCalls(ResetPad(latch), Boot[pico][its],
                               CallsMade(pico, <<row, n>>, its))]]]]]

PadsAt(pico, latch, at) == PadTable[pico][latch][at[1]][at[2]]
=============================================================================
