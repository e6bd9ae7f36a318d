# A verification project for Pico-SG2HID

Pico-SG2HID is firmware for a Raspberry Pi Pico that polls a PlayStation 2
guitar (the SG) over the controller bus and presents it to a computer as a USB
gamepad. A second Pico can stand in for the guitar on a bench. This directory
holds TLA+ models of that code, the TLC configurations that check them, and
proofs that TLAPS checks. Paths below are those of the repository.

    tlc -config MCNegotiation.cfg MCNegotiation     # any run of the table below
    tlapm NegotiationProofs.tla                     # and the other *Proofs.tla

## 1. The system

| Component | State | Operations | Talks to |
|---|---|---|---|
| Protocol and codec: `core/ps2_protocol.h`, `core/ps2_frame`, `core/poll` | none | `decode`, `decode_poll` | called by the link's callers with the bytes of one frame |
| Link: `core/link` | `state`, `last_fault`, `us_in_state` | `step` | fed by the sequence, or by the observer directly |
| Analog-mode sequence: `core/negotiation` | `stage`, and a link | `command_for`, `advance` | decides the next frame's bytes, judges its answer |
| Bus frame and port: `hal/bus_frame`, `hal/pio_port`, `hal/ps2_master.pio` | the PIO program, ATT | `exchange_frame`, `exchange_byte`, ACK timeout and `recover` | the wires |
| Emulator model: `emu/sg_model` | mode, command in flight, payload, fault, index | `reset`, `step`, `apply` | called by the emulator's loop |
| Emulator firmware: `emu/main.cpp`, `hal/pio_device`, `hal/ps2_device.pio` | its loop, the device's FIFOs, a line buffer | listen, serve a frame, drain, restart, read a line | the wires, an operator's console |
| Guitar codec and report: `core/guitar_state`, `core/hid_report`, `core/hid_descriptor.h` | none | `map_frame`, `build_report` | from a frame to what a host reads |
| Master firmware: `app/main.cpp`, `core/poll` | master, tally, report, times, busy | `poll_once`, `print_summary` | all of the above, USB |
| USB device: `usb/usb_device` | the stored report; TinyUSB's endpoint | `send_report`, `is_report_ready`, GET_REPORT, `task` | the host |
| Observer firmware: `app/observe.cpp`, `core/trace_filter` | mode, link, master, state last shown, filter | poll in two modes, print what changed, switch to analog | the wires, a console |
| Console line readers: `core/command_line`, `emu/main.cpp` | the line read so far | `take_char`; read, cut, apply | a person's serial port |
| Bench harness: `tools/hil_digital.py` | its place in the script, the window it counts | send a line and wait for its answer, drop what is older, judge summaries | the two Picos' serial ports |
| Loopback firmware: `app/loopback.cpp` | its place in the probe and in three sequences | `probe_wire_bits`, a frame, a line | its own pins, through jumpers |
| Trace: `core/bus_trace`, `app/console`, `tools/trace_decode.py` | none | format a frame in a buffer; parse, render | the frame that was exchanged, a person |
| Pin tables: `core/pins.h` | the pads | the SDK calls of `bus_init` and `device_init` | both PIO programs |

What is hard in it:

* **Two firmwares on one wire pair.** Nothing synchronises them but ATT and ACK.
  The emulator's loop also reads a console and prints to it, and while it
  prints it does not look at the bus. A frame the master gives up on may have
  been heard in full.
* **A protocol with modes.** The id in an answer announces its length; commands
  take effect at the *next* frame; a lost frame leaves master and controller in
  different modes, and the master is told nothing.
* **Time.** 32-bit microsecond counters, a limit on config mode, an ACK timeout.
* **Below a byte.** An ACK is a pulse of two microseconds that no hardware latches
  and the master's program looks for once a microsecond; either CPU may restart
  its PIO program under a byte; a Pico that boots moves lines the other listens to.
* **Two ports that nothing orders.** The bench harness types at one Pico and
  judges what the other prints, and must not judge a line that is older than the
  effect of what it typed.
* **USB.** One endpoint buffer, a host that may suspend, leave or come late, an
  interrupt that runs at any point of the loop; reports that cannot be sent are
  dropped by design, and a dropped one may be the release of a button.

What makes each part correct is listed under *Runs* as properties, and
`hazards` in `PROJECT.json` gives the line of code each is about.

## 2. The modules

    Ps2Protocol ── MasterLogic ──┬── Negotiation ──┬── NegotiationProofs
                                 │     │ implements │
                                 │     └ AnalogSequence
                                 │                  └── Gamepad ── BusyCount ──┐
                                 │                      │                      │
                                 │                  GuitarReport ─ GuitarAlone ┼─ GuitarProofs
                                 ├── HilBus ─┬── HilBusProofs                  │
                                 ├── Bench ──┤── BenchProofs                   │
                                 │           │                                 │
    Ps2Protocol ── SgModel ──────┼───────────┘                                 │
                     └───────────┼──────── SgAlone ────────────────────────────┘
                                 └── Observe ────────────┐
    PioMaster ─┬────── Loopback ── TraceLine             ├─ DiagnosticsProofs
               │           └─────────────────────────────┤
               │                         ConsoleLines ───┘
               ├─ PioDevice ── BitBus ──────┬── BusReset ── BitBusProofs
               │                 │     Pins ┘
               │                 └ implements ByteWire
               └─ PioMasterProofs (used by BitBusProofs and DiagnosticsProofs)
    MasterLogic, SgModel ── LogicProofs (used by the proofs of Negotiation, SgAlone, HilBus, Observe)

**Ps2Protocol** (`ps2_protocol.h`, `ps2_frame.cpp`, `poll.cpp`). The constants
with their values on the wire, the geometry, `decode` and `decode_poll`. An
answer is the sequence of bytes that completed, so its length is the code's
`completed`.

**MasterLogic** (`link.cpp`, `negotiation.cpp`). `step` and `advance` as pure
operators on a record `Link` and a stage. `advance` returns one thing and
changes two; the model has one operator for each (`advance_link`,
`advance_stage`). The microsecond counters have the width `kMaxUs` and saturate
as the code's do.

**Negotiation**. The master as a state machine: each `Exchange` is one frame
with *any* answer, cut anywhere, and *any* time since the last. No controller is
assumed, so what holds here holds with the SG, with the emulator and with a
broken cable. **AnalogSequence** is what it promises: enter config mode, set
analog, leave, poll; every frame goes one step on or back to the start with a
cause. `Negotiation!KeepsPromise` is that specification under the mapping
phase = `stage`, streaming = "the link is AnalogStreaming", cause = `last_fault`.

**SgModel**, **SgAlone** (`sg_model.cpp`). The class as a record and its methods
as operators; then the model against any master, with the operator's lines
between frames. A line is what its parser yields; a line that is refused
changes nothing and is left out.

**HilBus**. Both firmwares, byte by byte. The master's location `mpc` is where
it is in `exchange_frame` / `exchange_byte`; the emulator's, `epc`, is where it
is in the loop of `emu/main.cpp`. The device's PIO program is the word it holds
(`tx`) and its RX FIFO (`rx`). Actions: the master's `StartFrame`, `ClockByte`,
`AckSeen`, `AckTimeout` (the frame is judged, with `advance`, in the step in
which ATT rises); the emulator's `Listen`, `NoCommand`, `Command`, `Printed`,
`Drain`, `Take`, `Answer`, `EndServe`; the operator's `TypeLine`, `Unplug`,
`Plug`. Time is not counted but what it orders is kept: an emulator that is
not printing, off, or told to answer late sees ATT fall within `kAttSetupUs`
(20 us), answers within `kAckTimeoutUs` (100 us) and is back listening within a
poll period (8 ms), as its loop takes microseconds.

**GuitarReport**, **GuitarAlone** (`guitar_state.cpp`, `hid_report.cpp`). The
report as a function of a frame, with arithmetic for the bit operations. The
check is of `build_report(map_frame(..))` in all three modes: a player's held
buttons, the bytes the guitar sends, the decode, the report, and the buttons its
descriptor makes of it. Which report the host is given is not decided here: `report_for`
replaces it by the neutral one whenever the link does not stream, which `Gamepad` models
and `NeutralUnlessStreaming` is about.

**Gamepad** (`app/main.cpp`, `usb_device.cpp`). `Negotiation` inside the real
loop, whose steps are separate actions because TinyUSB's interrupt can fall
between them: wait and `usb::task` (`UsbTask`), frame and report (`Poll`), the
readiness read for the busy count (`CheckReady`), `send_report` with its own
readiness read and the summary (`Send`). The host takes the report, asks with
GET_REPORT, suspends, resumes, leaves and comes back.

**BusyCount**. `Gamepad` with a count of the reports that were really only stored
beside `busy`, and of the polls in which the bus interrupted between the two
reads of readiness. It is what the run `gamepad` checks.

**PioMaster**, **PioDevice** (`ps2_master.pio`, `ps2_device.pio`, `pio_port.cpp`,
`pio_device.cpp`). Each PIO program as a record, its registers, FIFOs and pins, and
an operator that executes the instruction at `pc`; and what a CPU does to it: put,
take, `recover`, `device_restart`, `device_answer`. A FIFO word is the sequence of its
bits. One tick is a cycle of the device's clock, 1/8 us; an instruction of the
master lasts eight of them, and `out` sixteen.

**BitBus**. The two programs on two wires, and the two CPUs between ticks: the
master's `exchange_frame` / `exchange_byte` (`StartFrame`, `PutByte`, `GetByte`, `TimeOut`,
`Recover`), the emulator's loop (`PrintLine`, `Printed`, `SelectSeen`, `TakeByte`, `AnswerByte`,
`Deselected`). A CPU with something to do is at most `kLagCycles` late, one that prints as
late as it likes. What the emulator answers is any byte with or without an ACK: the
model that chooses is `SgModel`'s. **ByteWire** is what `HilBus` takes for granted about
a byte, as a specification of its own, and `ExchangesBytes` shows that `BitBus` keeps it.
One thing came out of that refinement: a print that outlasts frames may end in the
middle of a byte, and the drain then restarts the device under it. It has missed the
byte's first edges and waits for as many that do not come (`IsDeaf`), and the byte
loaded stays unheard. That is no harm: no ACK follows, so ATT rises and the device
is restarted again. `ByteWire` says so with `late`.

**Pins** (`pins.h`). Both tables, and both boots as the SDK calls their loops make of each
row, one after the other; a place in a boot is a row and how many of its calls are made. A pad has a function, an output and a direction for each function, an
override and a pull; a call changes what the SDK's changes.

**BusReset**. `BitBus` with two Picos that may lose power at any tick, one or both, and
boot by the calls of `Pins`. The master's are steps, since each may move a line the emulator
listens to; the emulator's move none, so that what it may put on a wire at any of them is one
set, `DownLevels`. A master that is off pulls its pads low; as it boots ATT
rises before CLK, and the edge of CLK is a bit to a device that was restarted in between.
The emulator judges bytes as `SgModel::step` does, by their place in the frame. A boot takes
longer than what is left of a frame, so an emulator that lost power has it back between
frames; it may end its boot anywhere in a later one.

**Loopback** (`app/loopback.cpp`). A master alone with its CMD on its DATA and its ATT on
its ACK, while a person moves the jumpers and grounds CLK: the probe at the slow
divider, three sequences, the lines. **TraceLine** (`bus_trace.cpp`, `trace_decode.py`) is
the `T1` line it prints of each frame, in a buffer of some size, and what the decoder reads
from it. A line is a sequence of items, each with its width.

**Observe** (`app/observe.cpp`, `trace_filter.cpp`). Each `Observe` is one
`observe_once`: a frame with any of the answers, judged by `step` in digital mode
and by `advance` in analog mode, its `link:` line and its trace line if they are
due. `AnalogLine` is the switch. The clock is the wrapping counter; `since` and
`behind` measure the same times without wrapping, for the properties only.

**ConsoleLines** (`command_line.cpp`, `emu/main.cpp`). The two line readers, a
character at a time, given the same characters. Here characters are the data:
whether a cut line passes for another depends on them.

**Bench** (`tools/hil_digital.py`). The default hardware-in-the-loop run as
written: `Script` is its scenarios' lines and windows in order, `Shows` and
`AddsUp` its checks. Around it the two firmwares, a frame per step: the bytes of a
frame are folded over `SgModel`'s `step_model` / `step_answer`, a line is taken
between two frames, and the frame after it may be missed, as the emulator is
then printing its answer. A summary is in `flight` for at most `MaxFlight` polls,
then `arrived`, then discarded or counted. The counters in a summary are
cumulative and the harness only subtracts them; the model keeps what each summary
adds, and `Delta` sums it.

Operators introduced by a comment beginning *Wrong:* are what a plausible bug
would have made of the operator after them. No specification uses them; each is
there because some property fails as soon as it stands in for the right one.

## 3. Runs

All are in `PROJECT.json`. Times are for two workers on a small machine.

| Run | States | What it asks |
|---|---|---|
| `negotiation` | 892 | Any controller: do stage and link stay in step (`StageMatchesLink`), does only a whole, ready analog frame make the link stream (`StreamsWholeFrames`), is config mode bounded in time (`NegotiatingIsBounded`) and in frames (`ConfigModeIsBrief`), does the cause of a drop survive good frames, and the time in a state a stalled poll (`LinkRemembers`), and is the abstract sequence kept (`KeepsPromise`)? |
| `sg_alone` | 147,820 | Any master, any abandoned frame: is the answer, given byte by byte, the frame the documents promise (`AnswersFaithfully`), is the mode fixed within a frame (`ModeFixedInFrame`), is a command obeyed once, at the next frame (`CommandsTakeEffectOnce`)? |
| `guitar_alone` | 12,288 | All 1,024 sets of held buttons in all three modes: does the report built of a frame say what is held (`ReportSaysWhatIsHeld`), and does the whammy follow the bar (`WhammyFollowsTheBar`)? |
| `gamepad` | 219,842 | Is the report neutral unless the link streams, at every point of the loop (`NeutralUnlessStreaming`)? Does the busy count fit its summary also when the poll counter wraps (`BusyFitsSummary`), and is it the number of reports not sent but for the polls that an interrupt fell into (`BusyCountsUnsent`)? Does a press never outlive the link on the host (`NoStuckPress`), and does dropping reports lose nothing that lasts (`HostCatchesUp`)? The last two are liveness. |
| `hil_bus` | 1.1 million | Two firmwares and three operator actions: are they at the same byte whenever the master clocks one (`InStep`), are the bytes it already has the emulator's (`InStep` again), is a streamed payload never a mix, and short of at most the whammy when the plug was pulled (`StreamsModelPayload`), does the emulator hold what the master takes as accepted (`AcceptedIsHeld`)? From wherever the actions leave them: do they stream again (`Reconverges`), is a pulled plug noticed (`UnplugNoticed`)? The last two are liveness. |
| `console_lines` | 134,481 | Is every line, however long, judged whole or refused, at the observer (`ObserverJudgesWholeLines`) and at the emulator (`EmulatorReadsWholeLines`)? |
| `observe` | 242,000 | Is what the capture last shows never out of date by more than the gap (`NewsIsNeverOld`), is noise held back for the whole gap also when the clock wraps (`GapHoldsBackNoise`), and does a drop name its cause in both modes (`DropsNameTheirCause`)? |
| `fault_says_why` | – | A violation: after the switch to analog a `link:` line goes into absent with no cause. See *Findings*. |
| `bench` | 165,000 | All scenarios in order, from a fresh emulator and from one an interrupted run left faulty: does firmware that works ever fail one (`NoFalseAlarm`), did every poll a window counts run under the line sent before it (`JudgesAfterItsLines`), and does the run end, with no fault left set (`RunEnds`, liveness)? |
| `bit_bus` | 2.9 million | Both PIO programs: is a byte exchanged as `HilBus` has it (`ExchangesBytes`), is an ACK at the SG's pace never missed (`AcksArrive`), and is the time the decoder shows as `ack` the delay that was set (`TraceShowsAckDelay`)? |
| `bus_reset` | 2.2 million | Either Pico or both lose power at any tick: does a wire have one level however the two boots fall (`OneLevelPerWire`), is a line of the master high from its first moment as an output (`BootsIdle`), is a byte the master takes as acknowledged heard whole and in its place (`AckedMeansHeard`), and is at most one frame lost (`OneFrameLost`)? |
| `loopback` | 261,000 | Jumpers moved at any time: does ATT rise after every frame (`FrameEnds`, liveness), do the lines of a frame and of the probe show what is wired (`PrintsWhatIsWired`), and does the decoder show the frame that was exchanged, or the line get refused because it does not fit and for no other reason (`TraceShowsFrame`)? |

### Bounds, and why they are enough

* **Times.** `kPollPeriodUs` = 1 makes the limit 6, as the code's is six polls;
  only comparisons with the limit and with the counter's end tell times apart.
  `Elapseds` has values on time, at the limit and past it. `kMaxUs` is 7 to 12:
  above the limit, reached in a few polls, and so past it as 2^32 us would be.
  `hil_bus` takes frames on time: a master stalled past the limit at every leave-config
  frame would restart for ever, and nothing in the code says when stalls end. Stalls are
  `negotiation`'s.
* **Answers** (`MCNegotiation`). All declared ids and one undeclared, ready or
  not, cut after every byte; payload bytes are equal as nothing in the master
  tells them apart.
* **Master bytes** (`MCSgAlone`). Each byte the repository's master sends, one
  wrong byte where a byte is looked at, and one byte past the longest frame.
* **Lines.** Each verb, each kind of fault; the ids injected are an undeclared
  one and a declared one that is wrong.
* **`MaxEvents`** (3). Lines typed and plugs pulled in a behaviour. One
  makes the two disagree (a mode line, a fault at some byte, a plug), a second
  undoes or compounds it (fault off, another payload), a third falls into the
  recovery. The frames between and after them are not bounded.
* **`PollsModulus`** = 7 with 3 polls to a summary: as with 2^32 and 125, the
  wrap falls inside a summary and makes it short.
* **The observer** (`MCObserve`). A gap of two polls and a counter of nine values:
  frames inside the gap, at its end and across the wrap, over and over. No frame comes
  nearly a whole turn of the counter after the one before (`DelaysAssumption`). Two
  answers in each of digital and analog mode, which differ in one byte as a
  pressed button's do, one in config mode, one frame with no answer.
* **Lines at the console** (`MCConsoleLines`). A command of two letters, a limit
  of three and lines of up to two characters more than the longer buffer holds, of
  letters and carriage returns in any order.
* **The bench.** `kPollsPerSummary` = 7 for the code's 125: a missed frame and the
  negotiation after it take five polls, and a summary may take two to arrive.
  That sum is what two discarded summaries rest on. With a summary that may travel
  a whole period, TLC finds a false alarm: a line is obeyed at the very end of a
  period, both discarded summaries have been printed by the poll after it, and the
  rest of the negotiation is counted as refused. On a bench a summary travels for
  milliseconds of its second. `MaxUnread` = 1: the harness reads a summary
  before the next arrives. `Seconds` = 2 for the default 60.
* **The bits** (`MCBitBus`). The programs' and the bus's own numbers: eight bits, 4 us each,
  20 us of set-up and of gap, 100 us of ACK timeout, ACK pulses of 16 ticks. Two bytes
  that differ in every bit and are not their own reverse. Three bytes to a frame: one
  that opens it, one between two ACKs, one that waits for none. ACK delays of 11 us, the
  SG's, and 97 us, which meets the master as it gives up. `kLagCycles` = 4: a CPU
  at 125 MHz is in its loop many times in half a microsecond.
* **Picos that reset** (`MCBusReset`). Three bits, the least with which a frame start
  that is one bit late is another byte. Each Pico loses power once (`MaxResets`): one in the
  recovery from the other, or both at once. The times shrink with the byte, and the ACK
  delay stays longer than a bit: a shorter one hides an ACK for a garbled byte in that byte.
* **Jumpers** (`Loopback`). One tick to a master cycle, as there is no device to be in
  phase with. `MaxMoves` = 2: one that disturbs a frame or a probe, and one in the next
  or back. At first the jumpers are right, or every one is wrong: two moves reach all wirings.
* **Trace lines** (`Loopback`). The three sequences, the longest frame a program prints among
  them, broken after any byte; times of one and two digits. Beside the firmware's 256
  characters two buffers, 27 and 29: one cuts the line of the one-byte frame before its last
  item and one holds it to the character, and both cut every other line.
* **`Axes`** (`GuitarAlone`). The bar at its stop, on both sides of its rest and at it.

### Fairness

`Negotiation` and `SgAlone` have safety properties only and no fairness.
`HilBus`: weak fairness of each firmware's steps as a whole. Both are endless
loops on a processor of their own, every wait in them is bounded (the ACK
timeout, the print that times out), and some step of each is enabled again
whenever it is its turn. The operator is promised nothing. `Gamepad`: weak fairness of the loop, and of the host reading
the endpoint while it is there and awake (it polls every `kHidPollIntervalMs`).
Every period calls `usb::task` at least once: the wait loop does, and the only
thing that can use up a whole period is a blocked print, which runs the USB task
itself while it waits and gives up in the end.
`Bench`: the master polls infinitely often (its loop waits for nothing but time),
weak fairness of the emulator's reader, of the ports, and of the harness; its
deadlines (2 s, 3 s) are far beyond what they bound and are not modelled.
`Loopback`: weak fairness of the clock and of the CPU, which waits for nothing without a
budget; the person is promised nothing. `BitBus` and `BusReset` have safety properties only:
there the lag, which is bounded, keeps a CPU from being late for ever.

## 4. Proofs

The eight `*Proofs` modules prove for every value of the constants
(any answers, any times, any poll period, any counter width above the limit, any
summary length and modulus, any gap, any lines typed, any number of operator actions, any
bytes a master clocks, any command and line limit) what the runs check on small ones. The
assumptions are those the modules declare: `kPollPeriodUs` > 0, `kMaxUs` above the limit,
answers are sequences of bytes, times fit the counter, the summary length and
the modulus are positive, the lines typed at the emulator are ones its parser lets
through (`IsLine`), the bar's values are bytes, the observer's command has at least one character, no time between two
of its frames comes within a gap of the counter's whole turn, and a summary reaches the
harness in fewer polls than it counts. Those of the bits are numbers: a bit in the
master's program has at least eight cycles of the device's to a microsecond (the firmware's
is eight); frames have more than one byte; an ACK comes 3 us after the byte is taken, or
later (2 us will do up to eleven cycles to a microsecond), and so late at most that its way,
with both CPUs late, fits the budget (`AckFitsAssumption`; 11 us in a budget of 100 for the
SG); the loopback's words are at most eight bits, and its ACK timeout is six microseconds or
more (100 in the code); and no CPU is later than the ACK timeout less two microseconds.

**LogicProofs** holds what is shared: what `decode`, `decode_poll`, `step` and `advance`
return, the bytes of a command, and what `step_model`, `reset` and `apply` keep of
`SgModel`. Each proof module of a component cites them by name.

* **Negotiation.** None of the invariants is inductive alone: that a link is
  only Negotiating at two of the stages depends on the stage, the stage on the
  link, and that a streaming link is the work of the last answer on both. The
  inductive invariant is the conjunction of the type invariant with
  `StageMatchesLink`, `NegotiatingIsBounded` and `StreamsWholeFrames`. The step is
  split as `advance` is: an accepted enter (the link is left alone), a declined
  answer (a fixed link), a step; under the last, by the outcome and the stage.
  The lemmas it rests on say that a good frame is as long as its id says, what `step`
  returns for each outcome, and that saturating addition stays in range and exact
  below the limit. That it never falls below its first addend (`StepRunsOn`) is what
  `LinkAlwaysRemembers` adds to them.
* **Refinement** (`PromiseKept`). Every step of `Negotiation` is an `Accept` or a
  `Restart` of `AnalogSequence`, by the same case split: a frame that leaves the
  stage going forward keeps the cause; one that drops gives one.
* **Gamepad** (`GamepadNegotiates`). The firmware's loop implements `Negotiation`:
  `Poll` is an `Exchange`, every other action leaves its variables alone. So each
  theorem above holds of the firmware. `CountsWatch` says the same of the module that
  counts beside it: a behaviour of `BusyCount` is one of `Gamepad`.
* **HilBus** (`BusNegotiates`). The byte-level bench implements `Negotiation` with
  `Answers` <- all sequences of bytes: only `ClockByte` at the last byte and
  `AckTimeout` move the master's link and stage, and each does what an `Exchange` does.
  `BusInv` is needed because an `Exchange` has an answer of bytes no longer
  than its command: a frame under way is shorter than its command at `clock` and
  shorter by two at `ack`; the device's word is a byte or none; and the emulator
  answers with bytes in every mode and under every fault (an injected id is a
  byte, the index stays inside the payload). With it come `TypeCorrect` and every
  theorem about `Negotiation`, its refinement of `AnalogSequence` included
  (`BusKeepsNegotiation`, `BusKeepsPromise`), for any number of lines and pulled plugs.
  The lemmas `Same...` say that the instantiated operators are those of
  `MasterLogic`, as no constant they use is substituted.
* **The two in step** (`StepsTogether`, `AcceptedHeld`, `StreamsPayload`). `InStep` speaks of
  one moment of one frame. `PioInv` carries it from frame to frame: wherever the emulator is
  when it does not serve, its device holds the idle byte and has taken nothing in, or is
  without a word, has taken something in, and will be restarted before it serves. `ServeInv` carries it
  from byte to byte: between a clocked byte and its ACK the byte waits in the FIFO, or is
  taken, or is answered, and at each of these the model's index, the command it has heard
  and the word loaded are those of that byte; the bytes the master has are the model's
  first ones. At the last byte this gives both ends of a frame: the model has heard what
  `command_for` sent, and what the master decodes is the model's payload.
  With the plug out, no byte is completed but one that waits for no ACK (`JudgedOff`).
* **SgAlone** (`Faithful`, `ModeFixed`, `TakeEffectOnce`). `AnswersFaithfully` says nothing of
  the state that decides the next byte. With it, the invariant says that the index counts
  the bytes received, that `is_broken` is set just when a byte of the frame was not heard
  (`FrameInv`), and that what is held of a command is what those bytes were (`HeldInv`).
* **Observe** (`NewsFresh`, `GapHolds`, `DropsNamed`). The filter sees a difference of two
  readings of a counter that wraps; the properties speak of the time that has passed.
  `ClockInv` relates them: the difference never runs ahead of the time since the last trace,
  and while an answer is held back it is below the gap and no less than the time for which
  the answer has been seen. `ShownInv` says that a `link:` line
  starts in the state the last one ended in. The proof found an assumption that the run
  had made silently: a frame that comes almost a whole turn of the counter after the last
  one reads as having waited no time at all, and a change in it is held back although the gap
  has long passed (`NewsIsNeverOld` fails with `Elapseds` = {1, 8} and `kMaxUs` = 8). On the
  firmware that is a loop that stands still for 71 minutes; `DelaysAssumption` excludes it.
* **Bench** (`JudgesFresh`). Two discarded summaries are enough because at most two of those
  the harness will read can hold a poll from before the line: the one in flight and the
  one being counted, or one that has arrived and one of these. `StaleInv` numbers the summaries that are
  still to be read, those that have arrived, the one in flight, the one being counted, and says that only the
  first ones, as many as are still to be discarded, may be stale. A summary keeps its number when
  it is printed, which is where `MaxFlight` below the summary length is needed: nothing else is in
  flight then. `LineInv` says that no line is on its way while the harness reads.
* **The bits** (`BitsStayCoupled`, `ProgramsExchangeBytes`). The two programs run from the same
  clock line and never look at one another's place; that they are at places that fit is a
  matter of counting cycles. First, `MasterAt` and `DeviceAt` say what each program holds at
  each of its instructions: which bits of its word are still to go out, which of the
  other's have come in. `Coupled...` then says which instruction of one meets which of
  the other, by the half of the bit the master is in and the cycles since its last edge
  (`Fallen`, `Risen`): in the low half the device sees the edge within its first cycles and
  has its bit on DATA before the master samples; in the high half it has CMD in, loops, and
  waits for the next edge before that falls. The one cycle that a device restarted under
  a byte may lose is in `Behind`, and `OneLess` says that such a device never has the bit the
  master has. `Content` is what all this is for: the bits the master has are the first of
  the loaded byte, and those the device has are the first of the sent one. The places of the
  two CPUs (`TimerHolds`, `CpuHolds`, `ListenHolds`, `ServeHolds`) say what a CPU may find in a FIFO
  when it looks. `Inv` is their conjunction, one lemma per part and step; from it each
  step is a step of `ByteWire` or stutters (`StepIs`). So `HilBus`'s atomic byte is
  justified for any width, any frame length and any lateness within the assumptions, not
  only for the run's.
* **The ACK in time** (`AcksAlwaysArrive`). That the pulse, once given, is seen is in `Inv`. That
  it is given in time needs a bound on each place of its way: the byte waits to be taken, the
  emulator waits out its delay, the word is on its way through the FIFO, the pulse
  starts, the master looks (`AckOnItsWay`). `AckInTime` adds to the time since
  the byte was handed over what its place may still take. `FlagHolds` is why a byte
  without ACK owes none: the flag the device holds early in its program is of a word just pulled.
* **The loopback** (`PrintsWiring`). `PrintsWhatIsWired` speaks of a frame when it is printed;
  `LoopInv` follows it there. What the master's program holds at each instruction is
  `MasterAt` again (`PioMasterProofs`), so the bits it has of the byte on its way are the
  echo of what it sent: the byte itself, or all ones without the jumper (`Echoes`); the bytes
  that came are echoes of those before it (`Lines`); and the probe reads the bit that goes
  out next (`Probes`). That a frame is cut short only where the jumper on ACK is missing is
  a matter of time: `Due` is the latest cycle at which the program can be at
  each instruction, which needs the budget's grace to cover its last six microseconds
  (`AckTimeoutAssumption`), and `Punctual` says that until it waits for an ACK that no jumper
  gives it is never later. A jumper that is moved disturbs only the frame or
  probe it is moved in: from the next on, all of this holds again. The run allows a
  few moves; the theorem any number.
* **The pads** (`BootsIdleAlways`, `OneLevelAlways`). Five kinds of pin, each with its two or three
  calls: one lemma each on what the pad drives after each call, whatever the latch
  held. `InPlace` is the invariant: a master is at a place of its table, so each pad
  has had a prefix of its calls. How often power was lost does not matter.
* **The bar** (`WhammyFollows`). The report built of a frame has the whammy of the axis and id last decoded
  (`PlayerInv`), and the subtraction and doubling in `whammy_from_axis` never leave a byte
  (`WhammyIsDistance`).
* **ConsoleLines**. Each reader keeps either all characters since the line feed
  or a full buffer that shows it was overrun (`KeepsInv`). What is left is length:
  the buffers have room for one character more than the longest good line and its
  carriage return, so a cut line is still too long after a carriage return is
  dropped.
* **NeutralAlways** is inductive with the fact that the report is assigned in the
  step that changes the link. **BusyFits** is not: between the readiness read and
  the summary the count may be one ahead. `BusyInv` says by how much at each
  location, and the arithmetic of a remainder at a step, at a wrap and at zero
  are lemmas of their own.

* **BusyCounts** is not inductive: after the readiness read `busy` has counted this
  poll and the count of unsent reports has not. `CountInv` says, for that location, that
  the bound holds with the report counted as what it would be now, if nothing has
  interrupted; and that a poll that was interrupted has room for either, as it is
  counted in `raced` already, once.

Only model-checked:

* everything under fairness (`NoStuckPress`, `HostCatchesUp`, `Reconverges`, `UnplugNoticed`,
  `RunEnds`, `FrameEnds`), which is out of the prover's reach;
* `ReportSaysWhatIsHeld` and `TraceShowsFrame`: what a fold computes, over the set bits of a
  button mask, over the bytes of a frame, needs induction over data. The first run goes
  through every set of buttons there is;
* `NoFalseAlarm`, about one script and what its every line makes of a frame, which the
  run goes through;
* `OneFrameLost` and `AckedMeansHeard`: a power loss breaks the coupling of the two programs at
  any instruction, so that `Inv` has no counterpart there, and how a device at any
  place under any edges gets back is a case for each place;
* `TraceShowsAckDelay`: its bounds are about the phase of the two clocks, cycle by cycle.

The type invariants are proved for `Negotiation`, `HilBus`, `SgAlone`, `Observe` and, as parts of
`Inv`, for `BitBus`; the others document their modules and hold in the runs, which do not list
them.

## 5. Findings

`docs/phases/09-guitar-observe/verify.md:37` says of a `link:` line that "`fault=` says
why it last dropped to `absent`". The run `fault_says_why` switches the observer to
analog while it shows `digital`: the fresh Master's link is Absent with no cause
(`app/observe.cpp:71`), the accepted enter-config frame leaves it so, and the line is
`digital -> absent fault=none` although no frame was refused. The recorded capture
`captures/emu.log:6` of that phase has this line. `DropsNameTheirCause` is what holds:
every other line into absent names its cause.

Some more things a reader of the models should know, none of them an error.
`docs/phases/10-guitar-full/verify.md:20` says of a guitar stuck in config mode that "the
master would give up and start over after a time limit, `kNegotiationTimeoutUs`". A
controller that answers well and in config mode is dropped sooner, at the first poll, as
Declined: `advance` compares the id with the expected one (`core/negotiation.cpp:103`) before
`step` would look at the time. The limit decides only about a leave-config frame that comes
more than 48 ms after the set-analog one; `NegotiatingIsBounded` and `ConfigModeIsBrief` are
what holds of either. The
last byte of a frame waits for no ACK, so a plug pulled right before it gives a
complete frame whose last byte reads released, and the link streams on it. What this can
get wrong is bounded: the lost byte is the whammy, at rest (`StreamsModelPayload`), and the bytes
before it are those the emulator answered with, each at its index (`InStep`). The readiness read for `busy` and the one in `send_report` can
differ when a USB interrupt falls between them: `BusyCountsUnsent` says that this is
the only way in which the bench's count is off, and by how much. The time between
polls is a difference modulo 2^32: a stall of 71.6 minutes would read as a short
one. Nothing corrects that; what bounds config mode all the same is the number of
frames in it (`ConfigModeIsBrief`). And the shown ACK delay may be 3 us short
of the delay set: one microsecond is lost to the emulator's clock, which counts whole ones,
and the rest to the phases of the two programs (`TraceShowsAckDelay` has the bounds).
The emulator takes an ACK delay of 1 us (`fault late 1`). Its pulse of two microseconds can then
be over before the master has come from its last bit to its wait for ACK, which TLC shows
(`ExchangesBytes` fails with `AckDelays` = {1}): the frame is given up although every byte
was acknowledged. No such delay is used by the bench, and the SG's is eleven; `AckDelaysAssumption`
is where the proof needs it.

## 6. Not modelled

* **Analogue levels**: rise times, noise, the 10 kOhm pull-ups that the wiring adds to the internal
  ones. A wire is high or low at once, and a line with a pull-up and no driver is high.
* **Formatting** of the summary and of the `link:` line, and the summary's fields `att`, `us`
  and `hand`: a pin and two times. The names in a `link:` line are constants.
* **The argument check of `format_trace_line`** (`core/bus_trace.cpp:80-82`): no caller passes a
  frame it refuses, so `TraceLine` has no case for it.
* **The harness's other modes.** `--demo` judges nothing; `--guitar` is a person at a
  guitar. Its other tools (`tools/trace_decode.py` apart) have no part in the firmware.
* **Descriptors and strings**, except the layout of the report, by which
  `GuitarAlone` reads it. They are constants, given to TinyUSB on request, and make up most of
  `usb_device.cpp`. TinyUSB is external: one endpoint, and the two places it runs in.

## 7. Plan

The order so far was: the master's decision logic and its promise, since everything
else depends on it; the emulator; the two on one bus; the report; the firmware
with USB; proofs of the first and the last; the observer, the consoles and the
bench; proofs of the bus and of the consoles; the bits of the two PIO programs, their
boots and the loopback; the trace; the busy count and its proof; proofs of the emulator, of
the two firmwares in step, of the observer and of the bench's windows; proofs of the bits, of
the ACK's time, of the pads, of the whammy and of the loopback. Next:

1. *Observe and Bench*: `Bench`, and analog mode of `Observe` between two switches, as
   implementations of `Negotiation`, with the exchanged answer kept beside the state as
   `HilBus` keeps it.
2. *A device that was reset*: how many edges bring it back, for every width (`OneFrameLost`).
3. *The harness's `--guitar` mode.*
