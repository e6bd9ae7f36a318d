------------------------------- MODULE BitBus -------------------------------
(***************************************************************************)
(* The two-Pico bus a PIO cycle at a time: both programs, the master's      *)
(* exchange_frame and exchange_byte, and the emulator's main loop.          *)
(*                                                                         *)
(* A Tick is one cycle of the device's clock; the master's runs eight times *)
(* slower and its phase is whatever it is.  The CPUs run between ticks.  A  *)
(* CPU that has something to do is at most kLagCycles late for it, except   *)
(* that an emulator printing to its console is as late as it likes.         *)
(***************************************************************************)
EXTENDS PioDevice

CONSTANTS
    Bytes,          \* the bytes either side sends
    FrameLen,       \* the bytes of a frame
    kAttSetupUs, kByteGapUs, kAckTimeoutUs, kAckDelayUs,
    AckDelays,      \* the ACK delays the emulator may be set to, in us
    kLagCycles      \* how late a CPU may be

ASSUME BytesAssumption == Bytes \subseteq Bits
ASSUME FrameLenAssumption == FrameLen \in Nat /\ FrameLen > 1

(* What the two programs' timing needs.  A bit of four microseconds leaves  *)
(* the device the cycles to follow it; the shortest ACK delay lets the      *)
(* master get from its last bit to its wait for the pulse; and no CPU is so *)
(* late that a byte clocked in full could be given up.                      *)
ASSUME ClocksAssumption == kCyclesPerUs >= 8
ASSUME AckDelaysAssumption ==
    \A us \in AckDelays : us \in Nat /\ (us >= 3 \/ (us = 2 /\ kCyclesPerUs <= 11))
ASSUME TimesAssumption ==
    /\ kAttSetupUs \in Nat /\ kByteGapUs \in Nat
    /\ kAckTimeoutUs \in Nat /\ kAckTimeoutUs >= 5
    /\ kLagCycles \in 0 .. (kAckTimeoutUs - 2) * kCyclesPerUs

(* The SG's ACK is within the budget, with what the CPUs may be late.       *)
ASSUME AckFitsAssumption ==
    /\ kAckDelayUs \in Nat
    /\ (kAckDelayUs + 5) * kCyclesPerUs + 3 * kLagCycles + 3 <= kAckTimeoutUs * kCyclesPerUs

kByteBudgetUs == 4 * kWireBitsPerByte + kAckTimeoutUs

VARIABLES
    master, device,   \* the two state machines
    mcpu,             \* "idle": ATT high; "wait", "poll" or "recover"
    index,            \* the bytes of this frame that completed
    sent, waits,      \* the byte handed over last, and whether it waits for ACK
    timer,            \* cycles left to wait, or since the byte was handed over
    ecpu,             \* "listen", "print", "serve" or "answer"
    reply,            \* the ByteAnswer it is about to give
    delay,            \* cycles until it does
    ack_delay_us,     \* the delay it is set to
    loaded,           \* the byte it loaded last
    late,             \* history: the device was restarted under this byte
    lag               \* ticks each CPU has been late

mcpuVars == <<mcpu, index, sent, waits, timer>>
ecpuVars == <<ecpu, reply, delay, ack_delay_us, loaded, late>>
vars == <<master, device, mcpuVars, ecpuVars, lag>>

NoReply == [next |-> kReleasedByte, should_ack |-> FALSE]

att_is_high == mcpu = "idle"
data == 1 - device.pull_data
ack  == 1 - device.pull_ack

TypeOK ==
    /\ master \in MasterSm /\ device \in DeviceSm
    /\ mcpu \in {"idle", "wait", "poll", "recover"}
    /\ index \in 0 .. FrameLen - 1
    /\ sent \in Bits /\ waits \in BOOLEAN
    /\ timer \in 0 .. (kByteBudgetUs + 2) * kCyclesPerUs + kLagCycles + 1
    /\ ecpu \in {"listen", "print", "serve", "answer"}
    /\ reply \in [next : Bits, should_ack : BOOLEAN] /\ loaded \in Bits
    /\ delay \in Nat /\ ack_delay_us \in AckDelays
    /\ late \in BOOLEAN
    /\ lag \in [{"master", "emulator"} -> 0 .. kLagCycles]

Init ==
    /\ master = MasterAtBoot /\ device = DeviceAtBoot
    /\ mcpu = "idle" /\ index = 0 /\ timer = 0
    /\ sent = kReleasedByte /\ waits = FALSE
    /\ ecpu = "listen" /\ reply = NoReply /\ delay = 0
    /\ ack_delay_us \in AckDelays
    /\ loaded = kReleasedByte /\ late = FALSE
    /\ lag = [cpu \in {"master", "emulator"} |-> 0]

-----------------------------------------------------------------------------
(* The master's CPU. *)

(* Microseconds are counted by a clock that ticks on its own: a difference  *)
(* of more than the budget is one tick early or late.                       *)
MayGiveUp  == timer > kByteBudgetUs * kCyclesPerUs
MustGiveUp == timer > (kByteBudgetUs + 2) * kCyclesPerUs

MasterCan ==
    \/ mcpu = "wait" /\ timer = 0
    \/ mcpu = "poll" /\ (has_byte(master) \/ MustGiveUp)
    \/ mcpu = "recover"

(* ATT falls.  Frames are a poll period apart, so that the emulator is back *)
(* in its loop by then, or printing.                                        *)
StartFrame ==
    /\ mcpu = "idle" /\ ecpu \notin {"serve", "answer"}
    /\ mcpu' = "wait" /\ timer' = kAttSetupUs * kCyclesPerUs /\ index' = 0
    /\ lag' = [lag EXCEPT !["master"] = 0]
    /\ UNCHANGED <<master, device, sent, waits, ecpuVars>>

IsLast == index + 1 = FrameLen

(* exchange_byte hands the byte over; the last one waits for no ACK.        *)
PutByte ==
    /\ mcpu = "wait" /\ timer = 0
    /\ \E out \in Bytes :
            /\ sent' = out
            /\ waits' = ~IsLast
            /\ master' = put(master, out \o <<IF waits' THEN 1 ELSE 0>>)
    /\ mcpu' = "poll" /\ timer' = 0 /\ late' = FALSE
    /\ lag' = [lag EXCEPT !["master"] = 0]
    /\ UNCHANGED <<device, index, ecpu, reply, delay, ack_delay_us, loaded>>

(* The byte is in: the next one after the gap, or ATT rises.                *)
GetByte ==
    /\ mcpu = "poll" /\ has_byte(master)
    /\ master' = dropped_byte(master)
    /\ IF IsLast
       THEN mcpu' = "idle" /\ index' = 0 /\ timer' = 0
       ELSE mcpu' = "wait" /\ index' = index + 1 /\ timer' = kByteGapUs * kCyclesPerUs
    /\ lag' = [lag EXCEPT !["master"] = 0]
    /\ UNCHANGED <<device, sent, waits, ecpuVars>>

(* The budget is over with nothing in the FIFO.  The program still runs     *)
(* until recover halts it.                                                  *)
TimeOut ==
    /\ mcpu = "poll" /\ ~has_byte(master) /\ MayGiveUp
    /\ mcpu' = "recover" /\ timer' = 0
    /\ lag' = [lag EXCEPT !["master"] = 0]
    /\ UNCHANGED <<master, device, index, sent, waits, ecpuVars>>

Recover ==
    /\ mcpu = "recover"
    /\ master' = recover(master)
    /\ mcpu' = "idle" /\ index' = 0
    /\ lag' = [lag EXCEPT !["master"] = 0]
    /\ UNCHANGED <<device, sent, waits, timer, ecpuVars>>

-----------------------------------------------------------------------------
(* The emulator's CPU. *)
EmulatorCan ==
    \/ ecpu = "listen" /\ ~att_is_high
    \/ ecpu = "serve" /\ (att_is_high \/ has_byte(device))
    \/ ecpu = "answer" /\ (att_is_high \/ delay = 0)

Restarted ==
    /\ device' = device_restart(device)
    /\ loaded' = kReleasedByte
    /\ late' = ~att_is_high

(* The main loop: a command line is read and answered while ATT is high ... *)
PrintLine ==
    /\ ecpu = "listen" /\ att_is_high
    /\ ecpu' = "print" /\ ack_delay_us' \in AckDelays
    /\ UNCHANGED <<master, device, mcpuVars, reply, delay, loaded, late, lag>>

(* ... and what was clocked meanwhile is dropped.                           *)
Printed ==
    /\ ecpu = "print"
    /\ ecpu' = "listen"
    /\ IF has_byte(device) THEN Restarted ELSE UNCHANGED <<device, loaded, late>>
    /\ lag' = [lag EXCEPT !["emulator"] = 0]
    /\ UNCHANGED <<master, mcpuVars, reply, delay, ack_delay_us>>

SelectSeen ==
    /\ ecpu = "listen" /\ ~att_is_high
    /\ ecpu' = "serve"
    /\ lag' = [lag EXCEPT !["emulator"] = 0]
    /\ UNCHANGED <<master, device, mcpuVars, reply, delay, ack_delay_us, loaded, late>>

(* Wrong: the answer does not wait for the ACK delay. *)
AckDelay_none == {0}

(* The delay is a difference of microseconds: up to one of them is missing. *)
AckDelay == (ack_delay_us - 1) * kCyclesPerUs + 1 .. ack_delay_us * kCyclesPerUs

(* A byte is taken and judged.  Only an ACK is waited for.                  *)
TakeByte ==
    /\ ecpu = "serve" /\ has_byte(device)
    /\ device' = dropped_byte(device)
    /\ ecpu' = "answer"
    /\ reply' \in [next : Bytes, should_ack : BOOLEAN]
    /\ delay' \in IF reply'.should_ack THEN AckDelay ELSE {0}
    /\ lag' = [lag EXCEPT !["emulator"] = 0]
    /\ UNCHANGED <<master, mcpuVars, ack_delay_us, loaded, late>>

AnswerByte ==
    /\ ecpu = "answer" /\ delay = 0
    /\ device' = device_answer(device, reply.next, reply.should_ack)
    /\ loaded' = reply.next
    /\ reply' = NoReply
    /\ ecpu' = "serve"
    /\ lag' = [lag EXCEPT !["emulator"] = 0]
    /\ UNCHANGED <<master, mcpuVars, delay, ack_delay_us, late>>

(* ATT rose: back to the top of the main loop.                              *)
Deselected ==
    /\ att_is_high
    /\ ecpu = "serve" \/ (ecpu = "answer" /\ reply.should_ack)
    /\ ecpu' = "listen" /\ reply' = NoReply /\ delay' = 0
    /\ Restarted
    /\ lag' = [lag EXCEPT !["emulator"] = 0]
    /\ UNCHANGED <<master, mcpuVars, ack_delay_us>>

-----------------------------------------------------------------------------
(* A cycle of the device, with the master's state machine going to `next`:  *)
(* each sees the levels the other left.                                     *)
CycleTo(next) ==
    /\ \A cpu \in DOMAIN lag : lag[cpu] < kLagCycles
    /\ master' = next
    /\ device' = DeviceCycle(device, master.clk, master.cmd)
    /\ timer' = CASE mcpu = "wait" -> IF timer = 0 THEN 0 ELSE timer - 1
                  [] mcpu = "poll" -> timer + 1
                  [] OTHER -> 0
    /\ delay' = IF delay = 0 THEN 0 ELSE delay - 1
    /\ lag' = [master   |-> IF MasterCan THEN lag["master"] + 1 ELSE 0,
               emulator |-> IF EmulatorCan THEN lag["emulator"] + 1 ELSE 0]
    /\ UNCHANGED <<mcpu, index, sent, waits, ecpu, reply, ack_delay_us, loaded, late>>

Tick == CycleTo(MasterCycle(master, data, ack))

MasterCpu == StartFrame \/ PutByte \/ GetByte \/ TimeOut \/ Recover

EmulatorCpu == \/ PrintLine \/ Printed \/ SelectSeen
               \/ TakeByte \/ AnswerByte \/ Deselected

Next == MasterCpu \/ EmulatorCpu \/ Tick

(* The clocks run, and so do the two CPUs. *)
Spec == /\ Init /\ [][Next]_vars
        /\ WF_vars(Tick) /\ WF_vars(MasterCpu) /\ WF_vars(EmulatorCpu)

-----------------------------------------------------------------------------
UnderWay == mcpu \in {"poll", "recover"}

(* The byte under way has been clocked and, if the device was listening,    *)
(* heard.                                                                   *)
IsOver == HasAllBits(master) /\ (IsShifting(device) => device.pc = "wait_low")

(* A device that was restarted under the byte may have missed its first     *)
(* edges; it waits for ones that do not come.                               *)
IsDeaf == IsShifting(device) /\ device.pc = "wait_low" /\ (IsOver \/ ~UnderWay)

(* An ACK that the device was told to give and the master can still see, or *)
(* has seen.                                                                *)
IsAcked ==
    \/ master.pc = "push" \/ has_byte(master)
    \/ device.tx # <<>> /\ Head(device.tx)[1] = 1
    \/ device.pc = "out_x" /\ Head(device.osr) = 1
    \/ device.pc \in {"jmp_x", "ack_low", "ack_high"} /\ device.x = 1

(* The bytes of the wire, in terms of the two programs. *)
WirePc   == IF ~UnderWay THEN "idle" ELSE IF IsOver THEN "over" ELSE "clock"
WireIn   == IF WirePc # "over" THEN kReleasedByte
            ELSE IF has_byte(master) THEN Head(master.rx) ELSE master.isr
WireAck  == WirePc = "over" /\ waits /\ IsAcked
WireTx   == IF IsIdle(device) \/ IsDeaf THEN <<>> ELSE loaded
WireLate == late /\ WirePc = "clock"

Wire == INSTANCE ByteWire WITH
    Byte <- Bits, Released <- kReleasedByte, NoWord <- <<>>,
    mpc <- WirePc, waits <- waits, out <- sent, in <- WireIn, ack <- WireAck,
    tx <- WireTx, rx <- device.rx, late <- WireLate

(* The programs and their CPUs exchange bytes as HilBus assumes: whole, the *)
(* one loaded for the one sent, and every ACK given in time seen.           *)
ExchangesBytes == Wire!Spec

(* An ACK at the SG's own pace is never lost and never too late: no byte    *)
(* that the emulator answered with one is given up, however the two clocks  *)
(* and the two loops fall, though the pulse lasts two microseconds and      *)
(* nobody holds it.                                                         *)
AcksArrive ==
    [][TimeOut /\ ack_delay_us = kAckDelayUs => device.x = 0]_vars

(* What tools/trace_decode.py shows as a byte's `ack` is its time less 37   *)
(* us, a cycle count of the master's program.  It is the delay the emulator *)
(* was set to, three microseconds less at most and one more, and what the   *)
(* CPUs were late; a byte that waits for no ACK takes the 37 (R-PROTO-09).  *)
SHIFT_US == 4 * kWireBitsPerByte + 5

TraceShowsAckDelay ==
    [][GetByte =>
        LET shown == timer - SHIFT_US * kCyclesPerUs
            true  == IF waits THEN ack_delay_us * kCyclesPerUs ELSE 0
        IN  shown \in true - 3 * kCyclesPerUs .. true + kCyclesPerUs + 3 * kLagCycles]_vars
=============================================================================
