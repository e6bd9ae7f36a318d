------------------------------ MODULE BusReset ------------------------------
(***************************************************************************)
(* The bus of BitBus with two Picos that may lose power at any cycle and    *)
(* boot again, a call of Pins at a time, and an emulator that judges what   *)
(* it hears.                                                                *)
(*                                                                         *)
(* A Pico in reset pulls its pads down, and the emulator pulls its inputs   *)
(* nowhere: ATT, CLK and CMD of a master that is off read low, a selection  *)
(* and a falling edge.  bus_init makes each of them high in turn, and CLK   *)
(* after ATT: a rising edge that clocks a bit into a device that was        *)
(* restarted in between.                                                    *)
(***************************************************************************)
EXTENDS BitBus, Pins

CONSTANTS
    kFrameStart,   \* the byte every frame starts with, 0x01
    MaxResets      \* bound: how often each Pico loses power

ASSUME FrameStartAssumption == kFrameStart \in Bytes
ASSUME MaxResetsAssumption == MaxResets \in [Pico -> Nat]

VARIABLES
    booted,   \* where the master is in its boot
    heard,    \* bytes of this frame accepted, FrameLen from a wrong one on
    judged,   \* the byte judged last
    resets,   \* how often each Pico lost power
    lost      \* history: frames given up since the bus was last disturbed

judgeVars == <<heard, judged>>
resetVars == <<vars, booted, judgeVars, resets, lost>>

MasterRuns   == booted = LastPlace["master"]
EmulatorRuns == ecpu \notin {"off", "boot"}

ResetInit ==
    /\ Init
    /\ booted = LastPlace["master"]
    /\ heard = 0 /\ judged = kReleasedByte
    /\ resets = [pico \in Pico |-> 0] /\ lost = 0

-----------------------------------------------------------------------------
(* The levels of a master in its boot, which do not depend on what the      *)
(* PIO's latch held.                                                        *)
LevelsAt ==
    [at \in Places("master") |->
        [signal \in Signal |->
            IF Driven(PadsAt("master", 0, at)[signal]) = "high" THEN 1 ELSE 0]]

MasterBooting(at) ==
    /\ booted' = at
    /\ master' = [MasterAtBoot EXCEPT !.clk = LevelsAt[at]["Clk"],
                                      !.cmd = LevelsAt[at]["Cmd"]]
    /\ mcpu' = IF LevelsAt[at]["Att"] = 1 THEN "idle" ELSE "off"

LoseMaster ==
    /\ MasterRuns /\ resets["master"] < MaxResets["master"]
    /\ resets' = [resets EXCEPT !["master"] = @ + 1]
    /\ MasterBooting(FirstPlace)
    /\ index' = 0 /\ timer' = 0
    /\ lag' = [lag EXCEPT !["master"] = 0]
    /\ UNCHANGED <<device, sent, waits, ecpuVars, judgeVars, lost>>

(* bus_init, and the program runs. *)
BootMaster ==
    /\ ~MasterRuns
    /\ MasterBooting(NextPlace("master", booted))
    /\ lost' = 0
    /\ lag' = [lag EXCEPT !["master"] = 0]
    /\ UNCHANGED <<device, index, sent, waits, timer, ecpuVars, judgeVars, resets>>

(* Every frame starts with kFrameStart.                                     *)
MasterStep ==
    /\ MasterRuns
    /\ StartFrame \/ (PutByte /\ (index = 0 => sent' = kFrameStart)) \/ GetByte
       \/ Recover
    /\ UNCHANGED <<booted, judgeVars, resets, lost>>

GiveUp ==
    /\ MasterRuns /\ TimeOut
    /\ lost' = IF lost < 2 THEN lost + 1 ELSE lost
    /\ UNCHANGED <<booted, judgeVars, resets>>

-----------------------------------------------------------------------------
(* The emulator. *)
LoseEmulator ==
    /\ EmulatorRuns /\ resets["emulator"] < MaxResets["emulator"]
    /\ resets' = [resets EXCEPT !["emulator"] = @ + 1]
    /\ device' = [DeviceAtBoot EXCEPT !.tx = <<>>]
    /\ ecpu' = "off" /\ reply' = NoReply /\ delay' = 0
    /\ lag' = [lag EXCEPT !["emulator"] = 0]
    /\ UNCHANGED <<master, mcpuVars, ack_delay_us, loaded, late, booted, judgeVars, lost>>

(* Power is back, later than what is left of a frame that was under way.    *)
PowerEmulator ==
    /\ ecpu = "off" /\ mcpu \in {"idle", "off"}
    /\ ecpu' = "boot"
    /\ UNCHANGED <<master, device, mcpuVars, reply, delay, ack_delay_us, loaded, late, lag,
                   booted, judgeVars, resets, lost>>

(* The end of device_init, which starts the program, and the main loop.  Its *)
(* calls before that do nothing that the bus sees but what DownLevels says. *)
BootEmulator ==
    /\ ecpu = "boot"
    /\ ecpu' = "listen" /\ lost' = 0
    /\ Restarted
    /\ lag' = [lag EXCEPT !["emulator"] = 0]
    /\ UNCHANGED <<master, mcpuVars, reply, delay, ack_delay_us, booted, judgeVars, resets>>

(* Wrong: the first byte is taken for a frame's start whatever it is. *)
IsAccepted_any(byte) == heard + 1 < FrameLen

(* What SgModel::step acknowledges: the frame start, then every byte but    *)
(* the last, and nothing after a wrong byte.                                *)
IsAccepted(byte) ==
    /\ heard + 1 < FrameLen
    /\ heard = 0 => byte = kFrameStart

(* What it answers with besides the ACK is not looked at here: one byte.     *)
Judge ==
    /\ TakeByte /\ reply'.next = kFrameStart
    /\ judged' = Head(device.rx)
    /\ reply'.should_ack = IsAccepted(judged')
    /\ heard' = IF reply'.should_ack THEN heard + 1 ELSE FrameLen
    /\ UNCHANGED <<booted, resets, lost>>

Select ==
    /\ SelectSeen
    /\ heard' = 0
    /\ UNCHANGED <<booted, judged, resets, lost>>

PrintEnds ==
    /\ Printed
    /\ lost' = 0
    /\ UNCHANGED <<booted, judgeVars, resets>>

EmulatorStep ==
    /\ PrintLine \/ AnswerByte \/ Deselected
    /\ UNCHANGED <<booted, judgeVars, resets, lost>>

-----------------------------------------------------------------------------
BusTick ==
    /\ CycleTo(IF MasterRuns THEN MasterCycle(master, data, ack) ELSE master)
    /\ UNCHANGED <<booted, judgeVars, resets, lost>>

ResetNext ==
    \/ LoseMaster \/ BootMaster \/ MasterStep \/ GiveUp
    \/ LoseEmulator \/ PowerEmulator \/ BootEmulator
    \/ Judge \/ Select \/ PrintEnds \/ EmulatorStep \/ BusTick

ResetSpec == ResetInit /\ [][ResetNext]_resetVars

-----------------------------------------------------------------------------
(* A byte that the master takes for acknowledged was heard whole and at its *)
(* own place in the frame: bits of a boot's edge with a byte's first ones   *)
(* behind them are never acknowledged, nor does an ACK of the frame it was  *)
(* sending when it lost power pass for one of the next.                     *)
AckedMeansHeard ==
    [][GetByte /\ waits => judged = sent /\ heard = index + 1]_resetVars

(* Whatever a power loss, and a print while it happened, left in the        *)
(* device, one frame at most is lost to it once both are back.              *)
OneFrameLost == EmulatorRuns /\ ecpu # "print" => lost <= 1

-----------------------------------------------------------------------------
(* The pads: those of the boot, and once it is over what the program makes  *)
(* of them, whatever the PIO's latches held.                                *)
Latch == {0, 1}

MasterPads(latch) ==
    LET pads == PadsAt("master", latch, booted)
    IN  IF ~MasterRuns THEN pads
        ELSE [pads EXCEPT !["Att"].sio_out = IF att_is_high THEN 1 ELSE 0,
                          !["Cmd"].pio_out = master.cmd,
                          !["Clk"].pio_out = master.clk]

(* What an emulator that is off, or at any call of its boot, may put on a   *)
(* wire, and what it does once it runs.                                     *)
DownLevels ==
    [signal \in Signal |->
        {Driven(PadsAt("emulator", latch, at)[signal]) :
            latch \in Latch, at \in Places("emulator")}]

RunPad(signal, latch) ==
    LET pad == PadsAt("emulator", latch, LastPlace["emulator"])[signal]
    IN  CASE signal = "Data" -> [pad EXCEPT !.pio_oe = (device.pull_data = 1)]
          [] signal = "Ack"  -> [pad EXCEPT !.pio_oe = (device.pull_ack = 1)]
          [] OTHER -> pad

EmulatorLevels(signal) ==
    IF ~EmulatorRuns THEN DownLevels[signal]
    ELSE {Driven(RunPad(signal, latch)) : latch \in Latch}

(* However the two boots fall, a wire has one level.  No wire is driven by  *)
(* both Picos (R-SAFETY-06); DATA and ACK, which a real controller may pull *)
(* low at any moment, are never driven high by either (R-SAFETY-01,         *)
(* ADR-0016); and once the master runs, a wire nobody drives is pulled up.  *)
OneLevelPerWire ==
    \A latch \in Latch :
        LET pads == MasterPads(latch)
        IN  \A signal \in Signal :
                LET ours == Driven(pads[signal])
                IN  /\ \A theirs \in EmulatorLevels(signal) :
                        /\ ours = "released" \/ theirs = "released"
                        /\ signal \in {"Data", "Ack"} => "high" \notin {ours, theirs}
                    /\ MasterRuns => ours # "released" \/ pads[signal].pull = "up"

(* From its first moment as an output a line of the master is high, its     *)
(* idle level: a controller that is there already sees no edge it could     *)
(* take for a clock or a selection but the one to idle.                     *)
BootsIdle ==
    ~MasterRuns =>
        \A latch \in Latch, signal \in Signal :
            Driven(MasterPads(latch)[signal]) # "low"
=============================================================================
