------------------------------ MODULE SgAlone ------------------------------
(***************************************************************************)
(* The emulated SG against any master: frames of any bytes, cut anywhere,  *)
(* and command lines between frames.                                       *)
(***************************************************************************)
EXTENDS SgModel

CONSTANTS
    MasterBytes,  \* MasterBytes[i + 1]: what a master may send as wire byte i
    Lines         \* the command lines the operator may type

ASSUME MasterBytesAssumption == MasterBytes \in Seq(SUBSET Byte)
ASSUME LinesAssumption == \A line \in Lines : IsLine(line)

VARIABLES
    model,     \* the SgModel object
    selected,  \* ATT is low
    received,  \* the master's bytes in this frame, or in the last one
    sent,      \* the model's bytes in this frame, the next one out last
    acked      \* which of the received bytes it ACKed

sgVars == <<model, selected, received, sent, acked>>

SgTypeOK ==
    /\ model \in Model /\ model.index <= Len(MasterBytes)
    /\ selected \in BOOLEAN
    /\ received \in Seq(Byte)
    /\ sent \in Seq(Byte)
    /\ acked \in Seq(BOOLEAN)

SgInit ==
    /\ model = PowerOnModel
    /\ selected = FALSE
    /\ received = <<>>
    /\ sent = <<>>
    /\ acked = <<>>

Select ==
    /\ ~selected
    /\ selected' = TRUE
    /\ model' = reset(model)
    /\ received' = <<>>
    /\ sent' = <<kIdleByte>>
    /\ acked' = <<>>

Receive(byte) ==
    /\ selected
    /\ model' = step_model(model, byte)
    /\ received' = Append(received, byte)
    /\ sent' = Append(sent, step_answer(model, byte).next)
    /\ acked' = Append(acked, step_answer(model, byte).should_ack)
    /\ UNCHANGED selected

Deselect ==
    /\ selected
    /\ selected' = FALSE
    /\ UNCHANGED <<model, received, sent, acked>>

Command(line) ==
    /\ ~selected
    /\ model' = apply(model, line)
    /\ UNCHANGED <<selected, received, sent, acked>>

ReceiveAny ==
    /\ Len(received) < Len(MasterBytes)
    /\ \E byte \in MasterBytes[Len(received) + 1] : Receive(byte)

SgNext == Select \/ ReceiveAny \/ Deselect \/ \E line \in Lines : Command(line)

SgSpec == SgInit /\ [][SgNext]_sgVars

-----------------------------------------------------------------------------
(* The head of the frame is one this controller listens to, as far as it   *)
(* has come: 0x01, then a poll, or a config command, or set-mode in config *)
(* mode.                                                                   *)
IsHeard(n) ==
    /\ n >= 1 => received[1] = kFrameStart
    /\ n >= 2 => \/ received[2] \in {kCmdPoll, kCmdConfig}
                 \/ received[2] = kCmdSetMode /\ model.is_config

(* The frame as R-EMU-01 states it, all at once: the idle byte, the id, the *)
(* ready byte, the payload of the mode, idle again; silence from the byte   *)
(* that broke the frame on.  R-EMU-02: the id fault changes wire byte 1.    *)
FaithfulByte(i) ==
    CASE i = 0 \/ ~IsHeard(i) -> kIdleByte
      [] i = 1 /\ IsHeard(i) ->
            IF model.fault.kind = "Id" THEN model.fault.value ELSE mode_id(model)
      [] i = 2 /\ IsHeard(i) -> kReadyByte
      [] i >= 3 /\ IsHeard(i) ->
            IF i - 2 > payload_len(mode_id(model)) THEN kIdleByte
            ELSE IF model.is_config THEN 0 ELSE model.payload[i - 2]

FaithfulAck(i) ==
    /\ IsHeard(i + 1)
    /\ i < 2 + payload_len(mode_id(model))
    /\ ~(model.fault.kind = "Ack" /\ model.fault.value = i)

(* Answering byte by byte, the emulator gives the frame R-EMU-01 and        *)
(* R-EMU-02 promise, ACK by ACK, for every master.                          *)
AnswersFaithfully ==
    selected =>
        /\ \A i \in 0 .. Len(received) : sent[i + 1] = FaithfulByte(i)
        /\ \A i \in 0 .. Len(received) - 1 : acked[i + 1] = FaithfulAck(i)

(* A frame is answered in one mode from its first byte to its last: a       *)
(* command never takes effect inside the frame that carries it.             *)
ModeFixedInFrame ==
    [][selected => mode_id(model') = mode_id(model)]_sgVars

(* What the frame just received commands: nothing unless its head was heard *)
(* and its argument arrived.                                                *)
Commanded(cmd, argument) ==
    Len(received) >= 4 /\ received[2] = cmd /\ received[4] = argument

(* A command takes effect when the next frame starts, once, and only if its *)
(* argument arrived in a frame the emulator was listening to (it had sent   *)
(* the ready byte); the fault in force then decides whether it is declined. *)
CommandsTakeEffectOnce ==
    [][Select =>
        LET heard == Len(sent) >= 3 /\ sent[3] # kIdleByte
        IN  /\ model'.is_config =
                IF heard /\ Commanded(kCmdConfig, kConfigEnter) THEN TRUE
                ELSE IF heard /\ Commanded(kCmdConfig, kConfigLeave) THEN FALSE
                ELSE model.is_config
            /\ model'.is_analog =
                IF heard /\ Commanded(kCmdSetMode, kModeAnalog)
                   /\ model.fault.kind # "Decline" THEN TRUE
                ELSE IF heard /\ Commanded(kCmdSetMode, kModeDigital) THEN FALSE
                ELSE model.is_analog]_sgVars
=============================================================================
