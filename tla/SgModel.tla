------------------------------ MODULE SgModel ------------------------------
(***************************************************************************)
(* What the emulated SG answers, one byte at a time, and the line commands *)
(* that change it: the members of class SgModel as a record, its methods   *)
(* as operators.  Wire bytes are counted from 0, as in the code.           *)
(***************************************************************************)
EXTENDS Ps2Protocol

kIdleByte        == 255
kConfigReplyByte == 0
kButtonsReleased == 255
kAxisCentred     == 128

kWireIdIndex       == 1
kWireReadyIndex    == 2
kWirePayloadStart  == 3
kWireArgumentIndex == 3
kMaxAckByte        == 7
kMaxLateUs         == 10000

FaultKind == {"None", "Ack", "Late", "Id", "Decline"}
Fault == [kind : FaultKind, value : Nat]
NoFault == [kind |-> "None", value |-> 0]

Model == [is_analog : BOOLEAN, is_config : BOOLEAN,
          command : Byte, argument : Byte, has_argument : BOOLEAN,
          payload : Payload, fault : Fault, index : Nat, is_broken : BOOLEAN]

(* At power-on: digital, every button released, every axis centred. *)
PowerOnModel ==
    [is_analog |-> FALSE, is_config |-> FALSE,
     command |-> 0, argument |-> 0, has_argument |-> FALSE,
     payload |-> [i \in 1 .. kMaxPayloadLen |->
                    IF i <= 2 THEN kButtonsReleased ELSE kAxisCentred],
     fault |-> NoFault, index |-> 0, is_broken |-> FALSE]

-----------------------------------------------------------------------------
(* The frame before this one ended with a command whose argument arrived.  *)
apply_command(m) ==
    CASE m.command = kCmdConfig /\ m.argument = kConfigEnter ->
            [m EXCEPT !.is_config = TRUE]
      [] m.command = kCmdConfig /\ m.argument = kConfigLeave ->
            [m EXCEPT !.is_config = FALSE]
      [] m.command = kCmdSetMode /\ m.argument = kModeAnalog
         /\ m.fault.kind # "Decline" ->
            [m EXCEPT !.is_analog = TRUE]
      [] m.command = kCmdSetMode /\ m.argument = kModeDigital ->
            [m EXCEPT !.is_analog = FALSE]
      [] OTHER -> m

(* Wrong: a command is obeyed again at every frame. *)
reset_kept_command(m) ==
    [(IF m.has_argument THEN apply_command(m) ELSE m) EXCEPT
        !.index = 0, !.is_broken = FALSE]

(* ATT fell: a new frame. *)
reset(m) ==
    [(IF m.has_argument THEN apply_command(m) ELSE m) EXCEPT
        !.has_argument = FALSE, !.index = 0, !.is_broken = FALSE]

mode_id(m) == IF m.is_config THEN Config
              ELSE IF m.is_analog THEN Analog ELSE Digital

last_index(m) == frame_len(mode_id(m))

(* What the model shifts out at one wire index. *)
byte_at(m, index) ==
    IF index = kWireIdIndex
    THEN IF m.fault.kind = "Id" THEN m.fault.value ELSE mode_id(m)
    ELSE IF index = kWireReadyIndex THEN kReadyByte
    ELSE IF index \in kWirePayloadStart .. last_index(m)
    THEN IF m.is_config THEN kConfigReplyByte
         ELSE m.payload[index - kWirePayloadStart + 1]
    ELSE kIdleByte

is_command_accepted(m, received) ==
    received \in {kCmdPoll, kCmdConfig} \/ (m.is_config /\ received = kCmdSetMode)

Breaks(m, received) ==
    \/ m.index = 0 /\ received # kFrameStart
    \/ m.index = kWireIdIndex /\ ~is_command_accepted(m, received)

(* Wrong: one that listens again after a wrong byte, and one that obeys a   *)
(* command as soon as it has it.                                            *)
step_model_forgiving(m, received) ==
    LET broken == Breaks(m, received)
    IN  [m EXCEPT !.index = @ + 1, !.is_broken = broken,
            !.command = IF ~broken /\ m.index = kWireIdIndex THEN received ELSE @,
            !.argument =
                IF ~broken /\ m.index = kWireArgumentIndex THEN received ELSE @,
            !.has_argument = @ \/ (~broken /\ m.index = kWireArgumentIndex)]

step_model_eager(m, received) ==
    LET next == step_model_forgiving(m, received)
    IN  IF m.index = kWireArgumentIndex THEN apply_command(next) ELSE next

(* The model after the master's byte at the current index ... *)
step_model(m, received) ==
    LET broken == m.is_broken \/ Breaks(m, received)
    IN  [m EXCEPT
            !.index = @ + 1,
            !.is_broken = broken,
            !.command = IF ~broken /\ m.index = kWireIdIndex THEN received ELSE @,
            !.argument =
                IF ~broken /\ m.index = kWireArgumentIndex THEN received ELSE @,
            !.has_argument = @ \/ (~broken /\ m.index = kWireArgumentIndex)]

(* ... and what it answers: the next byte out, the ACK for this one. *)
step_answer(m, received) ==
    LET after == step_model(m, received)
    IN  [next       |-> IF after.is_broken THEN kIdleByte
                        ELSE byte_at(after, m.index + 1),
         should_ack |-> /\ ~after.is_broken
                        /\ m.index < last_index(m)
                        /\ ~(m.fault.kind = "Ack" /\ m.index = m.fault.value),
         is_late    |-> m.fault.kind = "Late"]

(* One accepted command line; a refused one changes nothing. *)
ModeLine(is_analog)    == [verb |-> "mode", is_analog |-> is_analog]
PayloadLine(payload)   == [verb |-> "payload", payload |-> payload]
FaultLine(kind, value) == [verb |-> "fault",
                           fault |-> [kind |-> kind, value |-> value]]

(* What the parsers let through. *)
IsFault(f) ==
    \/ f = NoFault
    \/ f = [kind |-> "Decline", value |-> 0]
    \/ f \in [kind : {"Ack"}, value : 0 .. kMaxAckByte]
    \/ f \in [kind : {"Late"}, value : 1 .. kMaxLateUs]
    \/ f \in [kind : {"Id"}, value : Byte]

IsLine(line) ==
    \/ line.verb = "mode" /\ line.is_analog \in BOOLEAN
    \/ line.verb = "payload" /\ line.payload \in Payload
    \/ line.verb = "fault" /\ IsFault(line.fault)

apply(m, line) ==
    CASE line.verb = "mode" ->
            [m EXCEPT !.is_analog = line.is_analog, !.is_config = FALSE]
      [] line.verb = "payload" -> [m EXCEPT !.payload = line.payload]
      [] line.verb = "fault"   -> [m EXCEPT !.fault = line.fault]
=============================================================================
