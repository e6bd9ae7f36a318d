------------------------------- MODULE HilBus -------------------------------
(***************************************************************************)
(* The two-Pico bench: the master firmware's frame loop and the emulator   *)
(* firmware on one bus, byte by byte, with the operator typing at the      *)
(* emulator's console and pulling its plug.                                *)
(*                                                                         *)
(* Each firmware is a program with a location (mpc, epc).  The device's    *)
(* PIO program is the word it holds (tx) and the bytes it has shifted in   *)
(* and the CPU has not taken (rx).                                         *)
(*                                                                         *)
(* Time is not counted; what it orders is.  The emulator's loop takes a    *)
(* microsecond or two, so it sees ATT fall within kAttSetupUs, answers     *)
(* within kAckTimeoutUs, and is back listening within a poll period,       *)
(* unless it is blocked printing, is off, or was told to answer late.      *)
(***************************************************************************)
EXTENDS MasterLogic, SgModel

CONSTANTS
    Elapseds,   \* the times that may pass between two frames
    Lines,      \* the command lines the operator may type
    MaxEvents   \* bound: how many lines are typed and plugs pulled in all

ASSUME ElapsedsAssumption == Elapseds \subseteq 0 .. kMaxUs
ASSUME LinesAssumption == \A line \in Lines : IsLine(line)
ASSUME MaxEventsAssumption == MaxEvents \in Nat

VARIABLES
    link, stage,  \* the master's Master
    exchanged,    \* the last frame it judged, as in Negotiation
    mpc,          \* "idle": ATT high; "clock": about to clock a byte; "ack"
    answer,       \* the bytes completed in this frame
    shifted,      \* the byte shifted in, waiting for its ACK
    ack,          \* the device has pulsed ACK for it
    tx,           \* the byte the device's PIO will shift out next, or NoWord
    rx,           \* the device's RX FIFO
    epc,          \* where the emulator's main loop is, or "off"
    model,        \* its SgModel
    reply,        \* the ByteAnswer it is about to give
    events        \* lines typed and plugs pulled so far

masterVars == <<link, stage, exchanged, mpc, answer, shifted>>
pioVars    == <<ack, tx, rx>>
emuVars    == <<epc, model, reply>>
vars == <<masterVars, pioVars, emuVars, events>>

NoWord == 256
NoReply == [next |-> kIdleByte, should_ack |-> FALSE, is_late |-> FALSE]

AttIsHigh == mpc = "idle"

TypeOK ==
    /\ link \in Link
    /\ stage \in NegotiationStage
    /\ exchanged \in [at : NegotiationStage, answer : Seq(Byte)]
    /\ mpc \in {"idle", "clock", "ack"}
    /\ answer \in Seq(Byte) /\ Len(answer) <= command_len(stage)
    /\ shifted \in Byte
    /\ ack \in BOOLEAN
    /\ tx \in Byte \cup {NoWord}
    /\ rx \in Seq(Byte)
    /\ epc \in {"listen", "command", "print", "drain", "serve", "answer", "off"}
    /\ model \in Model
    /\ reply \in [next : Byte, should_ack : BOOLEAN, is_late : BOOLEAN]
    /\ events \in 0 .. MaxEvents

Init ==
    /\ link = FreshLink
    /\ stage = "EnterConfig"
    /\ exchanged = [at |-> "EnterConfig", answer |-> <<>>]
    /\ mpc = "idle"
    /\ answer = <<>>
    /\ shifted = kIdleByte
    /\ ack = FALSE
    /\ tx = kIdleByte
    /\ rx = <<>>
    /\ epc = "listen"
    /\ model = PowerOnModel
    /\ reply = NoReply
    /\ events = 0

-----------------------------------------------------------------------------
(* The master: exchange_frame, exchange_byte and poll_once. *)

(* ATT falls.  The last frame's serving is over by now. *)
StartFrame ==
    /\ mpc = "idle"
    /\ epc \notin {"serve", "answer"}
    /\ mpc' = "clock"
    /\ answer' = <<>>
    /\ UNCHANGED <<link, stage, exchanged, shifted, pioVars, emuVars, events>>

(* ATT rises and the frame is judged, with however many bytes completed. *)
FinishFrame(completed) ==
    /\ mpc' = "idle"
    /\ \E elapsed_us \in Elapseds :
            /\ link' = advance_link(link, stage, completed, elapsed_us)
            /\ stage' = advance_stage(link, stage, completed, elapsed_us)
    /\ exchanged' = [at |-> stage, answer |-> completed]
    /\ answer' = <<>>

(* Eight clocks.  A device with a word shifts it out and the byte in; one   *)
(* without leaves DATA released.  The last byte waits for no ACK.           *)
ClockByte ==
    LET out  == command_for(stage)[Len(answer) + 1]
        in   == IF tx = NoWord THEN kIdleByte ELSE tx
    IN  /\ mpc = "clock"
        /\ epc \in {"serve", "print", "off"}
        /\ rx' = IF tx = NoWord THEN rx ELSE Append(rx, out)
        /\ tx' = NoWord
        /\ ack' = FALSE
        /\ IF Len(answer) + 1 < command_len(stage)
           THEN /\ mpc' = "ack"
                /\ shifted' = in
                /\ UNCHANGED <<link, stage, exchanged, answer>>
           ELSE /\ FinishFrame(Append(answer, in))
                /\ UNCHANGED shifted
        /\ UNCHANGED <<emuVars, events>>

AckSeen ==
    /\ mpc = "ack"
    /\ ack
    /\ ack' = FALSE
    /\ mpc' = "clock"
    /\ answer' = Append(answer, shifted)
    /\ UNCHANGED <<link, stage, exchanged, shifted, tx, rx, emuVars, events>>

(* Whether kAckTimeoutUs can run out on this byte: nobody is serving, the   *)
(* byte was answered without an ACK, or the answer is a late one, which may *)
(* still beat the timeout.                                                  *)
MayTimeOut ==
    \/ epc \in {"print", "off"}
    \/ epc = "serve" /\ rx = <<>> /\ ~ack
    \/ model.fault.kind = "Late"

AckTimeout ==
    /\ mpc = "ack"
    /\ MayTimeOut
    /\ FinishFrame(answer)
    /\ ack' = FALSE
    /\ UNCHANGED <<shifted, tx, rx, emuVars, events>>

-----------------------------------------------------------------------------
(* The emulator: the loop of src/emu/main.cpp. *)

(* device_restart: both FIFOs emptied, the idle byte loaded, no ACK. *)
DeviceRestart ==
    /\ tx' = kIdleByte
    /\ rx' = <<>>

(* The inner loop's condition: ATT low starts serve_frame. *)
Listen ==
    /\ epc = "listen"
    /\ \/ /\ AttIsHigh
          /\ epc' = "command"
          /\ UNCHANGED model
       \/ /\ ~AttIsHigh
          /\ epc' = "serve"
          /\ model' = reset(model)
    /\ UNCHANGED <<masterVars, pioVars, reply, events>>

(* poll_command with no complete line waiting ... *)
NoCommand ==
    /\ epc = "command"
    /\ epc' = "drain"
    /\ UNCHANGED <<masterVars, pioVars, model, reply, events>>

(* Wrong: lines are read while a frame is served, too. *)
Command_midframe(line) ==
    /\ epc \in {"command", "serve"}
    /\ events < MaxEvents
    /\ events' = events + 1
    /\ model' = apply(model, line)
    /\ epc' = IF epc = "serve" THEN "serve" ELSE "print"
    /\ UNCHANGED <<masterVars, pioVars, reply>>

(* ... or with one: it is applied, then answered on the console, and the    *)
(* console can block.                                                       *)
Command(line) ==
    /\ epc = "command"
    /\ events < MaxEvents
    /\ events' = events + 1
    /\ model' = apply(model, line)
    /\ epc' = "print"
    /\ UNCHANGED <<masterVars, pioVars, reply>>

Printed ==
    /\ epc = "print"
    /\ epc' = "drain"
    /\ UNCHANGED <<masterVars, pioVars, model, reply, events>>

(* Wrong: the stale byte is left for the next frame. *)
Drain_kept ==
    /\ epc = "drain"
    /\ epc' = "listen"
    /\ UNCHANGED <<masterVars, pioVars, model, reply, events>>

(* A byte clocked while the loop was not serving is dropped. *)
Drain ==
    /\ epc = "drain"
    /\ epc' = "listen"
    /\ IF rx # <<>> THEN DeviceRestart ELSE UNCHANGED <<tx, rx>>
    /\ UNCHANGED <<masterVars, ack, model, reply, events>>

(* One byte is taken and judged.  ATT is read before the FIFO, so it may    *)
(* have risen in between.                                                   *)
Take ==
    /\ epc = "serve"
    /\ rx # <<>>
    /\ rx' = Tail(rx)
    /\ model' = step_model(model, Head(rx))
    /\ reply' = step_answer(model, Head(rx))
    /\ epc' = "answer"
    /\ UNCHANGED <<masterVars, ack, tx, events>>

(* The answer goes to the PIO, which pulses ACK first when it is asked to:  *)
(* a pulse only a master waiting for it can see.                            *)
Answer ==
    /\ epc = "answer"
    /\ reply.should_ack => ~AttIsHigh
    /\ tx' = reply.next
    /\ ack' = (reply.should_ack /\ mpc = "ack")
    /\ epc' = "serve"
    /\ reply' = NoReply
    /\ UNCHANGED <<masterVars, rx, model, events>>

(* ATT rose: serve_frame returns, from its loop or from the wait before an  *)
(* ACK, and the main loop starts over.                                      *)
EndServe ==
    /\ AttIsHigh
    /\ epc = "serve" \/ (epc = "answer" /\ reply.should_ack)
    /\ epc' = "listen"
    /\ reply' = NoReply
    /\ DeviceRestart
    /\ UNCHANGED <<masterVars, ack, model, events>>

-----------------------------------------------------------------------------
(* The operator. *)
Unplug ==
    /\ epc # "off"
    /\ events < MaxEvents
    /\ events' = events + 1
    /\ epc' = "off"
    /\ model' = PowerOnModel
    /\ reply' = NoReply
    /\ ack' = FALSE
    /\ tx' = NoWord
    /\ rx' = <<>>
    /\ UNCHANGED masterVars

(* Booting takes longer than a frame, and an emulator that is off completes *)
(* no byte: no frame it had begun is still under way.                       *)
Plug ==
    /\ epc = "off"
    /\ answer = <<>>
    /\ epc' = "listen"
    /\ DeviceRestart
    /\ UNCHANGED <<masterVars, ack, model, reply, events>>

TypeLine == \E line \in Lines : Command(line)

-----------------------------------------------------------------------------
Master == StartFrame \/ ClockByte \/ AckSeen \/ AckTimeout

Emulator == \/ Listen \/ NoCommand \/ Printed \/ Drain
            \/ Take \/ Answer \/ EndServe

Operator == TypeLine \/ Unplug \/ Plug

Next == Master \/ Emulator \/ Operator

(* Both firmwares run forever; the operator does as they please. *)
Spec == Init /\ [][Next]_vars /\ WF_vars(Master) /\ WF_vars(Emulator)

-----------------------------------------------------------------------------
(* While a frame is served, the two firmwares are at the same byte of it:   *)
(* when the master is about to clock byte i, the emulator's model is at     *)
(* index i, its answer to it is loaded, nothing stale is in the FIFO, and   *)
(* the bytes the master already has are the model's, each at its index.     *)
(* No blocked print, pulled plug, late answer or abandoned frame shifts one *)
(* against the other.                                                       *)
InStep ==
    epc = "serve" /\ mpc = "clock" =>
        /\ model.index = Len(answer)
        /\ tx # NoWord
        /\ rx = <<>>
        /\ \A i \in 1 .. Len(answer) : answer[i] = byte_at(model, i - 1)

Finished == mpc # "idle" /\ mpc' = "idle"

(* A streaming frame is never torn: what the master decodes from a good     *)
(* poll is the payload the emulator was set to, from one analog frame, and  *)
(* no mix of two lines' payloads or of two frames (R-PROTO-04).  The last   *)
(* byte waits for no ACK, so a plug pulled right before it goes unseen; and *)
(* a frame that still streams then lost nothing but the whammy, released.   *)
StreamsModelPayload ==
    [][Finished /\ link'.state = "AnalogStreaming" =>
        LET payload == decode_poll(exchanged'.answer).payload
        IN  IF epc = "off" THEN payload[kMaxPayloadLen] = kIdleByte
            ELSE model.fault.kind # "Id" =>
                    mode_id(model) = Analog /\ payload = model.payload]_vars

(* What the master takes as done, the emulator will do: a stage is left     *)
(* forwards only when the emulator holds the command and the argument that  *)
(* the stage sent, to be obeyed when ATT falls next (or its plug is out).   *)
AcceptedIsHeld ==
    [][Finished /\ stage' # "EnterConfig" /\ epc # "off" =>
        /\ model.has_argument
        /\ model.command = command_for(stage)[kWireIdIndex + 1]
        /\ model.argument = command_for(stage)[kWireArgumentIndex + 1]]_vars

-----------------------------------------------------------------------------
(* From wherever faults, lines and pulled plugs have left the two of them,  *)
(* an emulator that stays plugged in with no fault set ends up streaming in *)
(* analog mode, whichever mode it was in and whichever stage the master was *)
(* at (R-PROTO-10, R-PROTO-11).                                             *)
Reconverges ==
    <>[](epc # "off" /\ model.fault = NoFault)
        => <>[](link.state = "AnalogStreaming")

(* A controller that has gone is noticed: the link does not stay up on the  *)
(* strength of what was read before (R-PROTO-03).                           *)
UnplugNoticed ==
    epc = "off" ~> (link.state = "Absent" \/ epc # "off")
=============================================================================
