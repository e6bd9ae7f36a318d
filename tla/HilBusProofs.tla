---------------------------- MODULE HilBusProofs ----------------------------
(***************************************************************************)
(* The bench is one more controller of Negotiation: whatever the emulator,  *)
(* its operator and the wires do, the master sees a sequence of bytes no    *)
(* longer than its command, and what is proved of Negotiation holds here.   *)
(***************************************************************************)
EXTENDS HilBus, LogicProofs

Any == INSTANCE NegotiationProofs WITH Answers <- Seq(Byte)

-----------------------------------------------------------------------------
(* What is on the wires are bytes, and a frame under way is shorter than    *)
(* its command.                                                             *)
WireInv ==
    /\ stage \in NegotiationStage
    /\ mpc \in {"idle", "clock", "ack"}
    /\ answer \in Seq(Byte)
    /\ mpc = "idle" => answer = <<>>
    /\ mpc = "clock" => Len(answer) < command_len(stage)
    /\ mpc = "ack" => Len(answer) + 1 < command_len(stage)
    /\ shifted \in Byte

EmuInv ==
    /\ ack \in BOOLEAN
    /\ tx \in Byte \cup {NoWord}
    /\ rx \in Seq(Byte)
    /\ epc \in {"listen", "command", "print", "drain", "serve", "answer", "off"}
    /\ SoundModel(model)
    /\ reply \in [next : Byte, should_ack : BOOLEAN, is_late : BOOLEAN]
    /\ events \in 0 .. MaxEvents

BusInv == WireInv /\ EmuInv

LEMMA InitBus == Init => BusInv
<1> SUFFICES ASSUME Init PROVE BusInv
  OBVIOUS
<1>1. WireInv BY Bytes DEF Init, WireInv, NegotiationStage
<1>2. SoundModel(model) BY PowerOnSound DEF Init
<1>3. NoReply \in [next : Byte, should_ack : BOOLEAN, is_late : BOOLEAN]
  BY Bytes DEF NoReply
<1>4. <<>> \in Seq(Byte) /\ 0 \in 0 .. MaxEvents
  BY MaxEventsAssumption
<1>5. EmuInv BY <1>2, <1>3, <1>4, Bytes DEF Init, EmuInv
<1> QED BY <1>1, <1>5 DEF BusInv

-----------------------------------------------------------------------------
(* Any is this bench's master with another controller: its operators are    *)
(* those of MasterLogic.                                                    *)
LEMMA SameGeometry ==
    /\ Any!ControllerId = ControllerId
    /\ \A id : Any!frame_len(id) = frame_len(id)
    /\ Any!kEnterConfigLen = kEnterConfigLen
    /\ Any!kLongFrameLen = kLongFrameLen
    /\ Any!kLongestPoll = kLongestPoll
    /\ Any!kMaxPayloadLen = kMaxPayloadLen
    /\ \A s : Any!command_len(s) = command_len(s)
BY DEF Any!ControllerId, Any!Digital, Any!Analog, Any!Config,
       Any!frame_len, Any!payload_len, Any!kPrefixLen, Any!kBytesPerNibble,
       Any!kEnterConfigLen, Any!kLongFrameLen, Any!kLongestPoll, Any!kMaxPayloadLen,
       Any!command_len,
       ControllerId, Digital, Analog, Config, frame_len, payload_len, kPrefixLen,
       kBytesPerNibble, kEnterConfigLen, kLongFrameLen, kLongestPoll, kMaxPayloadLen,
       command_len

LEMMA SameDecoding ==
    ASSUME NEW bytes
    PROVE  Any!decode_poll(bytes) = decode_poll(bytes)
<1>1. \A b : Any!AnnouncedPayload(b) = AnnouncedPayload(b)
  BY SameGeometry
     DEF Any!AnnouncedPayload, Any!payload_len, Any!kPrefixLen, Any!kBytesPerNibble,
         AnnouncedPayload, payload_len, kPrefixLen, kBytesPerNibble
<1>2. \A st : Any!Refused(st) = Refused(st) BY DEF Any!Refused, Refused
<1>3. \A id, p : Any!Frame(id, p) = Frame(id, p) BY DEF Any!Frame, Frame
<1>4. \A b : Any!decode(b) = decode(b)
  BY <1>1, <1>2, <1>3, SameGeometry
     DEF Any!decode, Any!kPrefixLen, Any!kReadyByte, decode, kPrefixLen, kReadyByte
<1> QED BY <1>4, SameGeometry DEF Any!decode_poll, decode_poll

LEMMA SameStep ==
    ASSUME NEW l, NEW outcome, NEW us
    PROVE  Any!step(l, outcome, us) = step(l, outcome, us)
<1>1. \A id : Any!state_for(id) = state_for(id)
  BY DEF Any!state_for, Any!Analog, Any!Digital, Any!Config,
         state_for, Analog, Digital, Config
<1>2. \A a, b : Any!add_saturating(a, b) = add_saturating(a, b)
  BY DEF Any!add_saturating, add_saturating
<1>3. \A id : Any!is_stuck(l, id, us) = is_stuck(l, id, us)
  BY <1>1, <1>2 DEF Any!is_stuck, Any!kNegotiationTimeoutUs,
                    is_stuck, kNegotiationTimeoutUs
<1> QED BY <1>1, <1>2, <1>3 DEF Any!step, step

LEMMA SameMaster ==
    ASSUME NEW l, NEW s, NEW a, NEW us
    PROVE  /\ Any!advance_link(l, s, a, us) = advance_link(l, s, a, us)
           /\ Any!advance_stage(l, s, a, us) = advance_stage(l, s, a, us)
<1>1. Any!HasPrefixId(a) = HasPrefixId(a)
  BY SameGeometry
     DEF Any!HasPrefixId, Any!kWirePrefixLen, Any!kPrefixLen, Any!kReadyByte,
         HasPrefixId, kWirePrefixLen, kPrefixLen, kReadyByte
<1>2. Any!IsEnterAccepted(s, a) = IsEnterAccepted(s, a)
  BY <1>1, SameGeometry DEF Any!IsEnterAccepted, IsEnterAccepted
<1>3. Any!IsDeclined(s, a) = IsDeclined(s, a)
  BY <1>1 DEF Any!IsDeclined, Any!expected_id, Any!Analog, Any!Config,
              IsDeclined, expected_id, Analog, Config
<1>4. Any!DeclinedLink = DeclinedLink BY DEF Any!DeclinedLink, DeclinedLink
<1>5. Any!step(l, Any!decode_poll(a), us) = step(l, decode_poll(a), us)
  BY SameDecoding, SameStep
<1>6. Any!advance_link(l, s, a, us) = advance_link(l, s, a, us)
  BY <1>2, <1>3, <1>4, <1>5 DEF Any!advance_link, advance_link
<1>7. Any!next_stage(s) = next_stage(s) BY DEF Any!next_stage, next_stage
<1> QED
  BY <1>2, <1>3, <1>6, <1>7 DEF Any!advance_stage, advance_stage

(* The end of a frame is an Exchange with any controller ... *)
LEMMA FinishExchanges ==
    ASSUME NEW completed \in Seq(Byte), Len(completed) <= command_len(stage),
           FinishFrame(completed)
    PROVE  Any!Next
<1>1. PICK elapsed_us \in Elapseds :
            /\ link' = advance_link(link, stage, completed, elapsed_us)
            /\ stage' = advance_stage(link, stage, completed, elapsed_us)
  BY DEF FinishFrame
<1>2. Any!Exchange(completed, elapsed_us)
  BY <1>1, SameGeometry, SameMaster DEF FinishFrame, Any!Exchange
<1> QED BY <1>2 DEF Any!Next

(* ... and leaves the master between two frames. *)
LEMMA FinishWires ==
    ASSUME WireInv, NEW completed, FinishFrame(completed), shifted' = shifted
    PROVE  WireInv'
BY AdvanceStageType DEF FinishFrame, WireInv

MasterSteps == WireInv' /\ (Any!Next \/ UNCHANGED <<link, stage, exchanged>>)

-----------------------------------------------------------------------------
(* Every step, the master's first. *)
LEMMA ClockByteSteps ==
    ASSUME BusInv, ClockByte
    PROVE  MasterSteps /\ EmuInv'
<1> DEFINE out == command_for(stage)[Len(answer) + 1]
           in  == IF tx = NoWord THEN kIdleByte ELSE tx
<1>1. /\ mpc = "clock" /\ stage \in NegotiationStage /\ answer \in Seq(Byte)
      /\ Len(answer) < command_len(stage)
  BY DEF BusInv, WireInv, ClockByte
<1>2. Len(answer) \in Nat /\ command_len(stage) \in Nat
  BY <1>1, CommandLengths
<1>3. out \in Byte
  BY <1>1, <1>2, CommandBytes
<1>4. in \in Byte
  BY Bytes DEF BusInv, EmuInv
<1>5. EmuInv'
  <2>1. rx' \in Seq(Byte)
    BY <1>3 DEF ClockByte, BusInv, EmuInv
  <2> QED BY <2>1 DEF ClockByte, BusInv, EmuInv, emuVars
<1>6. IF Len(answer) + 1 < command_len(stage)
      THEN /\ mpc' = "ack"
           /\ shifted' = in
           /\ UNCHANGED <<link, stage, exchanged, answer>>
      ELSE /\ FinishFrame(Append(answer, in))
           /\ UNCHANGED shifted
  BY DEF ClockByte
<1> HIDE DEF in
<1>7. CASE Len(answer) + 1 < command_len(stage)
  <2>1. WireInv'
    BY <1>1, <1>4, <1>6, <1>7 DEF WireInv
  <2> QED BY <1>5, <1>6, <1>7, <2>1 DEF MasterSteps
<1>8. CASE ~(Len(answer) + 1 < command_len(stage))
  <2> DEFINE completed == Append(answer, in)
  <2>1. completed \in Seq(Byte) /\ Len(completed) = Len(answer) + 1
    BY <1>1, <1>4
  <2>2. FinishFrame(completed) /\ shifted' = shifted
    BY <1>6, <1>8
  <2> HIDE DEF completed
  <2>3. Len(completed) <= command_len(stage)
    BY <1>1, <1>2, <1>8, <2>1
  <2>4. Any!Next BY <2>1, <2>2, <2>3, FinishExchanges
  <2>5. WireInv' BY <2>2, FinishWires DEF BusInv
  <2> QED BY <1>5, <2>4, <2>5 DEF MasterSteps
<1> QED BY <1>5, <1>7, <1>8

LEMMA StartFrameSteps ==
    ASSUME BusInv, StartFrame
    PROVE  MasterSteps /\ EmuInv'
<1>1. Len(<<>>) = 0 /\ <<>> \in Seq(Byte) OBVIOUS
<1>2. 0 < command_len(stage) BY CommandLengths DEF BusInv, WireInv
<1>3. MasterSteps
  BY <1>1, <1>2 DEF StartFrame, MasterSteps, BusInv, WireInv
<1> QED BY <1>3 DEF StartFrame, BusInv, EmuInv, pioVars, emuVars

LEMMA AckSeenSteps ==
    ASSUME BusInv, AckSeen
    PROVE  MasterSteps /\ EmuInv'
<1>1. answer' \in Seq(Byte) /\ Len(answer') = Len(answer) + 1
  BY DEF AckSeen, BusInv, WireInv
<1>2. MasterSteps
  BY <1>1 DEF AckSeen, MasterSteps, BusInv, WireInv
<1> QED BY <1>2 DEF AckSeen, BusInv, EmuInv, emuVars

LEMMA AckTimeoutSteps ==
    ASSUME BusInv, AckTimeout
    PROVE  MasterSteps /\ EmuInv'
<1>1. answer \in Seq(Byte) /\ Len(answer) + 1 < command_len(stage)
      /\ stage \in NegotiationStage
  BY DEF AckTimeout, BusInv, WireInv
<1>2. Len(answer) <= command_len(stage)
  <2>1. Len(answer) \in Nat /\ command_len(stage) \in Nat
    BY <1>1, CommandLengths
  <2> QED BY <1>1, <2>1
<1>3. MasterSteps
  BY <1>1, <1>2, FinishExchanges, FinishWires DEF AckTimeout, MasterSteps, BusInv
<1> QED BY <1>3 DEF AckTimeout, BusInv, EmuInv, emuVars

(* The emulator and the operator leave the master as it is. *)
LEMMA MasterUnchanged ==
    ASSUME BusInv, UNCHANGED masterVars
    PROVE  MasterSteps
BY DEF masterVars, MasterSteps, BusInv, WireInv

LEMMA EmulatorSteps ==
    ASSUME BusInv, Emulator
    PROVE  UNCHANGED masterVars /\ EmuInv'
<1> USE DEF BusInv
<1>1. CASE Listen
  BY <1>1, ResetSound DEF Listen, EmuInv, pioVars
<1>2. CASE NoCommand
  BY <1>2 DEF NoCommand, EmuInv, pioVars
<1>3. CASE Printed
  BY <1>3 DEF Printed, EmuInv, pioVars
<1>4. CASE Drain
  <2>1. (rx' = <<>> /\ tx' = kIdleByte) \/ (rx' = rx /\ tx' = tx)
    BY <1>4, Zenon DEF Drain, DeviceRestart
  <2>2. <<>> \in Seq(Byte) OBVIOUS
  <2>3. rx' \in Seq(Byte) /\ tx' \in Byte \cup {NoWord}
    BY <2>1, <2>2, Bytes DEF EmuInv
  <2> QED BY <1>4, <2>3 DEF Drain, EmuInv
<1>5. CASE Take
  <2>1. rx \in Seq(Byte) /\ rx # <<>> BY <1>5 DEF Take, EmuInv
  <2>2. Head(rx) \in Byte /\ Tail(rx) \in Seq(Byte) BY <2>1
  <2>3. SoundModel(model') BY <1>5, <2>2, StepModelSound DEF Take, EmuInv
  <2>4. reply' \in [next : Byte, should_ack : BOOLEAN, is_late : BOOLEAN]
    BY <1>5, <2>2, StepAnswerSound DEF Take, EmuInv
  <2> QED BY <1>5, <2>2, <2>3, <2>4 DEF Take, EmuInv
<1>6. NoReply \in [next : Byte, should_ack : BOOLEAN, is_late : BOOLEAN]
  BY Bytes DEF NoReply
<1>7. CASE Answer
  <2>1. reply.next \in Byte BY DEF EmuInv
  <2>2. ack' \in BOOLEAN BY <1>7 DEF Answer
  <2> QED BY <1>6, <1>7, <2>1, <2>2 DEF Answer, EmuInv
<1>8. CASE EndServe
  BY <1>6, <1>8, Bytes DEF EndServe, DeviceRestart, EmuInv
<1> QED
  BY <1>1, <1>2, <1>3, <1>4, <1>5, <1>7, <1>8 DEF Emulator

LEMMA OperatorSteps ==
    ASSUME BusInv, Operator
    PROVE  UNCHANGED masterVars /\ EmuInv'
<1> USE DEF BusInv
<1>1. events < MaxEvents => events + 1 \in 0 .. MaxEvents
  BY MaxEventsAssumption DEF EmuInv
<1>2. CASE TypeLine
  <2>1. PICK line \in Lines : Command(line) BY <1>2 DEF TypeLine
  <2>2. SoundModel(model')
    BY <2>1, LinesAssumption, ApplySound DEF Command, EmuInv
  <2> QED BY <1>1, <2>1, <2>2 DEF Command, EmuInv, pioVars
<1>3. CASE Unplug
  <2>1. NoReply \in [next : Byte, should_ack : BOOLEAN, is_late : BOOLEAN]
    BY Bytes DEF NoReply
  <2>2. SoundModel(model') BY <1>3, PowerOnSound DEF Unplug
  <2>3. <<>> \in Seq(Byte) OBVIOUS
  <2> QED BY <1>1, <1>3, <2>1, <2>2, <2>3 DEF Unplug, EmuInv
<1>4. CASE Plug
  BY <1>4, Bytes DEF Plug, DeviceRestart, EmuInv
<1> QED BY <1>2, <1>3, <1>4 DEF Operator

LEMMA NextBus ==
    ASSUME BusInv, [Next]_vars
    PROVE  MasterSteps /\ EmuInv'
<1>1. CASE Master
  BY <1>1, StartFrameSteps, ClockByteSteps, AckSeenSteps, AckTimeoutSteps DEF Master
<1>2. CASE Emulator BY <1>2, EmulatorSteps, MasterUnchanged
<1>3. CASE Operator BY <1>3, OperatorSteps, MasterUnchanged
<1>4. CASE UNCHANGED vars
  <2>1. UNCHANGED masterVars BY <1>4 DEF vars
  <2>2. EmuInv' BY <1>4 DEF vars, pioVars, emuVars, BusInv, EmuInv
  <2> QED BY <2>1, <2>2, MasterUnchanged
<1> QED BY <1>1, <1>2, <1>3, <1>4 DEF Next

LEMMA BusInvariance == Spec => []BusInv
<1>1. BusInv /\ [Next]_vars => BusInv'
  BY NextBus DEF MasterSteps, BusInv
<1> QED BY <1>1, InitBus, PTL DEF Spec

-----------------------------------------------------------------------------
(* The bench's master, its frames cut short by faults, prints and pulled    *)
(* plugs, is the master of Negotiation with some controller: no             *)
(* interleaving of the two firmwares shows it a frame that Negotiation does *)
(* not allow.                                                               *)
THEOREM BusNegotiates == Spec => Any!Spec
<1>1. Init => Any!Init
  BY DEF Init, Any!Init, FreshLink, Any!FreshLink
<1>2. BusInv /\ [Next]_vars => [Any!Next]_(Any!vars)
  BY NextBus DEF MasterSteps, Any!vars
<1> QED BY <1>1, <1>2, BusInvariance, PTL DEF Spec, Any!Spec

LEMMA AnyAssumptions ==
    /\ Seq(Byte) \subseteq Seq(Any!Byte)
    /\ Elapseds \subseteq 0 .. kMaxUs
    /\ kPollPeriodUs \in Nat \ {0}
    /\ kMaxUs \in Nat /\ kMaxUs > Any!kNegotiationTimeoutUs
<1>1. Any!Byte = Byte BY DEF Any!Byte, Byte
<1>2. Any!kNegotiationTimeoutUs = kNegotiationTimeoutUs
  BY DEF Any!kNegotiationTimeoutUs, kNegotiationTimeoutUs
<1> QED
  BY <1>1, <1>2, ElapsedsAssumption, PollPeriodAssumption, MaxUsAssumption

(* Every state of the bench is well typed. *)
THEOREM TypeCorrect == Spec => []TypeOK
<1>1. Any!Spec => []Any!TypeOK
  BY AnyAssumptions, Any!TypeCorrect
<1>2. BusInv /\ Any!TypeOK => TypeOK
  <2> SUFFICES ASSUME BusInv, Any!TypeOK PROVE TypeOK
    OBVIOUS
  <2>1. link \in Link
    BY DEF Any!TypeOK, Any!Link, Any!LinkState, Any!FaultCause,
           Link, LinkState, FaultCause
  <2>2. exchanged \in [at : NegotiationStage, answer : Seq(Byte)]
    BY DEF Any!TypeOK, Any!NegotiationStage, Any!Byte, NegotiationStage, Byte
  <2>3. Len(answer) <= command_len(stage)
    <3>1. Len(answer) \in Nat /\ Len(<<>>) = 0 BY DEF BusInv, WireInv
    <3>2. command_len(stage) \in Nat BY CommandLengths DEF BusInv, WireInv
    <3> QED BY <3>1, <3>2 DEF BusInv, WireInv
  <2>4. model \in Model BY DEF BusInv, EmuInv, SoundModel
  <2> QED BY <2>1, <2>2, <2>3, <2>4 DEF BusInv, WireInv, EmuInv, TypeOK
<1> QED BY <1>1, <1>2, BusNegotiates, BusInvariance, PTL

(* What was proved of the master alone holds on the bench: the link and the *)
(* stage agree, config mode is over within its limit, and only whole analog *)
(* frames stream.                                                           *)
THEOREM BusKeepsNegotiation ==
    Spec => [](/\ Any!StageMatchesLink
               /\ Any!NegotiatingIsBounded
               /\ Any!StreamsWholeFrames)
<1>1. Any!Spec => []Any!StageMatchesLink
  BY AnyAssumptions, Any!StageMatchesLinkAlways
<1>2. Any!Spec => []Any!NegotiatingIsBounded
  BY AnyAssumptions, Any!NegotiatingBounded
<1>3. Any!Spec => []Any!StreamsWholeFrames
  BY AnyAssumptions, Any!OnlyWholeFramesStream
<1> QED BY <1>1, <1>2, <1>3, BusNegotiates, PTL

(* Two firmwares, a byte-wise bus and an operator later, every frame still  *)
(* either carries the analog-mode sequence one step on or restarts it with  *)
(* a cause (R-PROTO-10).                                                    *)
THEOREM BusKeepsPromise == Spec => Any!KeepsPromise
<1>1. Any!Spec => Any!KeepsPromise
  BY AnyAssumptions, Any!PromiseKept
<1> QED BY <1>1, BusNegotiates

-----------------------------------------------------------------------------
(* The two firmwares at the same byte.  What is in the PIO's hands says     *)
(* where the emulator's loop is when it is not serving: the idle byte and   *)
(* nothing taken in, or one byte of a frame that is lost.                   *)
PioInv ==
    /\ epc \in {"listen", "command"} => tx = kIdleByte /\ rx = <<>>
    /\ epc \in {"print", "drain"} =>
            \/ tx = kIdleByte /\ rx = <<>>
            \/ tx = NoWord /\ rx # <<>>
    /\ epc = "off" => tx = NoWord /\ rx = <<>>
    /\ ack => mpc = "ack" /\ epc = "serve"
    /\ epc \notin {"serve", "answer", "off"} => answer = <<>>

(* What the emulator shifts out as one byte of the frame.                   *)
WireByte(i) == IF i = 0 THEN kIdleByte ELSE byte_at(model, i)

(* The model has seen n bytes of this frame, all as the master sent them.   *)
InStepWith(n) ==
    /\ model.index = n
    /\ ~model.is_broken
    /\ n > kWireIdIndex => model.command = command_for(stage)[kWireIdIndex + 1]
    /\ n > kWireArgumentIndex =>
            /\ model.has_argument
            /\ model.argument = command_for(stage)[kWireArgumentIndex + 1]

(* Between clocking a byte and its ACK: the emulator has yet to take it, or *)
(* to answer it, or has answered, or never saw it.  Only an ACK brings the  *)
(* master on, and only an answer in step is ACKed.                          *)
Waiting(n) ==
    /\ epc = "serve" /\ rx = <<command_for(stage)[n + 1]>> /\ tx = NoWord /\ ~ack
    /\ InStepWith(n) /\ shifted = WireByte(n)

Taken(n) ==
    /\ epc = "answer" /\ rx = <<>> /\ tx = NoWord /\ ~ack
    /\ shifted = WireByte(n)
    /\ reply.should_ack => InStepWith(n + 1) /\ reply.next = WireByte(n + 1)

Answered(n) ==
    /\ epc = "serve" /\ rx = <<>> /\ tx # NoWord
    /\ ack => /\ InStepWith(n + 1) /\ tx = WireByte(n + 1)
              /\ shifted = WireByte(n)

Loaded(n) == epc = "serve" /\ rx = <<>> /\ InStepWith(n) /\ tx = WireByte(n)

ServeInv ==
    epc \in {"serve", "answer"} =>
        /\ mpc = "clock" => Loaded(Len(answer))
        /\ mpc = "ack" => \/ Waiting(Len(answer))
                          \/ Taken(Len(answer))
                          \/ Answered(Len(answer))
        /\ \A i \in 1 .. Len(answer) : answer[i] = WireByte(i - 1)

FrameInv == PioInv /\ ServeInv

LEMMA WireBytes ==
    ASSUME SoundModel(model), NEW n \in Nat
    PROVE  WireByte(n) \in Byte /\ WireByte(n) # NoWord
<1>1. WireByte(n) \in Byte BY Bytes, ByteAtSound DEF WireByte
<1> QED BY <1>1 DEF NoWord, Byte

LEMMA InitFrame == Init => FrameInv
BY DEF Init, FrameInv, PioInv, ServeInv

(* Every step.  A frame starts when the emulator is not serving ...         *)
LEMMA StartFrameKeeps ==
    ASSUME FrameInv, StartFrame
    PROVE  FrameInv'
BY DEF StartFrame, FrameInv, PioInv, ServeInv, pioVars, emuVars

(* ... a byte is clocked into an emulator that serves, or is lost on one    *)
(* that prints or is off ...                                                *)
LEMMA ClockByteKeeps ==
    ASSUME BusInv, FrameInv, ClockByte
    PROVE  FrameInv'
<1>1. PICK n \in Nat : n = Len(answer) BY DEF BusInv, WireInv
<1> DEFINE out == command_for(stage)[n + 1]
           in  == IF tx = NoWord THEN kIdleByte ELSE tx
<1>2. /\ mpc = "clock" /\ epc \in {"serve", "print", "off"} /\ epc' = epc
      /\ rx' = (IF tx = NoWord THEN rx ELSE Append(rx, out))
      /\ tx' = NoWord /\ ack' = FALSE /\ model' = model
      /\ \/ /\ mpc' = "ack" /\ shifted' = in /\ stage' = stage /\ answer' = answer
            /\ n + 1 < command_len(stage)
         \/ mpc' = "idle" /\ answer' = <<>> /\ n + 1 >= command_len(stage)
  <2>1. command_len(stage) \in Nat BY CommandLengths DEF BusInv, WireInv
  <2> QED BY <1>1, <2>1 DEF ClockByte, FinishFrame, emuVars
<1> HIDE DEF out, in
<1>3. CASE epc = "serve"
  <2>1. /\ rx = <<>> /\ InStepWith(n) /\ tx = WireByte(n) /\ tx # NoWord
        /\ \A i \in 1 .. n : answer[i] = WireByte(i - 1)
    BY <1>1, <1>2, <1>3, WireBytes DEF FrameInv, ServeInv, Loaded, BusInv, EmuInv
  <2>2. rx' = <<out>> BY <1>2, <2>1
  <2>3. PioInv' BY <1>2, <1>3 DEF PioInv
  <2>4. CASE mpc' = "ack"
    <3>1. shifted' = tx /\ stage' = stage /\ answer' = answer
      BY <1>2, <2>1, <2>4 DEF in
    <3>2. Waiting(n)'
      BY <1>2, <1>3, <2>1, <2>2, <3>1 DEF Waiting, InStepWith, WireByte, out
    <3>3. \A i \in 1 .. n : answer'[i] = WireByte(i - 1)'
      BY <1>2, <2>1, <3>1 DEF WireByte
    <3> QED BY <1>1, <2>3, <2>4, <3>1, <3>2, <3>3 DEF FrameInv, ServeInv
  <2>5. CASE mpc' = "idle"
    <3>1. answer' = <<>> BY <1>2, <2>5
    <3> QED BY <2>3, <2>5, <3>1 DEF FrameInv, ServeInv
  <2> QED BY <1>2, <2>4, <2>5
<1>4. CASE epc = "print"
  <2>1. answer = <<>> /\ n = 0 BY <1>1, <1>4 DEF FrameInv, PioInv
  <2>2. answer' = <<>> BY <1>2, <2>1
  <2>3. rx' # <<>>
    <3>1. CASE tx = NoWord
      BY <1>2, <1>4, <3>1 DEF FrameInv, PioInv, NoWord, kIdleByte
    <3>2. CASE tx # NoWord
      <4>0. tx = kIdleByte /\ rx = <<>>
        BY <1>4, <3>2 DEF FrameInv, PioInv
      <4>1. rx' = <<out>> BY <1>2, <3>2, <4>0
      <4>2. Len(<<out>>) = 1 /\ Len(<<>>) = 0 OBVIOUS
      <4> QED BY <4>1, <4>2
    <3> QED BY <3>1, <3>2
  <2>4. PioInv' BY <1>2, <1>4, <2>2, <2>3 DEF PioInv
  <2> QED BY <1>2, <1>4, <2>4 DEF FrameInv, ServeInv
<1>5. CASE epc = "off"
  BY <1>2, <1>5 DEF FrameInv, PioInv, ServeInv
<1> QED BY <1>2, <1>3, <1>4, <1>5

(* ... an ACK is for a byte in step, so the next one is in step ...         *)
LEMMA AckSeenKeeps ==
    ASSUME BusInv, FrameInv, AckSeen
    PROVE  FrameInv'
<1>1. PICK n \in Nat : n = Len(answer) BY DEF BusInv, WireInv
<1>2. /\ mpc = "ack" /\ ack /\ ack' = FALSE /\ mpc' = "clock"
      /\ answer' = Append(answer, shifted)
      /\ UNCHANGED <<stage, tx, rx, epc, model>>
      /\ answer \in Seq(Byte) /\ shifted \in Byte
  BY DEF AckSeen, emuVars, BusInv, WireInv
<1>3. /\ epc = "serve" /\ Answered(n)
      /\ \A i \in 1 .. n : answer[i] = WireByte(i - 1)
  BY <1>1, <1>2 DEF FrameInv, PioInv, ServeInv, Waiting, Taken
<1>4. /\ Len(answer') = n + 1
      /\ \A i \in 1 .. n : answer'[i] = answer[i]
      /\ answer'[n + 1] = shifted
  BY <1>1, <1>2
<1>5. Loaded(n + 1)'
  BY <1>2, <1>3 DEF Answered, Loaded, InStepWith, WireByte
<1>6. ASSUME NEW i \in 1 .. n + 1
      PROVE  answer'[i] = WireByte(i - 1)'
  <2>1. WireByte(i - 1)' = WireByte(i - 1) BY <1>2 DEF WireByte
  <2>2. CASE i = n + 1
    <3>1. shifted = WireByte(n) BY <1>2, <1>3 DEF Answered
    <3>2. i - 1 = n BY <2>2
    <3> QED BY <1>4, <2>1, <2>2, <3>1, <3>2
  <2>3. CASE i \in 1 .. n BY <1>3, <1>4, <2>1, <2>3
  <2> QED BY <2>2, <2>3
<1>7. PioInv' BY <1>2, <1>3 DEF PioInv
<1> QED BY <1>2, <1>4, <1>5, <1>6, <1>7 DEF FrameInv, ServeInv

(* ... and without one the frame is over.                                   *)
LEMMA AckTimeoutKeeps ==
    ASSUME FrameInv, AckTimeout
    PROVE  FrameInv'
<1>1. /\ mpc' = "idle" /\ answer' = <<>> /\ ack' = FALSE
      /\ UNCHANGED <<tx, rx, epc, model>>
  BY DEF AckTimeout, FinishFrame, emuVars
<1>2. PioInv' BY <1>1 DEF FrameInv, PioInv
<1>3. ServeInv' BY <1>1 DEF ServeInv
<1> QED BY <1>2, <1>3 DEF FrameInv

(* The emulator's steps.  A model that takes a byte the master sent in step *)
(* stays in step, unless the byte breaks the frame, and then it does not    *)
(* ACK.                                                                     *)
LEMMA StepInStep ==
    ASSUME SoundModel(model), NEW n \in Nat, InStepWith(n),
           command_for(stage)[n + 1] \in Byte, stage' = stage,
           model' = step_model(model, command_for(stage)[n + 1]),
           reply' = step_answer(model, command_for(stage)[n + 1])
    PROVE  /\ reply'.should_ack =>
                InStepWith(n + 1)' /\ reply'.next = WireByte(n + 1)'
           /\ \A i \in Nat : WireByte(i)' = WireByte(i)
<1> DEFINE byte == command_for(stage)[n + 1]
<1>1. /\ model'.index = n + 1
      /\ model'.command = IF ~model'.is_broken /\ n = kWireIdIndex
                          THEN byte ELSE model.command
      /\ model'.argument = IF ~model'.is_broken /\ n = kWireArgumentIndex
                           THEN byte ELSE model.argument
      /\ model'.has_argument <=>
            model.has_argument \/ (~model'.is_broken /\ n = kWireArgumentIndex)
      /\ \A i : byte_at(model', i) = byte_at(model, i)
  <2>1. model.index = n BY DEF InStepWith
  <2> QED BY <2>1, StepModelKeeps
<1>2. \A i \in Nat : WireByte(i)' = WireByte(i)
  BY <1>1 DEF WireByte
<1>3. ASSUME reply'.should_ack
      PROVE  InStepWith(n + 1)' /\ reply'.next = WireByte(n + 1)'
  <2>1. ~model'.is_broken /\ reply'.next = byte_at(model', n + 1)
    BY <1>3, <1>1 DEF step_answer, InStepWith
  <2>2. reply'.next = WireByte(n + 1)'
    BY <2>1 DEF WireByte
  <2>3. /\ n + 1 > kWireIdIndex =>
                model'.command = command_for(stage)[kWireIdIndex + 1]
        /\ n + 1 > kWireArgumentIndex =>
                /\ model'.has_argument
                /\ model'.argument = command_for(stage)[kWireArgumentIndex + 1]
    BY <1>1, <2>1 DEF InStepWith, kWireIdIndex, kWireArgumentIndex
  <2> QED BY <1>1, <2>1, <2>2, <2>3 DEF InStepWith
<1> QED BY <1>2, <1>3

LEMMA TakeKeeps ==
    ASSUME BusInv, FrameInv, Take
    PROVE  FrameInv'
<1>1. PICK n \in Nat : n = Len(answer) BY DEF BusInv, WireInv
<1>2. /\ epc = "serve" /\ rx # <<>> /\ rx' = Tail(rx) /\ epc' = "answer"
      /\ model' = step_model(model, Head(rx)) /\ reply' = step_answer(model, Head(rx))
      /\ UNCHANGED <<stage, mpc, answer, shifted, ack, tx>>
  BY DEF Take, masterVars
<1>3. PioInv'
  <2>1. ~ack BY <1>2 DEF FrameInv, PioInv, ServeInv, Waiting, Taken, Answered
  <2> QED BY <1>2, <2>1 DEF PioInv
<1>4. mpc # "clock" BY <1>2 DEF FrameInv, ServeInv, Loaded
<1>5. CASE mpc = "ack"
  <2>1. /\ Waiting(n)
        /\ \A i \in 1 .. n : answer[i] = WireByte(i - 1)
    BY <1>1, <1>2, <1>5 DEF FrameInv, ServeInv, Taken, Answered
  <2>2. Head(rx) = command_for(stage)[n + 1] /\ rx' = <<>>
    BY <1>2, <2>1 DEF Waiting
  <2>3. command_for(stage)[n + 1] \in Byte
    <3>1. rx \in Seq(Byte) BY DEF BusInv, EmuInv
    <3> QED BY <1>2, <2>2, <3>1
  <2>4. /\ reply'.should_ack =>
             InStepWith(n + 1)' /\ reply'.next = WireByte(n + 1)'
        /\ \A i \in Nat : WireByte(i)' = WireByte(i)
    BY <1>2, <2>1, <2>2, <2>3, StepInStep DEF Waiting, BusInv, EmuInv
  <2>5. Taken(n)'
    BY <1>2, <2>1, <2>2, <2>4 DEF Waiting, Taken
  <2>6. \A i \in 1 .. n : answer'[i] = WireByte(i - 1)'
    <3>1. \A i \in 1 .. n : i - 1 \in Nat OBVIOUS
    <3> QED BY <1>2, <2>1, <2>4, <3>1
  <2> QED BY <1>1, <1>2, <1>3, <1>5, <2>5, <2>6 DEF FrameInv, ServeInv
<1>6. CASE mpc = "idle"
  <2>1. answer' = <<>> BY <1>2, <1>6 DEF BusInv, WireInv
  <2> QED BY <1>2, <1>3, <1>6, <2>1 DEF FrameInv, ServeInv
<1> QED BY <1>4, <1>5, <1>6 DEF BusInv, WireInv

LEMMA AnswerKeeps ==
    ASSUME BusInv, FrameInv, Answer
    PROVE  FrameInv'
<1>1. PICK n \in Nat : n = Len(answer) BY DEF BusInv, WireInv
<1>2. /\ epc = "answer" /\ tx' = reply.next /\ epc' = "serve"
      /\ (ack' <=> reply.should_ack /\ mpc = "ack")
      /\ UNCHANGED <<stage, mpc, answer, shifted, rx, model>>
      /\ reply.next \in Byte
  BY DEF Answer, masterVars, BusInv, EmuInv
<1>3. tx' # NoWord BY <1>2 DEF NoWord, Byte
<1>4. PioInv' BY <1>2 DEF PioInv
<1>5. mpc # "clock" BY <1>2 DEF FrameInv, ServeInv, Loaded
<1>6. CASE mpc = "ack"
  <2>1. /\ Taken(n)
        /\ \A i \in 1 .. n : answer[i] = WireByte(i - 1)
    BY <1>1, <1>2, <1>6 DEF FrameInv, ServeInv, Waiting, Answered
  <2>2. Answered(n)'
    BY <1>2, <1>3, <2>1 DEF Taken, Answered, InStepWith, WireByte
  <2>3. \A i \in 1 .. n : answer'[i] = WireByte(i - 1)'
    BY <1>2, <2>1 DEF WireByte
  <2> QED BY <1>1, <1>2, <1>4, <1>6, <2>2, <2>3 DEF FrameInv, ServeInv
<1>7. CASE mpc = "idle"
  <2>1. answer' = <<>> BY <1>2, <1>7 DEF BusInv, WireInv
  <2> QED BY <1>2, <1>4, <1>7, <2>1 DEF FrameInv, ServeInv
<1> QED BY <1>5, <1>6, <1>7 DEF BusInv, WireInv

(* ATT found low: a frame that has not begun is served from its first byte, *)
(* one that has is lost, and its byte is never ACKed.                       *)
LEMMA ListenKeeps ==
    ASSUME BusInv, FrameInv, Listen
    PROVE  FrameInv'
<1>1. /\ epc = "listen" /\ tx = kIdleByte /\ rx = <<>> /\ answer = <<>> /\ ~ack
      /\ UNCHANGED <<stage, mpc, answer, shifted, ack, tx, rx>>
  BY DEF Listen, FrameInv, PioInv, masterVars, pioVars
<1>2. CASE epc' = "command"
  BY <1>1, <1>2 DEF FrameInv, PioInv, ServeInv
<1>3. CASE epc' = "serve" /\ model' = reset(model)
  <2>1. model'.index = 0 /\ model'.is_broken = FALSE
    BY <1>3, ResetKeeps DEF BusInv, EmuInv
  <2>2. Loaded(0)'
    BY <1>1, <1>3, <2>1
       DEF Loaded, InStepWith, WireByte, kWireIdIndex, kWireArgumentIndex
  <2>3. Answered(0)'
    BY <1>1, <1>3 DEF Answered, NoWord, kIdleByte
  <2>4. Len(answer') = 0 BY <1>1
  <2>5. PioInv' BY <1>1, <1>3 DEF PioInv
  <2> QED BY <1>3, <2>2, <2>3, <2>4, <2>5 DEF FrameInv, ServeInv
<1> QED BY <1>2, <1>3 DEF Listen

(* Every other step of the emulator, and the operator's.                    *)
LEMMA OtherKeeps ==
    ASSUME BusInv, FrameInv,
           NoCommand \/ Printed \/ Drain \/ EndServe \/ Operator
    PROVE  FrameInv'
<1>1. CASE NoCommand
  BY <1>1 DEF NoCommand, FrameInv, PioInv, ServeInv, masterVars, pioVars
<1>2. CASE Printed
  BY <1>2 DEF Printed, FrameInv, PioInv, ServeInv, masterVars, pioVars
<1>3. CASE Drain
  BY <1>3 DEF Drain, DeviceRestart, FrameInv, PioInv, ServeInv, masterVars
<1>4. CASE EndServe
  BY <1>4 DEF EndServe, DeviceRestart, AttIsHigh, FrameInv, PioInv, ServeInv,
              masterVars, BusInv, WireInv
<1>5. CASE TypeLine
  BY <1>5 DEF TypeLine, Command, FrameInv, PioInv, ServeInv, masterVars, pioVars
<1>6. CASE Unplug
  BY <1>6 DEF Unplug, FrameInv, PioInv, ServeInv, masterVars
<1>7. CASE Plug
  BY <1>7 DEF Plug, DeviceRestart, FrameInv, PioInv, ServeInv, masterVars
<1> QED BY <1>1, <1>2, <1>3, <1>4, <1>5, <1>6, <1>7 DEF Operator

LEMMA FrameInvariance == Spec => [](BusInv /\ FrameInv)
<1>1. BusInv /\ FrameInv /\ [Next]_vars => FrameInv'
  <2> SUFFICES ASSUME BusInv, FrameInv, [Next]_vars PROVE FrameInv'
    OBVIOUS
  <2>1. CASE Master
    BY <2>1, StartFrameKeeps, ClockByteKeeps, AckSeenKeeps, AckTimeoutKeeps
       DEF Master
  <2>2. CASE Emulator
    BY <2>2, ListenKeeps, TakeKeeps, AnswerKeeps, OtherKeeps DEF Emulator
  <2>3. CASE Operator BY <2>3, OtherKeeps
  <2>4. CASE UNCHANGED vars
    <3>1. UNCHANGED <<stage, mpc, answer, shifted, ack, tx, rx, epc, model, reply>>
      BY <2>4 DEF vars, masterVars, pioVars, emuVars
    <3>2. PioInv' BY <3>1 DEF FrameInv, PioInv
    <3>3. ServeInv'
      BY <3>1 DEF FrameInv, ServeInv, Waiting, Taken, Answered, Loaded,
                  InStepWith, WireByte
    <3> QED BY <3>2, <3>3 DEF FrameInv
  <2> QED BY <2>1, <2>2, <2>3, <2>4 DEF Next
<1> QED BY <1>1, InitFrame, BusInvariance, PTL DEF Spec

(* No blocked print, pulled plug, late answer or abandoned frame shifts the *)
(* two firmwares against each other: a frame that is served is served byte  *)
(* for byte, for every line, delay and number of them.                      *)
THEOREM StepsTogether == Spec => []InStep
<1>1. BusInv /\ FrameInv => InStep
  <2> SUFFICES ASSUME BusInv, FrameInv, epc = "serve", mpc = "clock"
               PROVE  /\ model.index = Len(answer) /\ tx # NoWord /\ rx = <<>>
                      /\ \A i \in 1 .. Len(answer) :
                            answer[i] = byte_at(model, i - 1)
    BY DEF InStep
  <2>1. /\ Loaded(Len(answer))
        /\ \A i \in 1 .. Len(answer) : answer[i] = WireByte(i - 1)
    BY DEF FrameInv, ServeInv
  <2>2. Len(answer) \in Nat /\ SoundModel(model)
    BY DEF BusInv, WireInv, EmuInv
  <2>3. \A i : WireByte(i) = byte_at(model, i)
    <3>1. byte_at(model, 0) = kIdleByte
      BY DEF byte_at, kWireIdIndex, kWireReadyIndex, kWirePayloadStart
    <3> QED BY <3>1 DEF WireByte
  <2>4. model.index = Len(answer) /\ tx # NoWord /\ rx = <<>>
    BY <2>1, <2>2, WireBytes DEF Loaded, InStepWith
  <2> QED BY <2>1, <2>3, <2>4
<1> QED BY <1>1, FrameInvariance, PTL

-----------------------------------------------------------------------------
(* What a frame brings over: it is judged on no more bytes than its command *)
(* has, and if it came through whole, on the bytes of the model, which has  *)
(* then seen the command.                                                   *)
LEMMA Judged ==
    ASSUME BusInv, FrameInv, [Next]_vars, Finished, epc # "off"
    PROVE  /\ \E us \in 0 .. kMaxUs :
                /\ link' = advance_link(link, stage, exchanged'.answer, us)
                /\ stage' = advance_stage(link, stage, exchanged'.answer, us)
           /\ exchanged'.answer \in Seq(Byte)
           /\ Len(exchanged'.answer) <= command_len(stage)
           /\ Len(exchanged'.answer) >= command_len(stage) =>
                /\ InStepWith(command_len(stage) - 1)
                /\ \A i \in 1 .. command_len(stage) :
                        exchanged'.answer[i] = WireByte(i - 1)
<1>1. PICK n \in Nat : n = Len(answer) BY DEF BusInv, WireInv
<1>2. ClockByte \/ AckTimeout
  BY DEF Finished, Next, Master, Emulator, Operator, StartFrame, AckSeen, Listen,
         NoCommand, Printed, Drain, Take, Answer, EndServe, TypeLine, Command,
         Unplug, Plug, vars, masterVars
<1>3. CASE ClockByte
  <2> DEFINE in == IF tx = NoWord THEN kIdleByte ELSE tx
  <2>1. /\ mpc = "clock" /\ n + 1 >= command_len(stage)
        /\ epc \in {"serve", "print"} /\ FinishFrame(Append(answer, in))
    <3>1. command_len(stage) \in Nat BY CommandLengths DEF BusInv, WireInv
    <3> QED BY <1>1, <1>3, <3>1 DEF ClockByte, Finished
  <2>2. epc = "serve"
    <3>1. epc = "print" => n = 0 BY <1>1 DEF FrameInv, PioInv
    <3>2. command_len(stage) \in {5, 9} BY CommandLengths DEF BusInv, WireInv
    <3> QED BY <2>1, <3>1, <3>2
  <2>3. /\ InStepWith(n) /\ tx = WireByte(n) /\ in = WireByte(n) /\ in \in Byte
        /\ \A i \in 1 .. n : answer[i] = WireByte(i - 1)
    BY <1>1, <2>1, <2>2, WireBytes DEF FrameInv, ServeInv, Loaded, BusInv, EmuInv
  <2>4. /\ answer \in Seq(Byte) /\ n < command_len(stage)
        /\ command_len(stage) \in Nat
    BY <1>1, <2>1, CommandLengths DEF BusInv, WireInv
  <2> HIDE DEF in
  <2>5. /\ Append(answer, in) \in Seq(Byte)
        /\ Len(Append(answer, in)) = n + 1
        /\ \A i \in 1 .. n : Append(answer, in)[i] = answer[i]
        /\ Append(answer, in)[n + 1] = in
    BY <1>1, <2>3, <2>4
  <2>6. n + 1 = command_len(stage) /\ command_len(stage) - 1 = n
    BY <2>1, <2>4
  <2>7. ASSUME NEW i \in 1 .. n + 1
        PROVE  Append(answer, in)[i] = WireByte(i - 1)
    <3>1. CASE i \in 1 .. n BY <2>3, <2>5, <3>1
    <3>2. CASE i = n + 1
      <4>1. i - 1 = n BY <3>2
      <4> QED BY <2>3, <2>5, <3>2, <4>1
    <3>3. i \in 1 .. n \/ i = n + 1 OBVIOUS
    <3> QED BY <3>1, <3>2, <3>3
  <2>8. exchanged'.answer = Append(answer, in) BY <2>1 DEF FinishFrame
  <2>9. \E us \in 0 .. kMaxUs :
            /\ link' = advance_link(link, stage, exchanged'.answer, us)
            /\ stage' = advance_stage(link, stage, exchanged'.answer, us)
    BY <2>1, <2>8, ElapsedsAssumption DEF FinishFrame
  <2>10. Len(exchanged'.answer) <= command_len(stage) BY <2>4, <2>5, <2>6, <2>8
  <2> QED BY <2>3, <2>5, <2>6, <2>7, <2>8, <2>9, <2>10
<1>4. CASE AckTimeout
  <2>1. mpc = "ack" /\ FinishFrame(answer) BY <1>4 DEF AckTimeout
  <2>2. exchanged'.answer = answer BY <2>1 DEF FinishFrame
  <2>3. \E us \in 0 .. kMaxUs :
            /\ link' = advance_link(link, stage, exchanged'.answer, us)
            /\ stage' = advance_stage(link, stage, exchanged'.answer, us)
    BY <2>1, <2>2, ElapsedsAssumption DEF FinishFrame
  <2>4. answer \in Seq(Byte) /\ n + 1 < command_len(stage)
    BY <1>1, <2>1 DEF BusInv, WireInv
  <2>5. command_len(stage) \in Nat BY CommandLengths DEF BusInv, WireInv
  <2>6. Len(exchanged'.answer) = n BY <1>1, <2>2
  <2>7. n <= command_len(stage) /\ ~(n >= command_len(stage))
    BY <2>4, <2>5
  <2> QED BY <2>2, <2>3, <2>4, <2>6, <2>7
<1> QED BY <1>2, <1>3, <1>4

(* What the master takes as done, the emulator holds and will do, for every *)
(* line, every delay and every moment a plug is pulled (R-PROTO-10).        *)
THEOREM AcceptedHeld == Spec => AcceptedIsHeld
<1>1. ASSUME TypeOK, BusInv, FrameInv, [Next]_vars, Finished,
             stage' # "EnterConfig", epc # "off"
      PROVE  /\ model.has_argument
             /\ model.command = command_for(stage)[kWireIdIndex + 1]
             /\ model.argument = command_for(stage)[kWireArgumentIndex + 1]
  <2>1. PICK us \in 0 .. kMaxUs :
            stage' = advance_stage(link, stage, exchanged'.answer, us)
    BY <1>1, Judged
  <2>2. /\ exchanged'.answer \in Seq(Byte)
        /\ link \in Link /\ stage \in NegotiationStage
    BY <1>1, Judged DEF TypeOK
  <2>3. Len(exchanged'.answer) >= command_len(stage)
    BY <1>1, <2>1, <2>2, OnlyWholeAccepted
  <2>4. PICK n \in Nat : n = command_len(stage) - 1 /\ n > 3
    BY <2>2, CommandLengths
  <2>5. InStepWith(n) BY <1>1, <2>3, <2>4, Judged
  <2>6. n > kWireIdIndex /\ n > kWireArgumentIndex
    BY <2>4 DEF kWireIdIndex, kWireArgumentIndex
  <2> QED BY <2>5, <2>6 DEF InStepWith
<1>2. TypeOK /\ BusInv /\ FrameInv /\ [Next]_vars =>
        [Finished /\ stage' # "EnterConfig" /\ epc # "off" =>
            /\ model.has_argument
            /\ model.command = command_for(stage)[kWireIdIndex + 1]
            /\ model.argument = command_for(stage)[kWireArgumentIndex + 1]]_vars
  BY <1>1
<1> QED BY <1>2, TypeCorrect, FrameInvariance, PTL DEF Spec, AcceptedIsHeld

(* Judged, with the plug out: no byte is completed any more but the last of *)
(* the command, which waits for no ACK and finds DATA released.             *)
LEMMA JudgedOff ==
    ASSUME BusInv, FrameInv, [Next]_vars, Finished, epc = "off"
    PROVE  /\ \E us \in 0 .. kMaxUs :
                link' = advance_link(link, stage, exchanged'.answer, us)
           /\ exchanged'.answer \in Seq(Byte)
           /\ Len(exchanged'.answer) <= command_len(stage)
           /\ Len(exchanged'.answer) >= command_len(stage) =>
                exchanged'.answer[command_len(stage)] = kIdleByte
<1>1. PICK n \in Nat : n = Len(answer) BY DEF BusInv, WireInv
<1>2. command_len(stage) \in Nat BY CommandLengths DEF BusInv, WireInv
<1>3. ClockByte \/ AckTimeout
  BY DEF Finished, Next, Master, Emulator, Operator, StartFrame, AckSeen, Listen,
         NoCommand, Printed, Drain, Take, Answer, EndServe, TypeLine, Command,
         Unplug, Plug, vars, masterVars
<1>4. CASE ClockByte
  <2>1. tx = NoWord BY DEF FrameInv, PioInv
  <2>2. /\ mpc = "clock" /\ n + 1 >= command_len(stage)
        /\ FinishFrame(Append(answer, kIdleByte))
    BY <1>1, <1>2, <1>4, <2>1 DEF ClockByte, Finished
  <2>3. answer \in Seq(Byte) /\ n < command_len(stage)
    BY <1>1, <2>2 DEF BusInv, WireInv
  <2>4. /\ Append(answer, kIdleByte) \in Seq(Byte)
        /\ Len(Append(answer, kIdleByte)) = n + 1
        /\ Append(answer, kIdleByte)[n + 1] = kIdleByte
    BY <1>1, <2>3, Bytes
  <2>5. n + 1 = command_len(stage) BY <1>2, <2>2, <2>3
  <2>6. exchanged'.answer = Append(answer, kIdleByte) BY <2>2 DEF FinishFrame
  <2>7. \E us \in 0 .. kMaxUs :
            link' = advance_link(link, stage, exchanged'.answer, us)
    BY <2>2, <2>6, ElapsedsAssumption DEF FinishFrame
  <2> QED BY <1>2, <2>4, <2>5, <2>6, <2>7
<1>5. CASE AckTimeout
  <2>1. mpc = "ack" /\ FinishFrame(answer) BY <1>5 DEF AckTimeout
  <2>2. exchanged'.answer = answer BY <2>1 DEF FinishFrame
  <2>3. \E us \in 0 .. kMaxUs :
            link' = advance_link(link, stage, exchanged'.answer, us)
    BY <2>1, <2>2, ElapsedsAssumption DEF FinishFrame
  <2>4. answer \in Seq(Byte) /\ n + 1 < command_len(stage)
    BY <1>1, <2>1 DEF BusInv, WireInv
  <2>5. n <= command_len(stage) /\ ~(n >= command_len(stage)) BY <1>2, <2>4
  <2> QED BY <1>1, <2>2, <2>3, <2>4, <2>5
<1> QED BY <1>3, <1>4, <1>5

(* What is decoded of a frame that streams is the payload the emulator was  *)
(* set to: byte for byte, from one analog frame of one model (R-PROTO-04).  *)
(* A plug pulled before the last byte costs that byte, which reads as the   *)
(* whammy released.                                                         *)
THEOREM StreamsPayload == Spec => StreamsModelPayload
<1>1. ASSUME TypeOK, BusInv, FrameInv, Any!StageMatchesLink, [Next]_vars, Finished,
             link'.state = "AnalogStreaming", epc # "off",
             model.fault.kind # "Id"
      PROVE  /\ mode_id(model) = Analog
             /\ decode_poll(exchanged'.answer).payload = model.payload
  <2>1. PICK us \in 0 .. kMaxUs :
            link' = advance_link(link, stage, exchanged'.answer, us)
    BY <1>1, Judged
  <2>2. /\ exchanged'.answer \in Seq(Byte)
        /\ Len(exchanged'.answer) <= command_len(stage)
        /\ link \in Link /\ stage \in NegotiationStage
    BY <1>1, Judged DEF TypeOK
  <2>3. stage = "EnterConfig" => link.state # "AnalogStreaming"
    BY <1>1 DEF Any!StageMatchesLink
  <2>4. /\ Len(exchanged'.answer) = kLongFrameLen
        /\ exchanged'.answer[2] = Analog
        /\ decode_poll(exchanged'.answer).payload =
              [i \in 1 .. kMaxPayloadLen |-> exchanged'.answer[i + 3]]
    <3>1. advance_link(link, stage, exchanged'.answer, us).state = "AnalogStreaming"
      BY <1>1, <2>1
    <3> QED BY <2>2, <2>3, <3>1, StreamsItsBytes
  <2>5. command_len(stage) = 9
    <3>1. command_len(stage) \in {5, 9} BY <2>2, CommandLengths
    <3> QED BY <2>2, <2>4, <3>1, FrameLengths
  <2>6. \A i \in 1 .. 9 : exchanged'.answer[i] = WireByte(i - 1)
    BY <1>1, <2>4, <2>5, Judged, FrameLengths
  <2>7. mode_id(model) = Analog
    <3>1. WireByte(1) = mode_id(model)
      BY <1>1 DEF WireByte, byte_at, kWireIdIndex
    <3> QED BY <2>4, <2>6, <3>1
  <2>8. ASSUME NEW i \in 1 .. kMaxPayloadLen
        PROVE  exchanged'.answer[i + 3] = model.payload[i]
    <3>1. i \in 1 .. 6 /\ i + 3 \in 1 .. 9 /\ (i + 3) - 1 = i + 2
      BY FrameLengths
    <3>2. exchanged'.answer[i + 3] = WireByte(i + 2)
      BY <2>6, <3>1
    <3>3. ~model.is_config BY <2>7 DEF mode_id, Analog, Digital, Config
    <3>4. last_index(model) = 8
      BY <2>7, FrameLengths DEF last_index
    <3>5. byte_at(model, i + 2) = model.payload[(i + 2) - kWirePayloadStart + 1]
      BY <3>1, <3>3, <3>4
         DEF byte_at, kWireIdIndex, kWireReadyIndex, kWirePayloadStart
    <3>6. (i + 2) - kWirePayloadStart + 1 = i /\ i + 2 # 0
      BY <3>1 DEF kWirePayloadStart
    <3> QED BY <3>2, <3>5, <3>6 DEF WireByte
  <2>9. model.payload \in [1 .. kMaxPayloadLen -> Byte]
    BY <1>1 DEF TypeOK, Model, Payload
  <2>10. decode_poll(exchanged'.answer).payload = model.payload
    BY <2>4, <2>8, <2>9
  <2> QED BY <2>7, <2>10
<1>2. ASSUME TypeOK, BusInv, FrameInv, Any!StageMatchesLink, [Next]_vars, Finished,
             link'.state = "AnalogStreaming", epc = "off"
      PROVE  decode_poll(exchanged'.answer).payload[kMaxPayloadLen] = kIdleByte
  <2>1. PICK us \in 0 .. kMaxUs :
            link' = advance_link(link, stage, exchanged'.answer, us)
    BY <1>2, JudgedOff
  <2>2. /\ exchanged'.answer \in Seq(Byte)
        /\ Len(exchanged'.answer) <= command_len(stage)
        /\ link \in Link /\ stage \in NegotiationStage
    BY <1>2, JudgedOff DEF TypeOK
  <2>3. stage = "EnterConfig" => link.state # "AnalogStreaming"
    BY <1>2 DEF Any!StageMatchesLink
  <2>4. /\ Len(exchanged'.answer) = kLongFrameLen
        /\ decode_poll(exchanged'.answer).payload =
              [i \in 1 .. kMaxPayloadLen |-> exchanged'.answer[i + 3]]
    <3>1. advance_link(link, stage, exchanged'.answer, us).state = "AnalogStreaming"
      BY <1>2, <2>1
    <3> QED BY <2>2, <2>3, <3>1, StreamsItsBytes
  <2>5. command_len(stage) = 9
    <3>1. command_len(stage) \in {5, 9} BY <2>2, CommandLengths
    <3> QED BY <2>2, <2>4, <3>1, FrameLengths
  <2>6. exchanged'.answer[9] = kIdleByte
    BY <1>2, <2>4, <2>5, JudgedOff, FrameLengths
  <2>7. kMaxPayloadLen \in 1 .. kMaxPayloadLen /\ kMaxPayloadLen + 3 = 9
    BY FrameLengths
  <2> QED BY <2>4, <2>6, <2>7
<1>3. TypeOK /\ BusInv /\ FrameInv /\ Any!StageMatchesLink /\ [Next]_vars =>
        [Finished /\ link'.state = "AnalogStreaming" =>
            LET payload == decode_poll(exchanged'.answer).payload
            IN  IF epc = "off" THEN payload[kMaxPayloadLen] = kIdleByte
                ELSE model.fault.kind # "Id" =>
                        mode_id(model) = Analog /\ payload = model.payload]_vars
  BY <1>1, <1>2
<1> QED
  BY <1>3, TypeCorrect, FrameInvariance, BusKeepsNegotiation, PTL
     DEF Spec, StreamsModelPayload
=============================================================================
