---------------------------- MODULE LogicProofs ----------------------------
(***************************************************************************)
(* Lemmas about the pure parts of the two firmwares: what the operators of *)
(* the master's logic and of the emulator's model return, for every link,  *)
(* stage, answer, model and byte.  The proofs of the modules that are built *)
(* from these parts cite them.                                              *)
(***************************************************************************)
EXTENDS MasterLogic, SgModel, TLAPS

-----------------------------------------------------------------------------
(* The master's side. *)

(* The frame lengths of the three ids: the arithmetic of ps2_protocol.h.   *)
LEMMA FrameLengths ==
    /\ frame_len(Digital) = 4
    /\ frame_len(Analog) = 8
    /\ frame_len(Config) = 8
    /\ kMaxPayloadLen = 6
    /\ kEnterConfigLen = 5
    /\ kLongFrameLen = 9
    /\ kLongestPoll = 9
    /\ kWirePrefixLen = 3
  BY DEF frame_len, payload_len, kPrefixLen, kBytesPerNibble, Digital, Analog,
         Config, kMaxPayloadLen, kEnterConfigLen, kLongFrameLen, kLongestPoll,
         kWirePrefixLen

(* decode refuses, or returns a frame whose announced bytes all arrived:   *)
(* no field is read past the end of the bytes (R-PROTO-02).                *)
LEMMA DecodeSound ==
    ASSUME NEW bytes \in Seq(Byte)
    PROVE  /\ decode(bytes) \in DecodeOutcome
           /\ decode(bytes).ok =>
                /\ bytes[1] \in ControllerId
                /\ Len(bytes) >= frame_len(bytes[1])
                /\ bytes[2] = kReadyByte
                /\ decode(bytes).id = bytes[1]
<1>1. CASE Len(bytes) < kPrefixLen
  BY <1>1 DEF decode, Refused, DecodeOutcome, Refusals, DecodeStatus
<1>2. CASE Len(bytes) >= kPrefixLen /\ bytes[1] \notin ControllerId
  BY <1>2 DEF decode, Refused, DecodeOutcome, Refusals, DecodeStatus, kPrefixLen
<1>3. CASE /\ Len(bytes) >= kPrefixLen /\ bytes[1] \in ControllerId
           /\ Len(bytes) < frame_len(bytes[1])
  BY <1>3 DEF decode, Refused, DecodeOutcome, Refusals, DecodeStatus, kPrefixLen
<1>4. CASE /\ Len(bytes) >= kPrefixLen /\ bytes[1] \in ControllerId
           /\ ~(Len(bytes) < frame_len(bytes[1]))
           /\ bytes[2] # kReadyByte
  BY <1>4 DEF decode, Refused, DecodeOutcome, Refusals, DecodeStatus, kPrefixLen
<1>5. CASE /\ Len(bytes) >= kPrefixLen /\ bytes[1] \in ControllerId
           /\ ~(Len(bytes) < frame_len(bytes[1]))
           /\ bytes[2] = kReadyByte
  <2>1. decode(bytes) = Frame(bytes[1], AnnouncedPayload(bytes))
    BY <1>5 DEF decode, kPrefixLen
  <2>2. frame_len(bytes[1]) \in Nat /\ payload_len(bytes[1]) \in Nat
        /\ frame_len(bytes[1]) = 2 + payload_len(bytes[1])
    BY <1>5 DEF ControllerId, frame_len, payload_len, kPrefixLen, kBytesPerNibble,
                Digital, Analog, Config
  <2>3. AnnouncedPayload(bytes) \in Payload
    <3>1. ASSUME NEW i \in 1 .. kMaxPayloadLen
          PROVE  (IF i <= payload_len(bytes[1]) THEN bytes[kPrefixLen + i] ELSE 0) \in Byte
      <4>1. CASE i <= payload_len(bytes[1])
        <5>1. kPrefixLen + i \in 1 .. Len(bytes)
          BY <1>5, <2>2, <4>1, FrameLengths DEF kPrefixLen
        <5> QED BY <4>1, <5>1
      <4>2. CASE ~(i <= payload_len(bytes[1]))
        BY <4>2 DEF Byte
      <4> QED BY <4>1, <4>2
    <3> QED BY <3>1 DEF AnnouncedPayload, Payload
  <2> QED BY <1>5, <2>1, <2>2, <2>3 DEF Frame, DecodeOutcome, Frames
<1> QED
  <2>1. Len(bytes) \in Nat OBVIOUS
  <2> QED BY <1>1, <1>2, <1>3, <1>4, <1>5, <2>1 DEF kPrefixLen

(* Dropping wire byte 0 moves every byte down by one. *)
LEMMA WithoutFirst ==
    ASSUME NEW answer \in Seq(Byte), NEW n \in Nat, n <= Len(answer)
    PROVE  /\ SubSeq(answer, 2, n) \in Seq(Byte)
           /\ Len(SubSeq(answer, 2, n)) = IF 2 <= n THEN n - 1 ELSE 0
           /\ \A i \in 1 .. Len(SubSeq(answer, 2, n)) :
                    SubSeq(answer, 2, n)[i] = answer[i + 1]
OBVIOUS

(* A poll that decodes answered every byte its id announces, and its wire  *)
(* bytes 1 and 2 are the id and the ready byte.                            *)
LEMMA DecodePollSound ==
    ASSUME NEW answer \in Seq(Byte)
    PROVE  /\ decode_poll(answer) \in DecodeOutcome
           /\ decode_poll(answer).ok =>
                /\ Len(answer) >= kEnterConfigLen
                /\ HasPrefixId(answer)
                /\ decode_poll(answer).id = answer[2]
                /\ answer[2] \in {Analog, Config} => Len(answer) >= kLongFrameLen
<1> DEFINE n == IF Len(answer) < kLongestPoll THEN Len(answer) ELSE kLongestPoll
           bytes == SubSeq(answer, 2, n)
<1>1. /\ Len(answer) \in Nat
      /\ n \in Nat /\ n <= Len(answer)
  BY FrameLengths
<1>2. /\ bytes \in Seq(Byte)
      /\ Len(bytes) = IF 2 <= n THEN n - 1 ELSE 0
      /\ \A i \in 1 .. Len(bytes) : bytes[i] = answer[i + 1]
  BY <1>1, WithoutFirst
<1>3. decode_poll(answer) = decode(bytes)
  BY DEF decode_poll
<1>4. decode_poll(answer) \in DecodeOutcome
  BY <1>2, <1>3, DecodeSound
<1>5. ASSUME decode_poll(answer).ok
      PROVE  /\ Len(answer) >= kEnterConfigLen
             /\ HasPrefixId(answer)
             /\ decode_poll(answer).id = answer[2]
             /\ answer[2] \in {Analog, Config} => Len(answer) >= kLongFrameLen
  <2> HIDE DEF bytes
  <2>1. /\ bytes[1] \in ControllerId
        /\ Len(bytes) >= frame_len(bytes[1])
        /\ bytes[2] = kReadyByte
        /\ decode(bytes).id = bytes[1]
    BY <1>2, <1>3, <1>5, DecodeSound
  <2>2. frame_len(bytes[1]) >= 4 /\ frame_len(bytes[1]) \in Nat
        /\ (bytes[1] \in {Analog, Config} => frame_len(bytes[1]) = 8)
    BY <2>1, FrameLengths DEF ControllerId
  <2>3. Len(bytes) \in Nat /\ Len(bytes) >= 4 /\ Len(bytes) = n - 1
    BY <1>1, <1>2, <2>1, <2>2
  <2>4. bytes[1] = answer[2] /\ bytes[2] = answer[3]
    BY <1>2, <2>3
  <2> QED
    BY <1>1, <1>3, <2>1, <2>2, <2>3, <2>4, FrameLengths DEF HasPrefixId
<1> QED BY <1>4, <1>5

-----------------------------------------------------------------------------
(* add_saturating stays in the counter's range. *)
LEMMA SaturatingType ==
    ASSUME NEW a \in 0 .. kMaxUs, NEW b \in 0 .. kMaxUs
    PROVE  add_saturating(a, b) \in 0 .. kMaxUs
  BY MaxUsAssumption DEF add_saturating

(* step, by cases: a refusal, a good frame, a good frame too many in       *)
(* config mode.                                                            *)
LEMMA StepSound ==
    ASSUME NEW l \in Link, NEW outcome \in DecodeOutcome, NEW us \in 0 .. kMaxUs
    PROVE  /\ step(l, outcome, us) \in Link
           /\ ~outcome.ok => /\ step(l, outcome, us).state = "Absent"
                             /\ step(l, outcome, us).last_fault \in DecodeStatus
           /\ outcome.ok /\ step(l, outcome, us).state # "Absent" =>
                /\ step(l, outcome, us).state = state_for(outcome.id)
                /\ step(l, outcome, us).last_fault = l.last_fault
           /\ outcome.ok /\ step(l, outcome, us).state = "Absent" =>
                /\ state_for(outcome.id) = "Negotiating"
                /\ step(l, outcome, us).last_fault = "Negotiating"
           /\ step(l, outcome, us).state = "Negotiating" =>
                step(l, outcome, us).us_in_state <= kNegotiationTimeoutUs
<1> DEFINE stuck == outcome.ok /\ is_stuck(l, outcome.id, us)
           r     == step(l, outcome, us)
<1>1. kNegotiationTimeoutUs \in Nat /\ kMaxUs \in Nat
  BY PollPeriodAssumption, MaxUsAssumption DEF kNegotiationTimeoutUs
<1>2. /\ l.state \in LinkState /\ l.last_fault \in FaultCause
      /\ l.us_in_state \in 0 .. kMaxUs
      /\ add_saturating(l.us_in_state, us) \in 0 .. kMaxUs
      /\ 0 \in 0 .. kMaxUs
  <2>1. l.state \in LinkState /\ l.last_fault \in FaultCause
        /\ l.us_in_state \in 0 .. kMaxUs
    BY DEF Link
  <2>2. add_saturating(l.us_in_state, us) \in 0 .. kMaxUs
    BY <2>1, SaturatingType
  <2>3. 0 \in 0 .. kMaxUs
    BY <1>1
  <2> QED BY <2>1, <2>2, <2>3
<1>3. CASE ~outcome.ok
  <2>1. outcome.status \in DecodeStatus
    BY <1>3 DEF DecodeOutcome, Frames, Refusals
  <2>2. /\ r.state = "Absent"
        /\ r.last_fault = outcome.status
        /\ r.us_in_state = IF "Absent" = l.state
                           THEN add_saturating(l.us_in_state, us) ELSE 0
        /\ r = [state |-> r.state, last_fault |-> r.last_fault,
                us_in_state |-> r.us_in_state]
    BY <1>3 DEF step
  <2> HIDE DEF r
  <2> QED
    BY <1>2, <1>3, <2>1, <2>2 DEF Link, LinkState, FaultCause, DecodeStatus, r
<1>4. CASE outcome.ok /\ stuck
  <2>1. state_for(outcome.id) = "Negotiating" /\ l.state = "Negotiating"
    BY <1>4 DEF is_stuck
  <2>2. r = [state |-> "Absent", last_fault |-> "Negotiating", us_in_state |-> 0]
    BY <1>4, <2>1 DEF step
  <2> QED
    BY <1>2, <1>4, <2>1, <2>2 DEF Link, LinkState, FaultCause
<1>5. CASE outcome.ok /\ ~stuck
  <2>1. outcome.id \in ControllerId
    BY <1>5 DEF DecodeOutcome, Frames, Refusals
  <2>2. state_for(outcome.id) \in LinkState \ {"Absent"}
    BY <2>1 DEF state_for, ControllerId, LinkState, Analog, Digital, Config
  <2>3. r = [state       |-> state_for(outcome.id),
             last_fault  |-> l.last_fault,
             us_in_state |-> IF state_for(outcome.id) = l.state
                             THEN add_saturating(l.us_in_state, us) ELSE 0]
    BY <1>5 DEF step
  <2>4. r \in Link
    BY <1>2, <2>2, <2>3 DEF Link
  <2>5. r.state = "Negotiating" => r.us_in_state <= kNegotiationTimeoutUs
    BY <1>1, <1>2, <1>5, <2>3 DEF is_stuck
  <2> QED BY <1>5, <2>2, <2>3, <2>4, <2>5
<1> QED BY <1>3, <1>4, <1>5

(* A state that is kept grows no younger: the sum is at least its first    *)
(* addend, also where it saturates.                                        *)
LEMMA StepRunsOn ==
    ASSUME NEW l \in Link, NEW outcome, NEW us \in 0 .. kMaxUs,
           step(l, outcome, us).state = l.state
    PROVE  step(l, outcome, us).us_in_state >= l.us_in_state
<1>1. l.us_in_state \in 0 .. kMaxUs BY DEF Link
<1>2. step(l, outcome, us).us_in_state = add_saturating(l.us_in_state, us)
  BY DEF step
<1> QED BY <1>1, <1>2, MaxUsAssumption DEF add_saturating

-----------------------------------------------------------------------------
(* The commands, and the stage after a frame. *)
LEMMA CommandLengths ==
    ASSUME NEW s \in NegotiationStage
    PROVE  command_len(s) \in {5, 9}
BY DEF command_len, kEnterConfigLen, kLongFrameLen, frame_len, payload_len,
       kPrefixLen, kBytesPerNibble, Digital, Analog

LEMMA PaddedBytes ==
    ASSUME NEW head \in Seq(Byte), NEW i \in 1 .. kLongFrameLen
    PROVE  Padded(head)[i] \in Byte
<1>1. kPadByte \in Byte BY DEF kPadByte, Byte
<1> QED BY <1>1 DEF Padded

LEMMA CommandBytes ==
    ASSUME NEW s \in NegotiationStage, NEW i \in 1 .. command_len(s)
    PROVE  command_for(s)[i] \in Byte
<1> USE DEF kFrameStart, kCmdPoll, kCmdConfig, kCmdSetMode, kPadByte, kConfigEnter,
            kConfigLeave, kModeAnalog, kModeLocked, Byte
<1>1. CASE s = "EnterConfig"
  <2>1. i \in 1 .. 5
    BY <1>1 DEF command_len, kEnterConfigLen, frame_len, payload_len, kPrefixLen,
                kBytesPerNibble, Digital
  <2> QED BY <1>1, <2>1 DEF command_for
<1>2. CASE s # "EnterConfig"
  <2>1. i \in 1 .. kLongFrameLen BY <1>2 DEF command_len
  <2>2. CASE s = "SetAnalog"
    <3>1. <<1, 68, 0, 1, 3>> \in Seq(Byte) OBVIOUS
    <3>2. command_for(s) = Padded(<<1, 68, 0, 1, 3>>) BY <2>2 DEF command_for
    <3> QED BY <2>1, <3>1, <3>2, PaddedBytes
  <2>3. CASE s = "LeaveConfig"
    <3>1. <<1, 67, 0, 0>> \in Seq(Byte) OBVIOUS
    <3>2. command_for(s) = Padded(<<1, 67, 0, 0>>) BY <2>3 DEF command_for
    <3> QED BY <2>1, <3>1, <3>2, PaddedBytes
  <2>4. CASE s = "Polling"
    <3>1. <<1, 66>> \in Seq(Byte) OBVIOUS
    <3>2. command_for(s) = Padded(<<1, 66>>) BY <2>4 DEF command_for
    <3> QED BY <2>1, <3>1, <3>2, PaddedBytes
  <2> QED BY <1>2, <2>2, <2>3, <2>4 DEF NegotiationStage
<1> QED BY <1>1, <1>2

LEMMA CommandSequence ==
    ASSUME NEW s \in NegotiationStage
    PROVE  command_for(s) \in Seq(Byte)
<1> USE DEF kFrameStart, kCmdPoll, kCmdConfig, kCmdSetMode, kPadByte, kConfigEnter,
            kConfigLeave, kModeAnalog, kModeLocked, Byte
<1>1. ASSUME NEW head \in Seq(Byte)
      PROVE  Padded(head) \in Seq(Byte)
  <2>1. kLongFrameLen \in Nat BY FrameLengths
  <2>2. Padded(head) \in [1 .. kLongFrameLen -> Byte]
    <3>1. ASSUME NEW i \in 1 .. kLongFrameLen
          PROVE  (IF i <= Len(head) THEN head[i] ELSE kPadByte) \in Byte
      <4>1. Padded(head)[i] \in Byte BY PaddedBytes
      <4> QED BY <4>1 DEF Padded
    <3> QED BY <3>1 DEF Padded
  <2> HIDE DEF Byte
  <2> QED BY <2>1, <2>2
<1>2. CASE s = "EnterConfig"
  <2>1. command_for(s) = <<1, 67, 0, 1, 0>> BY <1>2 DEF command_for
  <2> QED BY <2>1
<1>3. CASE s = "SetAnalog"
  <2>1. <<1, 68, 0, 1, 3>> \in Seq(Byte) OBVIOUS
  <2>2. command_for(s) = Padded(<<1, 68, 0, 1, 3>>) BY <1>3 DEF command_for
  <2> QED BY <1>1, <2>1, <2>2
<1>4. CASE s = "LeaveConfig"
  <2>1. <<1, 67, 0, 0>> \in Seq(Byte) OBVIOUS
  <2>2. command_for(s) = Padded(<<1, 67, 0, 0>>) BY <1>4 DEF command_for
  <2> QED BY <1>1, <2>1, <2>2
<1>5. CASE s = "Polling"
  <2>1. <<1, 66>> \in Seq(Byte) OBVIOUS
  <2>2. command_for(s) = Padded(<<1, 66>>) BY <1>5 DEF command_for
  <2> QED BY <1>1, <2>1, <2>2
<1> QED BY <1>2, <1>3, <1>4, <1>5 DEF NegotiationStage

LEMMA AdvanceStageType ==
    ASSUME NEW l, NEW s \in NegotiationStage, NEW a, NEW us
    PROVE  advance_stage(l, s, a, us) \in NegotiationStage
BY DEF advance_stage, next_stage, NegotiationStage

(* A stage is left forwards only by a whole frame (R-PROTO-10): an answer   *)
(* cut short, at any byte, restarts the sequence.                           *)
LEMMA OnlyWholeAccepted ==
    ASSUME NEW l \in Link, NEW s \in NegotiationStage, NEW answer \in Seq(Byte),
           NEW us \in 0 .. kMaxUs, advance_stage(l, s, answer, us) # "EnterConfig"
    PROVE  Len(answer) >= command_len(s)
<1> DEFINE outcome == decode_poll(answer)
<1>1. /\ outcome \in DecodeOutcome
      /\ outcome.ok => /\ HasPrefixId(answer)
                       /\ answer[2] \in {Analog, Config} => Len(answer) >= kLongFrameLen
  BY DecodePollSound
<1>2. CASE IsEnterAccepted(s, answer)
  BY <1>2 DEF IsEnterAccepted, command_len
<1>3. CASE ~IsEnterAccepted(s, answer)
  <2>1. /\ s # "EnterConfig" /\ ~IsDeclined(s, answer)
        /\ step(l, outcome, us).state # "Absent"
    BY <1>3 DEF advance_stage, advance_link
  <2>2. outcome.ok BY <1>1, <2>1, StepSound
  <2>3. answer[2] \in {Analog, Config}
    BY <1>1, <2>1, <2>2 DEF IsDeclined, expected_id
  <2> QED BY <1>1, <2>1, <2>2, <2>3 DEF command_len
<1> QED BY <1>2, <1>3

(* A frame that makes the link stream in analog mode is a whole analog one, *)
(* and what is decoded of it is its payload bytes in order (R-PROTO-04).    *)
LEMMA StreamsItsBytes ==
    ASSUME NEW l \in Link, NEW s \in NegotiationStage, NEW answer \in Seq(Byte),
           NEW us \in 0 .. kMaxUs, Len(answer) <= command_len(s),
           s = "EnterConfig" => l.state # "AnalogStreaming",
           advance_link(l, s, answer, us).state = "AnalogStreaming"
    PROVE  /\ Len(answer) = kLongFrameLen /\ answer[2] = Analog
           /\ decode_poll(answer).payload =
                [i \in 1 .. kMaxPayloadLen |-> answer[i + 3]]
<1> DEFINE outcome == decode_poll(answer)
<1>1. /\ outcome \in DecodeOutcome
      /\ outcome.ok => /\ outcome.id = answer[2]
                       /\ answer[2] \in {Analog, Config} => Len(answer) >= kLongFrameLen
  BY DecodePollSound
<1>2. ~IsEnterAccepted(s, answer) /\ ~IsDeclined(s, answer)
  BY DEF advance_link, IsEnterAccepted, IsDeclined, DeclinedLink
<1>3. step(l, outcome, us).state = "AnalogStreaming"
  BY <1>2 DEF advance_link
<1>4. outcome.ok /\ state_for(outcome.id) = "AnalogStreaming"
  BY <1>1, <1>3, StepSound
<1>5. outcome.id \in ControllerId
  BY <1>1, <1>4 DEF DecodeOutcome, Frames, Refusals
<1>6. answer[2] = Analog
  BY <1>1, <1>4, <1>5 DEF state_for, ControllerId, Analog, Digital, Config
<1>7. Len(answer) = 9
  <2>1. Len(answer) \in Nat /\ Len(answer) >= 9
    BY <1>1, <1>4, <1>6, FrameLengths
  <2>2. command_len(s) \in Nat /\ command_len(s) <= 9 BY CommandLengths
  <2>3. \A k, m \in Nat : k >= 9 /\ k <= m /\ m <= 9 => k = 9 OBVIOUS
  <2> QED BY <2>1, <2>2, <2>3
<1>8. outcome.payload = [i \in 1 .. kMaxPayloadLen |-> answer[i + 3]]
  <2> DEFINE bytes == SubSeq(answer, 2, 9)
  <2>1. decode_poll(answer) = decode(bytes)
    <3>1. (IF Len(answer) < kLongestPoll THEN Len(answer) ELSE kLongestPoll) = 9
      BY <1>7, FrameLengths
    <3> QED BY <3>1 DEF decode_poll
  <2>2. /\ bytes \in Seq(Byte) /\ Len(bytes) = 8
        /\ \A i \in 1 .. 8 : bytes[i] = answer[i + 1]
    <3>1. 9 \in Nat /\ 9 <= Len(answer) BY <1>7
    <3>2. /\ bytes \in Seq(Byte)
          /\ Len(bytes) = IF 2 <= 9 THEN 9 - 1 ELSE 0
          /\ \A i \in 1 .. Len(bytes) : bytes[i] = answer[i + 1]
      BY <3>1, WithoutFirst
    <3> HIDE DEF bytes
    <3> QED BY <3>2
  <2> HIDE DEF bytes
  <2>3. decode(bytes) = Frame(bytes[1], AnnouncedPayload(bytes))
    BY <1>4, <2>1 DEF decode, Refused
  <2>4. bytes[1] = Analog BY <1>6, <2>2
  <2>5. payload_len(Analog) = 6 /\ kPrefixLen = 2
    BY DEF payload_len, Analog, kBytesPerNibble, kPrefixLen
  <2>6. AnnouncedPayload(bytes) = [i \in 1 .. kMaxPayloadLen |-> answer[i + 3]]
    <3>1. \A i \in 1 .. kMaxPayloadLen :
            (IF i <= payload_len(bytes[1]) THEN bytes[kPrefixLen + i] ELSE 0)
                = answer[i + 3]
      BY <2>2, <2>4, <2>5, FrameLengths
    <3> QED BY <3>1 DEF AnnouncedPayload
  <2> QED BY <2>1, <2>3, <2>6 DEF Frame
<1> QED BY <1>6, <1>7, <1>8, FrameLengths

-----------------------------------------------------------------------------
(* A frame leaves a link a link; one that leaves it Absent says why, or     *)
(* found it so.                                                             *)
LEMMA StepDrops ==
    ASSUME NEW l \in Link, NEW answer \in Seq(Byte), NEW us \in 0 .. kMaxUs
    PROVE  /\ step(l, decode_poll(answer), us) \in Link
           /\ step(l, decode_poll(answer), us).state = "Absent" =>
                step(l, decode_poll(answer), us).last_fault # "None"
<1>1. PICK outcome \in DecodeOutcome : outcome = decode_poll(answer)
  BY DecodePollSound
<1>2. "None" \notin DecodeStatus BY DEF DecodeStatus
<1>3. CASE outcome.ok BY <1>1, <1>3, StepSound
<1>4. CASE ~outcome.ok BY <1>1, <1>2, <1>4, StepSound
<1> QED BY <1>3, <1>4

LEMMA AdvanceDrops ==
    ASSUME NEW l \in Link, NEW s \in NegotiationStage, NEW answer \in Seq(Byte),
           NEW us \in 0 .. kMaxUs
    PROVE  /\ advance_link(l, s, answer, us) \in Link
           /\ advance_link(l, s, answer, us).state = "Absent" =>
                \/ advance_link(l, s, answer, us).last_fault # "None"
                \/ advance_link(l, s, answer, us) = l
<1>1. CASE IsEnterAccepted(s, answer)
  <2>1. advance_link(l, s, answer, us) = l
    BY <1>1 DEF advance_link, IsEnterAccepted, IsDeclined
  <2> QED BY <2>1
<1>2. CASE ~IsEnterAccepted(s, answer) /\ IsDeclined(s, answer)
  <2>1. advance_link(l, s, answer, us) = DeclinedLink BY <1>2 DEF advance_link
  <2>2. DeclinedLink \in Link /\ DeclinedLink.last_fault = "Declined"
    <3>1. 0 \in 0 .. kMaxUs BY MaxUsAssumption
    <3> QED BY <3>1 DEF DeclinedLink, Link, LinkState, FaultCause
  <2> QED BY <2>1, <2>2
<1>3. CASE ~IsEnterAccepted(s, answer) /\ ~IsDeclined(s, answer)
  <2>1. advance_link(l, s, answer, us) = step(l, decode_poll(answer), us)
    BY <1>3 DEF advance_link
  <2> QED BY <2>1, StepDrops
<1> QED BY <1>1, <1>2, <1>3

-----------------------------------------------------------------------------
(* The emulator's side: the model stays well typed, and answers with bytes. *)

(* A fault line's value is a number; one that stands for an id is a byte.   *)
SoundModel(m) ==
    /\ m \in Model
    /\ m.fault.kind = "Id" => m.fault.value \in Byte

LEMMA Bytes ==
    /\ kIdleByte \in Byte /\ kConfigReplyByte \in Byte /\ kReadyByte \in Byte
    /\ kPadByte \in Byte /\ kButtonsReleased \in Byte /\ kAxisCentred \in Byte
    /\ ControllerId \subseteq Byte
BY DEF kIdleByte, kConfigReplyByte, kReadyByte, kPadByte, kButtonsReleased,
       kAxisCentred, ControllerId, Digital, Analog, Config, Byte

LEMMA MaxPayload == kMaxPayloadLen = 6
BY DEF kMaxPayloadLen, payload_len, Analog, kBytesPerNibble

LEMMA PowerOnSound == SoundModel(PowerOnModel)
<1>1. PowerOnModel.payload \in Payload
  BY DEF PowerOnModel, Payload, kButtonsReleased, kAxisCentred, Byte
<1>2. NoFault \in Fault BY DEF NoFault, Fault, FaultKind
<1>3. 0 \in Byte /\ 0 \in Nat BY DEF Byte
<1>4. PowerOnModel \in Model
  BY <1>1, <1>2, <1>3 DEF PowerOnModel, Model
<1>5. PowerOnModel.fault.kind # "Id" BY DEF PowerOnModel, NoFault
<1> QED BY <1>4, <1>5 DEF SoundModel

LEMMA ResetSound ==
    ASSUME NEW m, SoundModel(m)
    PROVE  SoundModel(reset(m))
<1>1. SoundModel(apply_command(m))
  <2>1. \A b \in BOOLEAN : /\ SoundModel([m EXCEPT !.is_config = b])
                          /\ SoundModel([m EXCEPT !.is_analog = b])
    BY DEF SoundModel, Model
  <2>2. TRUE \in BOOLEAN /\ FALSE \in BOOLEAN OBVIOUS
  <2> QED BY <2>1, <2>2, Zenon DEF apply_command
<1> DEFINE n == IF m.has_argument THEN apply_command(m) ELSE m
<1>2. SoundModel(n) BY <1>1
<1> HIDE DEF n
<1>3. SoundModel([n EXCEPT !.has_argument = FALSE, !.index = 0, !.is_broken = FALSE])
  BY <1>2 DEF SoundModel, Model
<1> QED BY <1>3 DEF reset, n

LEMMA StepModelSound ==
    ASSUME NEW m, SoundModel(m), NEW received \in Byte
    PROVE  SoundModel(step_model(m, received))
<1>1. ASSUME NEW b \in BOOLEAN, NEW h \in BOOLEAN, NEW c \in Byte, NEW a \in Byte
      PROVE  SoundModel([m EXCEPT !.index = @ + 1, !.is_broken = b, !.command = c,
                                  !.argument = a, !.has_argument = h])
  <2> DEFINE n == [m EXCEPT !.index = @ + 1, !.is_broken = b, !.command = c,
                            !.argument = a, !.has_argument = h]
  <2>1. m \in Model /\ m.index + 1 \in Nat BY DEF SoundModel, Model
  <2>2. n \in Model BY <1>1, <2>1 DEF Model
  <2>3. n.fault = m.fault BY <2>1 DEF Model
  <2> QED BY <2>2, <2>3 DEF SoundModel
<1> DEFINE broken == m.is_broken \/ Breaks(m, received)
           given  == m.has_argument \/ (~broken /\ m.index = kWireArgumentIndex)
           cmd == IF ~broken /\ m.index = kWireIdIndex THEN received ELSE m.command
           arg == IF ~broken /\ m.index = kWireArgumentIndex THEN received
                  ELSE m.argument
<1>2. broken \in BOOLEAN /\ given \in BOOLEAN OBVIOUS
<1>3. m.command \in Byte /\ m.argument \in Byte BY DEF SoundModel, Model
<1>4. cmd \in Byte /\ arg \in Byte BY <1>3
<1>5. SoundModel([m EXCEPT !.index = @ + 1, !.is_broken = broken, !.command = cmd,
                           !.argument = arg, !.has_argument = given])
  <2> HIDE DEF broken, given, cmd, arg
  <2> QED BY <1>1, <1>2, <1>4
<1> QED BY <1>5, Zenon DEF step_model

LEMMA FaultSound ==
    ASSUME NEW f, IsFault(f)
    PROVE  f \in Fault /\ (f.kind = "Id" => f.value \in Byte)
<1> USE DEF Fault, FaultKind
<1>1. CASE f = NoFault BY <1>1 DEF NoFault
<1>2. CASE f = [kind |-> "Decline", value |-> 0] BY <1>2
<1>3. CASE f \in [kind : {"Ack"}, value : 0 .. kMaxAckByte]
  BY <1>3 DEF kMaxAckByte
<1>4. CASE f \in [kind : {"Late"}, value : 1 .. kMaxLateUs]
  <2>1. 1 .. kMaxLateUs \subseteq Nat OBVIOUS
  <2>2. f \in [kind : {"Late"}, value : Nat]
    BY <1>4, <2>1
  <2> QED BY <2>2
<1>5. CASE f \in [kind : {"Id"}, value : Byte]
  BY <1>5 DEF Byte
<1> QED BY <1>1, <1>2, <1>3, <1>4, <1>5 DEF IsFault

LEMMA ApplySound ==
    ASSUME NEW m, SoundModel(m), NEW line, IsLine(line)
    PROVE  SoundModel(apply(m, line))
<1>1. CASE line.verb = "mode"
  BY <1>1 DEF SoundModel, Model, IsLine, apply
<1>2. CASE line.verb = "payload"
  BY <1>2 DEF SoundModel, Model, IsLine, apply
<1>3. CASE line.verb = "fault"
  <2>1. line.fault \in Fault /\ (line.fault.kind = "Id" => line.fault.value \in Byte)
    BY <1>3, FaultSound DEF IsLine
  <2> QED BY <1>3, <2>1 DEF SoundModel, Model, apply
<1> QED BY <1>1, <1>2, <1>3 DEF IsLine

LEMMA LastIndex ==
    ASSUME NEW m
    PROVE  last_index(m) \in {4, 8}
BY DEF last_index, mode_id, frame_len, payload_len, kPrefixLen, kBytesPerNibble,
       Digital, Analog, Config

LEMMA ByteAtSound ==
    ASSUME NEW m, SoundModel(m), NEW index \in Nat
    PROVE  byte_at(m, index) \in Byte
<1>1. mode_id(m) \in Byte BY Bytes DEF mode_id, ControllerId
<1>2. ASSUME index \in kWirePayloadStart .. last_index(m)
      PROVE  m.payload[index - kWirePayloadStart + 1] \in Byte
  <2>1. index - kWirePayloadStart + 1 \in 1 .. kMaxPayloadLen
    BY <1>2, LastIndex, MaxPayload DEF kWirePayloadStart
  <2> QED BY <2>1 DEF SoundModel, Model, Payload
<1> QED BY <1>1, <1>2, Bytes DEF byte_at, SoundModel

LEMMA StepAnswerSound ==
    ASSUME NEW m, SoundModel(m), NEW received \in Byte
    PROVE  step_answer(m, received)
                \in [next : Byte, should_ack : BOOLEAN, is_late : BOOLEAN]
<1> DEFINE after == step_model(m, received)
<1>1. SoundModel(after) BY StepModelSound
<1>2. m.index + 1 \in Nat BY DEF SoundModel, Model
<1>3. byte_at(after, m.index + 1) \in Byte BY <1>1, <1>2, ByteAtSound
<1> HIDE DEF after
<1> QED BY <1>3, Bytes DEF step_answer, after
-----------------------------------------------------------------------------
(* What each step of the model changes, and what it leaves alone. *)

(* A byte in moves the index on and may break the frame or be kept as its   *)
(* command or argument; the mode, the payload and the fault stay, so every  *)
(* answer still to come is the one it was.                                  *)
LEMMA StepModelKeeps ==
    ASSUME NEW m, SoundModel(m), NEW received \in Byte
    PROVE  /\ step_model(m, received).index = m.index + 1
           /\ step_model(m, received).is_broken
                <=> m.is_broken \/ Breaks(m, received)
           /\ step_model(m, received).command =
                IF ~step_model(m, received).is_broken /\ m.index = kWireIdIndex
                THEN received ELSE m.command
           /\ step_model(m, received).argument =
                IF ~step_model(m, received).is_broken /\ m.index = kWireArgumentIndex
                THEN received ELSE m.argument
           /\ step_model(m, received).has_argument
                <=> \/ m.has_argument
                    \/ /\ ~step_model(m, received).is_broken
                       /\ m.index = kWireArgumentIndex
           /\ step_model(m, received).is_config = m.is_config
           /\ step_model(m, received).payload = m.payload
           /\ step_model(m, received).fault = m.fault
           /\ mode_id(step_model(m, received)) = mode_id(m)
           /\ last_index(step_model(m, received)) = last_index(m)
           /\ \A i : byte_at(step_model(m, received), i) = byte_at(m, i)
<1> DEFINE next   == step_model(m, received)
           broken == m.is_broken \/ Breaks(m, received)
<1>1. /\ next.index = m.index + 1
      /\ next.is_broken = broken
      /\ next.command = IF ~broken /\ m.index = kWireIdIndex
                        THEN received ELSE m.command
      /\ next.argument = IF ~broken /\ m.index = kWireArgumentIndex
                         THEN received ELSE m.argument
      /\ next.has_argument =
           (m.has_argument \/ (~broken /\ m.index = kWireArgumentIndex))
      /\ next.is_config = m.is_config /\ next.is_analog = m.is_analog
      /\ next.payload = m.payload /\ next.fault = m.fault
  <2> HIDE DEF broken
  <2>1. next = [m EXCEPT
            !.index = @ + 1,
            !.is_broken = broken,
            !.command = IF ~broken /\ m.index = kWireIdIndex THEN received ELSE @,
            !.argument =
                IF ~broken /\ m.index = kWireArgumentIndex THEN received ELSE @,
            !.has_argument = @ \/ (~broken /\ m.index = kWireArgumentIndex)]
    BY DEF step_model, broken
  <2> HIDE DEF next
  <2> QED BY <2>1, Zenon DEF SoundModel, Model
<1> HIDE DEF next
<1>2. mode_id(next) = mode_id(m)
  BY <1>1 DEF mode_id
<1>3. last_index(next) = last_index(m)
  BY <1>2 DEF last_index
<1>4. \A i : byte_at(next, i) = byte_at(m, i)
  BY <1>1, <1>2, <1>3 DEF byte_at
<1>5. /\ next.is_broken <=> m.is_broken \/ Breaks(m, received)
      /\ next.command = IF ~next.is_broken /\ m.index = kWireIdIndex
                        THEN received ELSE m.command
      /\ next.argument = IF ~next.is_broken /\ m.index = kWireArgumentIndex
                         THEN received ELSE m.argument
      /\ next.has_argument
           <=> m.has_argument \/ (~next.is_broken /\ m.index = kWireArgumentIndex)
  BY <1>1, Zenon
<1> QED BY <1>1, <1>2, <1>3, <1>4, <1>5 DEF next

(* What is held is obeyed, unless a decline is in force.                    *)
LEMMA ApplyCommandObeys ==
    ASSUME NEW m, SoundModel(m)
    PROVE  /\ apply_command(m) \in Model
           /\ apply_command(m).is_config =
                IF m.command = kCmdConfig /\ m.argument = kConfigEnter THEN TRUE
                ELSE IF m.command = kCmdConfig /\ m.argument = kConfigLeave THEN FALSE
                ELSE m.is_config
           /\ apply_command(m).is_analog =
                IF /\ m.command = kCmdSetMode /\ m.argument = kModeAnalog
                   /\ m.fault.kind # "Decline" THEN TRUE
                ELSE IF m.command = kCmdSetMode /\ m.argument = kModeDigital THEN FALSE
                ELSE m.is_analog
<1>1. /\ m \in Model
      /\ \A b \in BOOLEAN :
            /\ [m EXCEPT !.is_config = b] \in Model
            /\ [m EXCEPT !.is_config = b].is_config = b
            /\ [m EXCEPT !.is_config = b].is_analog = m.is_analog
            /\ [m EXCEPT !.is_analog = b] \in Model
            /\ [m EXCEPT !.is_analog = b].is_analog = b
            /\ [m EXCEPT !.is_analog = b].is_config = m.is_config
  BY DEF SoundModel, Model
<1>2. kCmdConfig # kCmdSetMode /\ kConfigEnter # kConfigLeave
      /\ kModeAnalog # kModeDigital
  BY DEF kCmdConfig, kCmdSetMode, kConfigEnter, kConfigLeave, kModeAnalog,
         kModeDigital
<1>3. CASE m.command = kCmdConfig /\ m.argument = kConfigEnter
  <2>1. apply_command(m) = [m EXCEPT !.is_config = TRUE]
    BY <1>2, <1>3 DEF apply_command
  <2> QED BY <1>1, <1>2, <1>3, <2>1
<1>4. CASE m.command = kCmdConfig /\ m.argument = kConfigLeave
  <2>1. apply_command(m) = [m EXCEPT !.is_config = FALSE]
    BY <1>2, <1>4 DEF apply_command
  <2> QED BY <1>1, <1>2, <1>4, <2>1
<1>5. CASE /\ m.command = kCmdSetMode /\ m.argument = kModeAnalog
           /\ m.fault.kind # "Decline"
  <2>1. apply_command(m) = [m EXCEPT !.is_analog = TRUE]
    BY <1>2, <1>5 DEF apply_command
  <2> QED BY <1>1, <1>2, <1>5, <2>1
<1>6. CASE m.command = kCmdSetMode /\ m.argument = kModeDigital
  <2>1. apply_command(m) = [m EXCEPT !.is_analog = FALSE]
    BY <1>2, <1>6 DEF apply_command
  <2> QED BY <1>1, <1>2, <1>6, <2>1
<1>7. CASE /\ ~(m.command = kCmdConfig /\ m.argument \in {kConfigEnter, kConfigLeave})
           /\ ~(/\ m.command = kCmdSetMode /\ m.argument = kModeAnalog
                /\ m.fault.kind # "Decline")
           /\ ~(m.command = kCmdSetMode /\ m.argument = kModeDigital)
  <2>1. apply_command(m) = m
    BY <1>7 DEF apply_command
  <2> QED BY <1>1, <1>7, <2>1
<1> QED BY <1>3, <1>4, <1>5, <1>6, <1>7

(* ATT falling starts the frame over; what was held is obeyed first.        *)
LEMMA ResetKeeps ==
    ASSUME NEW m, SoundModel(m)
    PROVE  /\ reset(m).index = 0
           /\ reset(m).is_broken = FALSE /\ reset(m).has_argument = FALSE
           /\ reset(m).is_config =
                (IF m.has_argument THEN apply_command(m) ELSE m).is_config
           /\ reset(m).is_analog =
                (IF m.has_argument THEN apply_command(m) ELSE m).is_analog
<1> DEFINE held == IF m.has_argument THEN apply_command(m) ELSE m
<1>1. held \in Model BY ApplyCommandObeys DEF SoundModel
<1> HIDE DEF held
<1>2. reset(m) = [held EXCEPT !.has_argument = FALSE, !.index = 0, !.is_broken = FALSE]
  BY DEF reset, held
<1>3. /\ reset(m).index = 0
      /\ reset(m).is_broken = FALSE /\ reset(m).has_argument = FALSE
      /\ reset(m).is_config = held.is_config
      /\ reset(m).is_analog = held.is_analog
  BY <1>1, <1>2 DEF Model
<1> QED BY <1>3 DEF held

(* A line changes the mode, the payload or the fault, never what was heard. *)
LEMMA ApplyKeeps ==
    ASSUME NEW m, SoundModel(m), NEW line, IsLine(line)
    PROVE  /\ apply(m, line).index = m.index
           /\ apply(m, line).is_broken = m.is_broken
           /\ apply(m, line).command = m.command
           /\ apply(m, line).argument = m.argument
           /\ apply(m, line).has_argument = m.has_argument
BY DEF SoundModel, Model, IsLine, apply
=============================================================================
