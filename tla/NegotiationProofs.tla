------------------------- MODULE NegotiationProofs -------------------------
(***************************************************************************)
(* Theorems about Negotiation, for every poll period, every counter width  *)
(* above the time limit, every set of answers and every set of delays.     *)
(***************************************************************************)
EXTENDS Negotiation, LogicProofs

-----------------------------------------------------------------------------
(* The inductive invariant.  StageMatchesLink is what makes the accepted   *)
(* enter harmless: it moves the stage without stepping the link, and the   *)
(* link it leaves alone is Absent.  StreamsWholeFrames and                 *)
(* NegotiatingIsBounded ride on it.                                        *)
IndInv ==
    /\ TypeOK
    /\ StageMatchesLink
    /\ NegotiatingIsBounded
    /\ StreamsWholeFrames

(* What one frame does to the link and the stage, by the three ways        *)
(* advance can judge it.                                                   *)
LEMMA AdvanceSound ==
    ASSUME IndInv,
           NEW answer \in Seq(Byte),
           NEW us \in 0 .. kMaxUs, Exchange(answer, us)
    PROVE  \/ /\ stage = "EnterConfig" /\ stage' = "SetAnalog" /\ link' = link
           \/ /\ stage' = "EnterConfig" /\ link' \in Link /\ link'.state = "Absent"
              /\ link'.last_fault # "None"
           \/ /\ stage \in {"SetAnalog", "LeaveConfig"}
              /\ stage' = next_stage(stage) /\ link' \in Link
              /\ link'.state = "Negotiating" /\ link'.last_fault = link.last_fault
              /\ link'.us_in_state <= kNegotiationTimeoutUs
           \/ /\ stage = "Polling" /\ stage' = "Polling" /\ link' \in Link
              /\ link'.state = "AnalogStreaming" /\ link'.last_fault = link.last_fault
              /\ Len(answer) = kLongFrameLen
              /\ answer[2] = Analog /\ answer[3] = kReadyByte
<1> DEFINE outcome == decode_poll(answer)
<1>1. /\ link \in Link /\ stage \in NegotiationStage
      /\ Len(answer) \in Nat
      /\ Len(answer) <= command_len(stage)
      /\ link' = advance_link(link, stage, answer, us)
      /\ stage' = advance_stage(link, stage, answer, us)
  BY DEF IndInv, TypeOK, Exchange
<1>2. /\ outcome \in DecodeOutcome
      /\ outcome.ok => /\ Len(answer) >= kEnterConfigLen
                       /\ HasPrefixId(answer)
                       /\ outcome.id = answer[2]
                       /\ answer[2] \in {Analog, Config} => Len(answer) >= kLongFrameLen
  BY DecodePollSound
<1> HIDE DEF outcome
<1>3. CASE IsEnterAccepted(stage, answer)
  <2>1. link' = link /\ stage' = next_stage(stage) /\ stage = "EnterConfig"
    BY <1>1, <1>3 DEF advance_link, advance_stage, IsEnterAccepted, IsDeclined
  <2> QED BY <2>1 DEF next_stage
<1>4. CASE ~IsEnterAccepted(stage, answer) /\ IsDeclined(stage, answer)
  <2>1. link' = DeclinedLink /\ stage' = "EnterConfig"
    BY <1>1, <1>4 DEF advance_link, advance_stage
  <2>2. DeclinedLink \in Link
    <3>1. 0 \in 0 .. kMaxUs BY MaxUsAssumption
    <3> QED BY <3>1 DEF DeclinedLink, Link, LinkState, FaultCause
  <2> QED BY <2>1, <2>2 DEF DeclinedLink
<1>5. CASE ~IsEnterAccepted(stage, answer) /\ ~IsDeclined(stage, answer)
  <2>1. /\ link' = step(link, outcome, us)
        /\ stage' = IF stage = "EnterConfig" \/ link'.state = "Absent"
               THEN "EnterConfig" ELSE next_stage(stage)
    BY <1>1, <1>5 DEF advance_link, advance_stage, outcome
  <2>2. /\ link' \in Link
        /\ ~outcome.ok => link'.state = "Absent" /\ link'.last_fault \in DecodeStatus
        /\ outcome.ok /\ link'.state # "Absent" =>
              link'.state = state_for(outcome.id) /\ link'.last_fault = link.last_fault
        /\ outcome.ok /\ link'.state = "Absent" => link'.last_fault = "Negotiating"
        /\ link'.state = "Negotiating" => link'.us_in_state <= kNegotiationTimeoutUs
    BY <1>1, <1>2, <2>1, StepSound
  <2>3. CASE stage = "EnterConfig"
    <3>1. ~outcome.ok
      BY <1>2, <1>5, <2>3 DEF IsEnterAccepted
    <3> QED BY <2>1, <2>2, <2>3, <3>1 DEF DecodeStatus
  <2>4. CASE stage # "EnterConfig" /\ ~outcome.ok
    BY <2>1, <2>2, <2>4 DEF DecodeStatus
  <2>5. CASE stage # "EnterConfig" /\ outcome.ok
    <3>1. answer[2] = expected_id(stage) /\ answer[3] = kReadyByte
          /\ outcome.id = expected_id(stage)
      BY <1>2, <1>5, <2>5 DEF IsDeclined, HasPrefixId
    <3>2. CASE link'.state = "Absent"
      BY <2>1, <2>2, <2>5, <3>2
    <3>3. CASE link'.state # "Absent" /\ stage \in {"SetAnalog", "LeaveConfig"}
      <4>1. outcome.id = Config
        BY <3>1, <3>3 DEF expected_id
      <4>2. link'.state = "Negotiating"
        BY <2>2, <2>5, <3>3, <4>1 DEF state_for, Analog, Digital, Config
      <4> QED BY <2>1, <2>2, <2>5, <3>3, <4>2
    <3>4. CASE link'.state # "Absent" /\ stage = "Polling"
      <4>1. outcome.id = Analog /\ answer[2] = Analog
        BY <3>1, <3>4 DEF expected_id
      <4>2. link'.state = "AnalogStreaming"
        BY <2>2, <2>5, <3>4, <4>1 DEF state_for, Analog, Digital, Config
      <4>3. Len(answer) = kLongFrameLen
        <5>1. command_len(stage) = kLongFrameLen
          BY <3>4 DEF command_len
        <5>2. Len(answer) >= kLongFrameLen
          BY <1>2, <2>5, <4>1
        <5>3. Len(answer) >= 9 /\ Len(answer) <= 9
          BY <1>1, <5>1, <5>2, FrameLengths
        <5>4. Len(answer) = 9
          <6>1. Len(answer) \in Nat
            OBVIOUS
          <6>2. \A k \in Nat : k >= 9 /\ k <= 9 => k = 9
            OBVIOUS
          <6> QED BY <5>3, <6>1, <6>2, Zenon
        <5> QED BY <5>4, FrameLengths
      <4> QED BY <2>1, <2>2, <2>5, <3>1, <3>4, <4>1, <4>2, <4>3 DEF next_stage
    <3> QED BY <1>1, <2>5, <3>2, <3>3, <3>4 DEF NegotiationStage
  <2> QED BY <2>3, <2>4, <2>5
<1> QED BY <1>3, <1>4, <1>5

-----------------------------------------------------------------------------
LEMMA InitInv == Init => IndInv
<1>1. 0 \in 0 .. kMaxUs BY MaxUsAssumption
<1>2. <<>> \in Seq(Byte) OBVIOUS
<1> QED
  BY <1>1, <1>2
  DEF Init, IndInv, TypeOK, StageMatchesLink, NegotiatingIsBounded,
      StreamsWholeFrames, FreshLink, Link, LinkState, FaultCause, NegotiationStage

(* What a frame leaves in `exchanged`, and the types of its answer and     *)
(* delay.                                                                  *)
LEMMA NextExchanges ==
    ASSUME Next
    PROVE  \E answer \in Seq(Byte), us \in 0 .. kMaxUs : Exchange(answer, us)
  BY AnswersAssumption, ElapsedsAssumption DEF Next

LEMMA NextInv == IndInv /\ [Next]_vars => IndInv'
<1> SUFFICES ASSUME IndInv, [Next]_vars PROVE IndInv'
  OBVIOUS
<1>1. CASE Next
  <2>1. PICK answer \in Seq(Byte), us \in 0 .. kMaxUs : Exchange(answer, us)
    BY <1>1, NextExchanges
  <2>2. /\ link \in Link /\ stage \in NegotiationStage /\ StageMatchesLink
        /\ NegotiatingIsBounded
    BY DEF IndInv, TypeOK
  <2>3. exchanged' = [at |-> stage, answer |-> answer]
    BY <2>1 DEF Exchange
  <2>4. \/ /\ stage = "EnterConfig" /\ stage' = "SetAnalog" /\ link' = link
        \/ /\ stage' = "EnterConfig" /\ link' \in Link /\ link'.state = "Absent"
        \/ /\ stage \in {"SetAnalog", "LeaveConfig"}
           /\ stage' = next_stage(stage) /\ link' \in Link
           /\ link'.state = "Negotiating"
           /\ link'.us_in_state <= kNegotiationTimeoutUs
        \/ /\ stage = "Polling" /\ stage' = "Polling" /\ link' \in Link
           /\ link'.state = "AnalogStreaming"
           /\ Len(answer) = kLongFrameLen
           /\ answer[2] = Analog /\ answer[3] = kReadyByte
    BY <2>1, AdvanceSound
  <2>5. TypeOK'
    BY <2>2, <2>3, <2>4 DEF TypeOK, NegotiationStage, next_stage
  <2>6. StageMatchesLink'
    BY <2>2, <2>4 DEF StageMatchesLink, next_stage
  <2>7. NegotiatingIsBounded'
    BY <2>2, <2>4 DEF StageMatchesLink, NegotiatingIsBounded
  <2>8. StreamsWholeFrames'
    BY <2>2, <2>3, <2>4 DEF StageMatchesLink, StreamsWholeFrames
  <2> QED BY <2>5, <2>6, <2>7, <2>8 DEF IndInv
<1>2. CASE UNCHANGED vars
  BY <1>2 DEF vars, IndInv, TypeOK, StageMatchesLink, NegotiatingIsBounded,
              StreamsWholeFrames
<1> QED BY <1>1, <1>2

LEMMA Invariance == Spec => []IndInv
  BY InitInv, NextInv, PTL DEF Spec

(* Every reachable link, stage and record of the last frame has its type. *)
THEOREM TypeCorrect == Spec => []TypeOK
<1>1. IndInv => TypeOK BY DEF IndInv
<1> QED BY <1>1, Invariance, PTL

(* The link and the stage agree after every frame, whatever was answered   *)
(* and however long it took; the master never streams digital.             *)
THEOREM StageMatchesLinkAlways == Spec => []StageMatchesLink
<1>1. IndInv => StageMatchesLink BY DEF IndInv
<1> QED BY <1>1, Invariance, PTL

(* Config mode never outlasts its limit: the clock of a link that is still *)
(* Negotiating is at most kNegotiationTimeoutUs.                           *)
THEOREM NegotiatingBounded == Spec => []NegotiatingIsBounded
<1>1. IndInv => NegotiatingIsBounded BY DEF IndInv
<1> QED BY <1>1, Invariance, PTL

(* Only a whole analog frame, asked for by an analog poll, makes the link  *)
(* AnalogStreaming.                                                        *)
THEOREM OnlyWholeFramesStream == Spec => []StreamsWholeFrames
<1>1. IndInv => StreamsWholeFrames BY DEF IndInv
<1> QED BY <1>1, Invariance, PTL

-----------------------------------------------------------------------------
(* The first poll answered in config mode drops the link; config mode is   *)
(* never a place the link can stay.                                        *)
THEOREM ConfigModeBrief == Spec => ConfigModeIsBrief
<1>1. IndInv /\ [Next]_vars => [stage = "Polling" => link'.state # "Negotiating"]_vars
  <2> SUFFICES ASSUME IndInv, Next, stage = "Polling"
               PROVE  link'.state # "Negotiating"
    OBVIOUS
  <2>1. PICK answer \in Seq(Byte), us \in 0 .. kMaxUs : Exchange(answer, us)
    BY NextExchanges
  <2> QED BY <2>1, AdvanceSound
<1> QED BY <1>1, Invariance, PTL DEF Spec, ConfigModeIsBrief

(* The clock of a state other than Absent that one frame keeps does not run *)
(* back: the counter saturates, and is reset only when the state is left.   *)
LEMMA ClockRunsOn ==
    ASSUME NEW l \in Link, NEW s, NEW answer, NEW us \in 0 .. kMaxUs,
           l.state # "Absent", advance_link(l, s, answer, us).state = l.state
    PROVE  advance_link(l, s, answer, us).us_in_state >= l.us_in_state
<1>1. l.us_in_state \in 0 .. kMaxUs BY DEF Link
<1>2. CASE IsEnterAccepted(s, answer)
  <2>1. advance_link(l, s, answer, us) = l
    BY <1>2 DEF advance_link, IsEnterAccepted, IsDeclined
  <2> QED BY <1>1, <2>1, MaxUsAssumption
<1>3. CASE ~IsEnterAccepted(s, answer) /\ IsDeclined(s, answer)
  BY <1>3 DEF advance_link, DeclinedLink
<1>4. CASE ~IsEnterAccepted(s, answer) /\ ~IsDeclined(s, answer)
  BY <1>4, StepRunsOn DEF advance_link
<1> QED BY <1>2, <1>3, <1>4

(* last_fault changes only on a frame that drops the link, every drop names *)
(* its cause, and the time in a state that is kept never runs back.         *)
THEOREM LinkAlwaysRemembers == Spec => LinkRemembers
<1> DEFINE Kept ==
        /\ link'.last_fault # link.last_fault => link'.state = "Absent"
        /\ link.state # "Absent" /\ link'.state = "Absent"
             => link'.last_fault # "None"
        /\ link.state # "Absent" /\ link'.state = link.state
             => link'.us_in_state >= link.us_in_state
<1>1. IndInv /\ [Next]_vars => [Kept]_vars
  <2> SUFFICES ASSUME IndInv, Next PROVE Kept
    OBVIOUS
  <2>1. PICK answer \in Seq(Byte), us \in 0 .. kMaxUs : Exchange(answer, us)
    BY NextExchanges
  <2>2. StageMatchesLink /\ link \in Link
    BY DEF IndInv, TypeOK
  <2>3. /\ link'.last_fault # link.last_fault => link'.state = "Absent"
        /\ link.state # "Absent" /\ link'.state = "Absent"
             => link'.last_fault # "None"
    BY <2>1, <2>2, AdvanceSound DEF StageMatchesLink
  <2>4. link.state # "Absent" /\ link'.state = link.state
             => link'.us_in_state >= link.us_in_state
    <3>1. link' = advance_link(link, stage, answer, us) BY <2>1 DEF Exchange
    <3> QED BY <2>2, <3>1, ClockRunsOn
  <2> QED BY <2>3, <2>4
<1> QED BY <1>1, Invariance, PTL DEF Spec, LinkRemembers

-----------------------------------------------------------------------------
(* Negotiation implements AnalogSequence: the initial states map to its    *)
(* initial state, and every frame is an Accept or a Restart.               *)
LEMMA InitPromise == Init => Promise!Init
  BY DEF Init, FreshLink, Promise!Init

LEMMA NextPromise == IndInv /\ [Next]_vars => [Promise!Next]_(Promise!vars)
<1> SUFFICES ASSUME IndInv, [Next]_vars PROVE [Promise!Next]_(Promise!vars)
  OBVIOUS
<1>1. CASE Next
  <2>1. PICK answer \in Seq(Byte), us \in 0 .. kMaxUs : Exchange(answer, us)
    BY <1>1, NextExchanges
  <2>2. StageMatchesLink /\ stage \in NegotiationStage
    BY DEF IndInv, TypeOK
  <2>3. CASE stage = "EnterConfig" /\ stage' = "SetAnalog" /\ link' = link
    <3>1. Promise!Accept
      BY <2>2, <2>3 DEF Promise!Accept, Promise!After, StageMatchesLink
    <3> QED BY <3>1 DEF Promise!Next
  <2>4. CASE /\ stage' = "EnterConfig" /\ link' \in Link /\ link'.state = "Absent"
             /\ link'.last_fault # "None"
    <3>1. Promise!Restart
      BY <2>4 DEF Promise!Restart, Link
    <3> QED BY <3>1 DEF Promise!Next
  <2>5. CASE /\ stage \in {"SetAnalog", "LeaveConfig"}
             /\ stage' = next_stage(stage)
             /\ link'.state = "Negotiating" /\ link'.last_fault = link.last_fault
    <3>1. stage' = Promise!After[stage]
      BY <2>5 DEF next_stage, Promise!After
    <3>2. Promise!Accept
      BY <2>5, <3>1 DEF Promise!Accept
    <3> QED BY <3>2 DEF Promise!Next
  <2>6. CASE /\ stage = "Polling" /\ stage' = "Polling"
             /\ link'.state = "AnalogStreaming" /\ link'.last_fault = link.last_fault
    <3>1. Promise!Accept
      BY <2>6 DEF Promise!Accept, Promise!After
    <3> QED BY <3>1 DEF Promise!Next
  <2> QED BY <2>1, <2>3, <2>4, <2>5, <2>6, AdvanceSound
<1>2. CASE UNCHANGED vars
  BY <1>2 DEF vars, Promise!vars
<1> QED BY <1>1, <1>2

(* R-PROTO-10 for every controller and every delay. *)
THEOREM PromiseKept == Spec => KeepsPromise
  BY InitPromise, NextPromise, Invariance, PTL
  DEF Spec, KeepsPromise, Promise!Spec
=============================================================================
