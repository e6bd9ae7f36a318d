---------------------------- MODULE MasterLogic ----------------------------
(***************************************************************************)
(* What the master decides from one exchanged frame: the link's next state *)
(* and the next stage of the analog-mode sequence.  Pure, like the code:   *)
(* the bytes and the elapsed time are arguments.                           *)
(***************************************************************************)
EXTENDS Ps2Protocol

CONSTANTS
    kPollPeriodUs,  \* microseconds from one frame's start to the next
    kMaxUs          \* the largest value of the 32-bit microsecond counters

(* Six polls: how long the link may stay in config mode. *)
kNegotiationTimeoutUs == 6 * kPollPeriodUs

ASSUME PollPeriodAssumption == kPollPeriodUs \in Nat \ {0}
ASSUME MaxUsAssumption == kMaxUs \in Nat /\ kMaxUs > kNegotiationTimeoutUs

-----------------------------------------------------------------------------
(* The link. *)
LinkState  == {"Absent", "Negotiating", "DigitalStreaming", "AnalogStreaming"}
FaultCause == {"None", "AckTimeout", "UnknownId", "NotReady", "Negotiating",
               "Declined"}

Link == [state : LinkState, last_fault : FaultCause, us_in_state : 0 .. kMaxUs]

FreshLink == [state |-> "Absent", last_fault |-> "None", us_in_state |-> 0]

(* Wrong variants that the properties must catch are named after what they  *)
(* get wrong; nothing else uses them.  Here: a counter without a bound, and *)
(* one that wraps.                                                          *)
add_unbounded(base, addend) == base + addend
add_wrapping(base, addend)  == (base + addend) % (kMaxUs + 1)

add_saturating(base, addend) ==
    IF base > kMaxUs - addend THEN kMaxUs ELSE base + addend

(* What one good frame implies, whatever came before it. *)
state_for(id) ==
    CASE id = Analog  -> "AnalogStreaming"
      [] id = Digital -> "DigitalStreaming"
      [] id = Config  -> "Negotiating"

(* Wrong: leaves out the time since the last poll. *)
is_stuck_late(l, id, elapsed_us) ==
    /\ l.state = "Negotiating"
    /\ state_for(id) = "Negotiating"
    /\ l.us_in_state > kNegotiationTimeoutUs

(* One good frame too many in config mode. *)
is_stuck(l, id, elapsed_us) ==
    /\ l.state = "Negotiating"
    /\ state_for(id) = "Negotiating"
    /\ add_saturating(l.us_in_state, elapsed_us) > kNegotiationTimeoutUs

(* Wrong: one that puts up with a frame cut short, and one that takes a     *)
(* good frame for the end of the fault.                                     *)
step_tolerant(l, outcome, elapsed_us) ==
    IF ~outcome.ok /\ outcome.status = "AckTimeout" THEN l
    ELSE [state       |-> IF outcome.ok THEN state_for(outcome.id) ELSE "Absent",
          last_fault  |-> IF outcome.ok THEN l.last_fault ELSE outcome.status,
          us_in_state |-> 0]

step_forgetful(l, outcome, elapsed_us) ==
    [state       |-> IF outcome.ok THEN state_for(outcome.id) ELSE "Absent",
     last_fault  |-> IF outcome.ok THEN "None" ELSE outcome.status,
     us_in_state |-> 0]

(* One poll's effect: its outcome decides the state, a refusal names the   *)
(* fault, and the time in a state accumulates until the state is left.     *)
step(l, outcome, elapsed_us) ==
    LET stuck == outcome.ok /\ is_stuck(l, outcome.id, elapsed_us)
        next  == IF outcome.ok /\ ~stuck THEN state_for(outcome.id) ELSE "Absent"
        fault == CASE ~outcome.ok -> outcome.status
                   [] stuck       -> "Negotiating"
                   [] OTHER       -> l.last_fault
    IN  [state       |-> next,
         last_fault  |-> fault,
         us_in_state |-> IF next = l.state
                         THEN add_saturating(l.us_in_state, elapsed_us) ELSE 0]

-----------------------------------------------------------------------------
(* The sequence. *)
NegotiationStage == {"EnterConfig", "SetAnalog", "LeaveConfig", "Polling"}

kEnterConfigLen == frame_len(Digital) + 1
kLongFrameLen   == frame_len(Analog) + 1
kWirePrefixLen  == kPrefixLen + 1

(* The bytes sent at a stage, the pad bytes that fill a long frame last. *)
Padded(head) == [i \in 1 .. kLongFrameLen |->
                    IF i <= Len(head) THEN head[i] ELSE kPadByte]

command_for(s) ==
    CASE s = "EnterConfig" -> <<kFrameStart, kCmdConfig, kPadByte, kConfigEnter,
                                kPadByte>>
      [] s = "SetAnalog"   -> Padded(<<kFrameStart, kCmdSetMode, kPadByte,
                                       kModeAnalog, kModeLocked>>)
      [] s = "LeaveConfig" -> Padded(<<kFrameStart, kCmdConfig, kPadByte,
                                       kConfigLeave>>)
      [] s = "Polling"     -> Padded(<<kFrameStart, kCmdPoll>>)

command_len(s) == IF s = "EnterConfig" THEN kEnterConfigLen ELSE kLongFrameLen

(* The answer begins with a declared id and the ready byte. *)
HasPrefixId(answer) ==
    /\ Len(answer) >= kWirePrefixLen
    /\ answer[3] = kReadyByte
    /\ answer[2] \in ControllerId

(* Wrong: config mode is expected to the end. *)
expected_id_config(s) == Config

expected_id(s) == IF s = "Polling" THEN Analog ELSE Config

next_stage(s) ==
    CASE s = "EnterConfig" -> "SetAnalog"
      [] s = "SetAnalog"   -> "LeaveConfig"
      [] s \in {"LeaveConfig", "Polling"} -> "Polling"

(* Wrong: an enter that was cut short will do. *)
IsEnterAccepted_short(s, answer) == s = "EnterConfig" /\ HasPrefixId(answer)

IsEnterAccepted(s, answer) ==
    s = "EnterConfig" /\ Len(answer) >= kEnterConfigLen /\ HasPrefixId(answer)

(* Wrong: any declared id will do. *)
IsDeclined_never(s, answer) == FALSE

IsDeclined(s, answer) ==
    s # "EnterConfig" /\ HasPrefixId(answer) /\ answer[2] # expected_id(s)

(* Wrong: the link is made anew. *)
DeclinedLink_fresh == FreshLink

DeclinedLink == [state |-> "Absent", last_fault |-> "Declined", us_in_state |-> 0]

(* Wrong: the link is stepped by the accepted enter as well.               *)
advance_link_always(l, s, answer, elapsed_us) ==
    IF IsDeclined(s, answer) THEN DeclinedLink
    ELSE step(l, decode_poll(answer), elapsed_us)

(* The link after one exchanged frame ... *)
advance_link(l, s, answer, elapsed_us) ==
    CASE IsEnterAccepted(s, answer) -> l
      [] IsDeclined(s, answer)      -> DeclinedLink
      [] OTHER -> step(l, decode_poll(answer), elapsed_us)

(* Wrong: a frame that failed is sent again. *)
advance_stage_retrying(l, s, answer, elapsed_us) ==
    IF \/ IsEnterAccepted(s, answer)
       \/ advance_link(l, s, answer, elapsed_us).state # "Absent"
    THEN next_stage(s) ELSE s

(* ... and the stage. *)
advance_stage(l, s, answer, elapsed_us) ==
    CASE IsEnterAccepted(s, answer) -> next_stage(s)
      [] IsDeclined(s, answer)      -> "EnterConfig"
      [] OTHER ->
            IF \/ s = "EnterConfig"
               \/ advance_link(l, s, answer, elapsed_us).state = "Absent"
            THEN "EnterConfig" ELSE next_stage(s)
=============================================================================
