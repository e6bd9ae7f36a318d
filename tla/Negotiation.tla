---------------------------- MODULE Negotiation ----------------------------
(***************************************************************************)
(* The master as a state machine: a link, a stage, and one frame after     *)
(* another.                                                                *)
(*                                                                         *)
(* The controller is not modelled here.  A frame may come back with any    *)
(* answer, cut short anywhere, and any time may pass between two frames:   *)
(* what holds here holds with every controller and every delay.            *)
(***************************************************************************)
EXTENDS MasterLogic

CONSTANTS
    Answers,   \* the answers a controller may give
    Elapseds   \* the times that may pass between two frames

ASSUME AnswersAssumption == Answers \subseteq Seq(Byte)
ASSUME ElapsedsAssumption == Elapseds \subseteq 0 .. kMaxUs

VARIABLES
    link,      \* Master::link
    stage,     \* Master::stage
    exchanged  \* the frame just judged: the stage it was sent at, its answer

vars == <<link, stage, exchanged>>

TypeOK ==
    /\ link \in Link
    /\ stage \in NegotiationStage
    /\ exchanged \in [at : NegotiationStage, answer : Seq(Byte)]

Init ==
    /\ link = FreshLink
    /\ stage = "EnterConfig"
    /\ exchanged = [at |-> "EnterConfig", answer |-> <<>>]

(* One frame: the bytes of the stage's command, or the first of them, are  *)
(* answered, and advance judges the answer.                                *)
Exchange(answer, elapsed_us) ==
    /\ Len(answer) <= command_len(stage)
    /\ link' = advance_link(link, stage, answer, elapsed_us)
    /\ stage' = advance_stage(link, stage, answer, elapsed_us)
    /\ exchanged' = [at |-> stage, answer |-> answer]

Next == \E answer \in Answers, elapsed_us \in Elapseds : Exchange(answer, elapsed_us)

Spec == Init /\ [][Next]_vars

-----------------------------------------------------------------------------
(* The stage and the link tell one story: the link is Absent until config  *)
(* mode has answered, Negotiating while it is being left, and never       *)
(* DigitalStreaming (ADR-0017).  advance keeps the two in step on every    *)
(* path, the accepted enter that skips step included.                      *)
StageMatchesLink ==
    /\ stage \in {"EnterConfig", "SetAnalog"} => link.state = "Absent"
    /\ stage = "LeaveConfig" => link.state = "Negotiating"
    /\ stage = "Polling" => link.state \in {"Negotiating", "AnalogStreaming"}

(* The time limit on config mode really limits it: a link that is still    *)
(* Negotiating has not been so for longer than kNegotiationTimeoutUs.      *)
NegotiatingIsBounded ==
    link.state = "Negotiating" => link.us_in_state <= kNegotiationTimeoutUs

(* The link streams only on the strength of a whole analog frame: the last *)
(* answer was all of an analog frame, asked for by an analog poll          *)
(* (R-PROTO-02, R-PROTO-04).                                               *)
StreamsWholeFrames ==
    link.state = "AnalogStreaming" =>
        /\ exchanged.at = "Polling"
        /\ Len(exchanged.answer) = kLongFrameLen
        /\ exchanged.answer[2] = Analog
        /\ exchanged.answer[3] = kReadyByte

-----------------------------------------------------------------------------
(* The first poll answered in config mode drops the link: a controller is  *)
(* given the set-analog and leave-config frames to show config mode, and   *)
(* no third one.                                                           *)
ConfigModeIsBrief ==
    [][stage = "Polling" => link'.state # "Negotiating"]_vars

(* What a link remembers it does not forget for a good frame: the cause of  *)
(* the last drop is replaced only by another drop, every frame that drops   *)
(* the link names one, and the time in a state that is kept never runs      *)
(* back, however long the polls stall (the counter saturates).              *)
LinkRemembers ==
    [][/\ link'.last_fault # link.last_fault => link'.state = "Absent"
       /\ link.state # "Absent" /\ link'.state = "Absent"
            => link'.last_fault # "None"
       /\ link.state # "Absent" /\ link'.state = link.state
            => link'.us_in_state >= link.us_in_state]_vars

-----------------------------------------------------------------------------
(* The master keeps the promise of AnalogSequence: every frame either       *)
(* carries the sequence one step on or restarts it with a cause, and the    *)
(* link is AnalogStreaming exactly after an accepted poll (R-PROTO-10).     *)
Promise == INSTANCE AnalogSequence WITH
    Causes    <- FaultCause \ {"None"},
    phase     <- stage,
    streaming <- link.state = "AnalogStreaming",
    cause     <- link.last_fault

KeepsPromise == Promise!Spec

=============================================================================
