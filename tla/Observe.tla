------------------------------ MODULE Observe ------------------------------
(***************************************************************************)
(* The observer firmware: the same link and the same sequence as the        *)
(* master's, in two modes, and what it prints of them.  In digital mode it  *)
(* polls and steps the link; the line `analog` starts the sequence afresh.  *)
(*                                                                         *)
(* As in Negotiation the controller is any controller.  A frame is traced   *)
(* when the filter finds it due; the filter's clock is the 32-bit           *)
(* microsecond counter, which wraps.                                        *)
(***************************************************************************)
EXTENDS MasterLogic

CONSTANTS
    Answers,     \* the answers a controller may give
    Elapseds,    \* the times that may pass between two frames
    kTraceGapUs  \* what a frame that only the controller changed must wait

ASSUME AnswersAssumption == Answers \subseteq Seq(Byte)
ASSUME ElapsedsAssumption == Elapseds \subseteq 0 .. kMaxUs
ASSUME TraceGapAssumption == kTraceGapUs \in 0 .. kMaxUs

(* No frame is nearly the clock's 71 minutes behind the one before it: the  *)
(* loop waits for a poll period, for ACKs up to their timeout, and for a    *)
(* blocked print until the SDK gives up on it.                              *)
ASSUME DelaysAssumption == \A us \in Elapseds : us + kTraceGapUs <= kMaxUs + 1

VARIABLES
    mode,      \* "Digital" or "Analog"
    link,      \* Observer::link, digital mode's
    master,    \* Observer::master, analog mode's sequence and link
    shown,     \* the state the last `link:` line ended in
    filter,    \* the TraceFilter
    now_us,    \* time_us_32 at the latest frame
    frame,     \* the latest TracedFrame, or NoFrame
    printed,   \* what the latest step printed: a trace line, a `link:` line
    \* what the properties compare the filter with, in a time that never wraps:
    since,     \* from the last trace to the latest frame, up to kTraceGapUs
    behind,    \* how long the controller has answered other than was traced
    switched   \* the mode was set since the last `link:` line

vars == <<mode, link, master, shown, filter, now_us, frame, printed,
          since, behind, switched>>

FreshMaster == [link |-> FreshLink, stage |-> "EnterConfig"]

NoLine == [was |-> "Absent", now |-> "Absent", fault |-> "None"]
LinkLine(was, now, fault) == [was |-> was, now |-> now, fault |-> fault]

NoFrame == [out |-> <<>>, in |-> <<>>, state |-> "Absent"]
FreshFilter == [out |-> <<>>, in |-> <<>>, state |-> "Absent",
                printed_at_us |-> 0, has_printed |-> FALSE]

TypeOK ==
    /\ mode \in {"Digital", "Analog"}
    /\ link \in Link
    /\ master \in [link : Link, stage : NegotiationStage]
    /\ shown \in LinkState
    /\ filter \in [out : Seq(Byte), in : Seq(Byte), state : LinkState,
                   printed_at_us : 0 .. kMaxUs, has_printed : BOOLEAN]
    /\ now_us \in 0 .. kMaxUs
    /\ frame \in [out : Seq(Byte), in : Seq(Byte), state : LinkState]
    /\ printed \in [trace : BOOLEAN,
                    line : [was : LinkState, now : LinkState, fault : FaultCause]]
    /\ since \in 0 .. kTraceGapUs /\ behind \in 0 .. kTraceGapUs
    /\ switched \in BOOLEAN

Init ==
    /\ mode = "Digital"
    /\ link = FreshLink
    /\ master = FreshMaster
    /\ shown = "Absent"
    /\ filter = FreshFilter
    /\ now_us = 0
    /\ frame = NoFrame
    /\ printed = [trace |-> FALSE, line |-> NoLine]
    /\ since = 0
    /\ behind = 0
    /\ switched = FALSE

-----------------------------------------------------------------------------
(* The trace filter.  The answer's length is the code's `completed`. *)
is_out_changed(f, traced) == f.out # traced.out
is_in_changed(f, traced)  == f.in # traced.in

(* Wrong: compared with the time the gap ends at, which may have wrapped    *)
(* when the counter has not.                                               *)
has_gap_passed_at(f, now) ==
    now >= (f.printed_at_us + kTraceGapUs) % (kMaxUs + 1)

has_gap_passed(f, now) ==
    ((now + kMaxUs + 1) - f.printed_at_us) % (kMaxUs + 1) >= kTraceGapUs

(* The observer's frames are never longer than kMaxTracedLen. *)
is_trace_due(f, traced, now) ==
    \/ ~f.has_printed
    \/ is_out_changed(f, traced)
    \/ traced.state # f.state
    \/ is_in_changed(f, traced) /\ has_gap_passed(f, now)

note_printed(traced, now) ==
    [out |-> traced.out, in |-> traced.in, state |-> traced.state,
     printed_at_us |-> now, has_printed |-> TRUE]

(* The filter after a frame.  Wrong: the clock of the last frame is kept,   *)
(* not that of the last one printed, so that the gap never passes.          *)
filtered_always(f, traced, now) ==
    IF is_trace_due(f, traced, now) THEN note_printed(traced, now)
    ELSE [f EXCEPT !.printed_at_us = now]

filtered(f, traced, now) ==
    IF is_trace_due(f, traced, now) THEN note_printed(traced, now) ELSE f

-----------------------------------------------------------------------------
kReadPoll == <<kFrameStart, kCmdPoll, kPadByte, kPadByte, kPadByte>>

command == IF mode = "Digital" THEN kReadPoll ELSE command_for(master.stage)

(* step in digital mode, advance in analog mode. *)
JudgeFrame(answer, elapsed_us) ==
    \/ /\ mode = "Digital"
       /\ link' = step(link, decode_poll(answer), elapsed_us)
       /\ UNCHANGED master
    \/ /\ mode = "Analog"
       /\ master' = [link  |-> advance_link(master.link, master.stage, answer,
                                            elapsed_us),
                     stage |-> advance_stage(master.link, master.stage, answer,
                                             elapsed_us)]
       /\ UNCHANGED link

(* The link of the mode. *)
judged == IF mode = "Digital" THEN link ELSE master.link

Capped(us) == IF us < kTraceGapUs THEN us ELSE kTraceGapUs

(* The properties' own time: it starts at a trace, or at the first frame    *)
(* whose answer is not the traced one.                                      *)
KeepTime(elapsed_us) ==
    /\ since' = Capped((IF printed.trace THEN 0 ELSE since) + elapsed_us)
    /\ behind' = IF filter'.in = frame'.in \/ filter.in = frame.in THEN 0
                 ELSE Capped(behind + elapsed_us)

(* observe_once: one frame, exchanged, judged and printed if it is due. *)
Observe(answer, elapsed_us) ==
    /\ Len(answer) <= Len(command)
    /\ UNCHANGED mode
    /\ JudgeFrame(answer, elapsed_us)
    /\ now_us' = (now_us + elapsed_us) % (kMaxUs + 1)
    /\ frame' = [out |-> command, in |-> answer, state |-> judged'.state]
    /\ filter' = filtered(filter, frame', now_us')
    /\ shown' = judged'.state
    /\ printed' = [trace |-> is_trace_due(filter, frame', now_us'),
                   line  |-> IF judged'.state = shown THEN NoLine
                             ELSE LinkLine(shown, judged'.state,
                                           judged'.last_fault)]
    /\ switched' = (switched /\ judged'.state = shown)
    /\ KeepTime(elapsed_us)

(* poll_command takes a whole line `analog`, in either mode. *)
AnalogLine ==
    /\ mode' = "Analog"
    /\ master' = FreshMaster
    /\ printed' = [printed EXCEPT !.line = NoLine]
    /\ switched' = TRUE
    /\ UNCHANGED <<link, shown, filter, now_us, frame, since, behind>>

ObserveAny ==
    \E answer \in Answers, elapsed_us \in Elapseds : Observe(answer, elapsed_us)

Next == ObserveAny \/ AnalogLine

Spec == Init /\ [][Next]_vars

-----------------------------------------------------------------------------
(* A capture is never out of date (trace_filter.h, rules 1 to 4): what the  *)
(* master last sent and the state it is in are those of the last trace      *)
(* line, and an answer that is not has been seen for less than the gap,     *)
(* although the clock wraps and frames that are not printed come between.   *)
NewsIsNeverOld ==
    filter.has_printed =>
        /\ filter.out = frame.out
        /\ filter.state = frame.state
        /\ filter.in # frame.in => behind < kTraceGapUs

(* The serial port is not drowned: a frame that only the controller changed *)
(* is printed when the gap has really passed, not when the clock wraps.     *)
GapHoldsBackNoise ==
    [][(/\ printed'.trace /\ now_us' # now_us
        /\ filter.has_printed
        /\ filter.out = frame'.out /\ filter.state = frame'.state)
       => since' >= kTraceGapUs /\ filter.in # frame'.in]_vars

(* A `link:` line into Absent says why, unless the mode was set since the   *)
(* last line: no good frame in between, in either mode, wipes the cause     *)
(* that step or advance recorded.                                           *)
DropsNameTheirCause ==
    [][printed'.line.was # printed'.line.now /\ printed'.line.now = "Absent"
       => printed'.line.fault # "None" \/ switched]_vars

-----------------------------------------------------------------------------
(* docs/phases/09-guitar-observe/verify.md says of a `link:` line that      *)
(* "`fault=` says why it last dropped to `absent`".  The line `analog`      *)
(* starts a fresh Master, whose link is Absent for no reason.               *)
FaultSaysWhy ==
    printed.line.was # printed.line.now /\ printed.line.now = "Absent"
        => printed.line.fault # "None"
=============================================================================
