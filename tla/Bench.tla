------------------------------- MODULE Bench -------------------------------
(***************************************************************************)
(* The hardware-in-the-loop run of tools/hil_digital.py: the master polls   *)
(* the emulator, a frame per step, and prints a summary every               *)
(* kPollsPerSummary polls; the harness types lines at the emulator and      *)
(* judges the summaries.  The two ports are separate: nothing orders the    *)
(* emulator's `ok:` against the master's summaries but how long a summary   *)
(* travels, which is MaxFlight polls at most.                               *)
(*                                                                         *)
(* The master's counters never stop and the harness only looks at their     *)
(* differences, so that a summary carries here what it adds to them.        *)
(* Deadlines are not modelled: the ones the harness sets are far from what  *)
(* a frame or an answer takes.                                              *)
(***************************************************************************)
EXTENDS MasterLogic, SgModel, GuitarReport
LOCAL INSTANCE SequencesExt

CONSTANTS
    kPollsPerSummary,  \* frames per summary
    Seconds,           \* --seconds: the summaries of the sustained window
    ModelsAtStart,     \* what the emulator's model may be when the run starts
    MaxFlight,         \* polls a summary may take to reach the harness
    MaxUnread          \* bound: the lines the harness leaves unread

ASSUME PollsPerSummaryAssumption == kPollsPerSummary \in Nat \ {0, 1}
ASSUME SecondsAssumption == Seconds \in Nat \ {0}
ASSUME ModelsAtStartAssumption == ModelsAtStart \subseteq Model
ASSUME MaxFlightAssumption == MaxFlight \in 1 .. kPollsPerSummary - 1
ASSUME MaxUnreadAssumption == MaxUnread \in Nat \ {0}

VARIABLES
    link, stage,  \* the master's Master
    tally,        \* what its counters gained since the last summary, and the rest
    report,       \* the report it last handed over
    flight,       \* the summary on its way, if any
    arrived,      \* the summaries the harness has not read
    model,        \* the emulator's SgModel
    typed,        \* the lines on their way to the emulator
    printing,     \* it has just answered a line
    ok,           \* its `ok:` waits at the harness
    at,           \* the step of Script the harness is at
    hpc,          \* "write", "ok?", "drop" or "read" there, or "done"
    discarded,    \* summaries this window has discarded
    got,          \* summaries it counts
    verdict       \* "running", "PASS" or "FAIL"

masterVars  == <<link, stage, tally, report>>
emuVars     == <<model, typed, printing>>
harnessVars == <<at, hpc, discarded, got, verdict>>
vars == <<masterVars, flight, arrived, emuVars, ok, harnessVars>>

-----------------------------------------------------------------------------
(* The script.  Lines, reports and expectations are the harness's own, and  *)
(* written by hand there too.                                               *)
PAYLOAD_LINE == PayloadLine(<<\h7F, \hFE, \h80, \h80, \h80, \h7F>>)
EXPECTED_PAYLOAD == <<\h7F, \hFE>>
EXPECTED_WHAMMY  == \h00
STREAMING_REPORT == <<\h00, \h02, \h00>>
NEUTRAL_REPORT   == <<\h00, \h00, \h00>>
SWEEP_WHAMMY == <<  <<\h7F, \h00>>, <<\h60, \h3E>>, <<\h40, \h7E>>,
                    <<\h20, \hBE>>, <<\h00, \hFE>>  >>
BUTTONS ==
    <<  <<\hFF, \hFD, <<\h01, 0, 0>> >>, <<\hFF, \hDF, <<\h02, 0, 0>> >>,
        <<\hFF, \hEF, <<\h04, 0, 0>> >>, <<\hFF, \hBF, <<\h08, 0, 0>> >>,
        <<\hFF, \h7F, <<\h10, 0, 0>> >>, <<\hEF, \hFF, <<\h20, 0, 0>> >>,
        <<\hBF, \hFF, <<\h40, 0, 0>> >>, <<\hF7, \hFF, <<\h80, 0, 0>> >>,
        <<\hFE, \hFF, <<0, \h01, 0>> >>, <<\hFF, \hFE, <<0, \h02, 0>> >>  >>
FAULT_WINDOW == 2

(* Wrong: the summary that a line in flight pushed out is counted. *)
DISCARDED_SUMMARIES_one == 1

DISCARDED_SUMMARIES == 2

NoFaultLine == FaultLine("None", 0)
Send(line)      == [op |-> "send", line |-> line]
Summary         == [op |-> "summary"]
Window(k, want) == [op |-> "window", k |-> k, want |-> want]

Streaming       == [kind |-> "streaming"]
Dropped(fault)  == [kind |-> "dropped", fault |-> fault]
LateKept        == [kind |-> "late kept"]
DeclinedAgain   == [kind |-> "declined"]
Swept(whammy)   == [kind |-> "swept", whammy |-> whammy]
Pressed(bits)   == [kind |-> "pressed", report |-> bits]

setup == <<Send(NoFaultLine), Send(ModeLine(FALSE)), Send(PAYLOAD_LINE), Summary>>

sweep ==
    FlattenSeq([i \in DOMAIN SWEEP_WHAMMY |->
        <<Send(PayloadLine(<<\h7F, \hFE, \h80, \h80, \h80, SWEEP_WHAMMY[i][1]>>)),
          Window(1, Swept(SWEEP_WHAMMY[i][2]))>>])
    \o <<Send(PAYLOAD_LINE)>>

buttons ==
    FlattenSeq([i \in DOMAIN BUTTONS |->
        <<Send(PayloadLine(<<BUTTONS[i][1], BUTTONS[i][2], \h80, \h80, \h80, \h7F>>)),
          Window(1, Pressed(BUTTONS[i][3]))>>])
    \o <<Send(PAYLOAD_LINE)>>

(* The lines, the check, `fault none`, and the recovery. *)
fault_scenario(lines, want) ==
    [i \in DOMAIN lines |-> Send(lines[i])]
    \o <<Window(FAULT_WINDOW, want), Send(NoFaultLine),
         Window(FAULT_WINDOW, Streaming)>>

Script ==
    setup
    \o <<Window(Seconds, Streaming)>>
    \o sweep
    \o buttons
    \o fault_scenario(<<FaultLine("Ack", 0)>>, Dropped("AckTimeout"))
    \o fault_scenario(<<FaultLine("Ack", 3)>>, Dropped("AckTimeout"))
    \o fault_scenario(<<FaultLine("Late", 200)>>, Dropped("AckTimeout"))
    \o fault_scenario(<<FaultLine("Id", \h79)>>, Dropped("UnknownId"))
    \o fault_scenario(<<FaultLine("Late", 50)>>, LateKept)
    \o fault_scenario(<<FaultLine("Decline", 0), ModeLine(FALSE)>>, DeclinedAgain)

(* What an expectation asks of one summary, and of what they add up to.     *)
Shows(want, s) ==
    CASE want = Streaming ->
            /\ s.state = "AnalogStreaming" /\ s.payload = EXPECTED_PAYLOAD
            /\ s.whammy = EXPECTED_WHAMMY /\ s.report = STREAMING_REPORT
      [] want.kind = "dropped" ->
            /\ s.state = "Absent" /\ s.fault = want.fault
            /\ s.report = NEUTRAL_REPORT
      [] want = LateKept ->
            s.state = "AnalogStreaming" /\ s.report = STREAMING_REPORT
      [] want = DeclinedAgain ->
            /\ s.state # "AnalogStreaming" /\ s.fault = "Declined"
            /\ s.report = NEUTRAL_REPORT
      [] want.kind = "swept" ->
            /\ s.state = "AnalogStreaming" /\ s.whammy = want.whammy
            /\ s.report = <<\h00, \h02, want.whammy>>
      [] want.kind = "pressed" ->
            s.state = "AnalogStreaming" /\ s.report = want.report

Delta(window, key) == FoldLeft(LAMBDA sum, s : sum + s[key], 0, window)

AddsUp(want, window) ==
    LET refused == Delta(window, "refused")
        polls   == Len(window) * kPollsPerSummary
    IN  CASE want.kind = "dropped"   -> refused = polls
          [] want.kind = "declined"  -> refused >= 1
          [] want.kind = "streaming" ->
                refused = 0 /\ Delta(window, "changes") = 0
          [] OTHER -> refused = 0

IsMet(want, window) ==
    /\ \A i \in DOMAIN window : Shows(want, window[i])
    /\ AddsUp(want, window)

-----------------------------------------------------------------------------
(* One frame on the wire, as bytes: exchange_frame on one side, serve_frame *)
(* on the other.  The emulator's answer to a byte is shifted out at the     *)
(* next one; the last byte waits for no ACK.                                *)
kAckTimeoutUs == 100

InTime(m) == m.fault.kind # "Late" \/ m.fault.value <= kAckTimeoutUs

exchange_byte(frame, out) ==
    LET reply == step_answer(frame.model, out)
        acked == reply.should_ack /\ InTime(frame.model)
    IN  IF ~frame.going THEN frame
        ELSE [frame EXCEPT
                !.model  = step_model(@, out),
                !.next   = reply.next,
                !.left   = @ - 1,
                !.answer = IF acked \/ frame.left = 1
                           THEN Append(@, frame.next) ELSE @,
                !.going  = acked]

exchange_frame(m, command) ==
    FoldLeft(exchange_byte,
             [model |-> reset(m), next |-> kIdleByte, left |-> Len(command),
              answer |-> <<>>, going |-> TRUE],
             command)

-----------------------------------------------------------------------------
(* The tally, its payload <<>> and its whammy NoWhammy before the first     *)
(* streaming frame.  stale, which the properties read, is set when a poll   *)
(* of this summary ran before the latest line was obeyed.                   *)
NoWhammy == 256

Outdated(summaries) ==
    [i \in DOMAIN summaries |-> [summaries[i] EXCEPT !.stale = TRUE]]

Emptied(t) == [t EXCEPT !.polls = 0, !.refused = 0, !.changes = 0, !.stale = FALSE]

count_poll(t, now, outcome) ==
    LET streams == now = "AnalogStreaming" /\ outcome.ok
    IN  [t EXCEPT
            !.polls   = @ + 1,
            !.refused = IF now = "Absent" THEN @ + 1 ELSE @,
            !.changes = IF streams /\ t.last_payload \notin {<<>>, outcome.payload}
                        THEN @ + 1 ELSE @,
            !.last_payload = IF streams THEN outcome.payload ELSE @]

noted_whammy(t, now, outcome) ==
    IF now = "AnalogStreaming" /\ outcome.ok
    THEN [t EXCEPT !.whammy = map_frame(outcome).whammy] ELSE t

summary_of(t, l, last_report) ==
    [state |-> l.state, fault |-> l.last_fault, refused |-> t.refused,
     changes |-> t.changes,
     payload |-> IF t.last_payload = <<>> THEN <<>> ELSE SubSeq(t.last_payload, 1, 2),
     whammy |-> t.whammy, report |-> last_report, stale |-> t.stale]

Summaries ==
    [state : LinkState, fault : FaultCause, refused : 0 .. kPollsPerSummary,
     changes : 0 .. kPollsPerSummary, payload : Seq(Byte),
     whammy : Byte \cup {NoWhammy}, report : Seq(Byte), stale : BOOLEAN]

TypeOK ==
    /\ link \in Link
    /\ stage \in NegotiationStage
    /\ tally \in [polls : 0 .. kPollsPerSummary - 1, refused : 0 .. kPollsPerSummary,
                  changes : 0 .. kPollsPerSummary,
                  last_payload : Seq(Byte),
                  whammy : Byte \cup {NoWhammy}, stale : BOOLEAN]
    /\ Len(tally.last_payload) \in {0, kMaxPayloadLen}
    /\ report \in HidReport
    /\ flight \in Seq(Summaries) /\ Len(flight) <= 1
    /\ arrived \in Seq(Summaries) /\ Len(arrived) <= MaxUnread
    /\ model \in Model
    /\ Len(typed) <= 1 /\ printing \in BOOLEAN /\ ok \in BOOLEAN
    /\ at \in DOMAIN Script
    /\ hpc \in {"write", "ok?", "drop", "read", "done"}
    /\ discarded \in 0 .. DISCARDED_SUMMARIES
    /\ got \in Seq(Summaries)
    /\ verdict \in {"running", "PASS", "FAIL"}

Init ==
    /\ link = FreshLink
    /\ stage = "EnterConfig"
    /\ tally = [polls |-> 0, refused |-> 0, changes |-> 0, last_payload |-> <<>>,
                whammy |-> NoWhammy, stale |-> FALSE]
    /\ report = neutral_report
    /\ flight = <<>>
    /\ arrived = <<>>
    /\ model \in ModelsAtStart
    /\ typed = <<>>
    /\ printing = FALSE
    /\ ok = FALSE
    /\ at = 1
    /\ hpc = "write"
    /\ discarded = 0
    /\ got = <<>>
    /\ verdict = "running"

-----------------------------------------------------------------------------
(* The two firmwares. *)

(* poll_once on what a frame brought back, and print_summary when it is     *)
(* due.                                                                     *)
Judge(answer) ==
    LET outcome == decode_poll(answer)
        counted == noted_whammy(count_poll(tally, link'.state, outcome),
                                link'.state, outcome)
    IN  /\ flight # <<>> => tally.polls < MaxFlight
        /\ link' = advance_link(link, stage, answer, kPollPeriodUs)
        /\ stage' = advance_stage(link, stage, answer, kPollPeriodUs)
        /\ report' = report_for(link'.state, outcome)
        /\ \/ /\ counted.polls < kPollsPerSummary
              /\ tally' = counted
              /\ UNCHANGED flight
           \/ /\ counted.polls = kPollsPerSummary
              /\ flight' = <<summary_of(counted, link', report')>>
              /\ tally' = Emptied(counted)

Poll ==
    LET frame == exchange_frame(model, command_for(stage))
    IN  /\ Judge(frame.answer)
        /\ model' = frame.model
        /\ printing' = FALSE
        /\ UNCHANGED <<arrived, typed, ok, harnessVars>>

(* The emulator is still printing its `ok:` when ATT falls, and the frame   *)
(* passes it by: no byte of it is ACKed, and it has drained the FIFO before *)
(* the next one.                                                            *)
MissedPoll ==
    /\ printing
    /\ Judge(<<>>)
    /\ printing' = FALSE
    /\ UNCHANGED <<arrived, model, typed, ok, harnessVars>>

(* Wrong: the line is obeyed and not answered. *)
TakeLine_silent ==
    /\ typed # <<>>
    /\ model' = apply(model, Head(typed))
    /\ typed' = <<>>
    /\ printing' = TRUE
    /\ tally' = [tally EXCEPT !.stale = tally.polls > 0]
    /\ flight' = Outdated(flight)
    /\ arrived' = Outdated(arrived)
    /\ UNCHANGED <<link, stage, report, ok, harnessVars>>

(* poll_command, between two frames: the line is obeyed, then answered. *)
TakeLine ==
    /\ typed # <<>>
    /\ model' = apply(model, Head(typed))
    /\ typed' = <<>>
    /\ printing' = TRUE
    /\ ok' = (verdict = "running")
    /\ tally' = [tally EXCEPT !.stale = tally.polls > 0]
    /\ flight' = Outdated(flight)
    /\ arrived' = Outdated(arrived)
    /\ UNCHANGED <<link, stage, report, harnessVars>>

(* The summary reaches the harness, or a port nobody has open.  Of what the *)
(* next Drop drops, no more than MaxUnread lines are kept.                  *)
Arrive ==
    /\ flight # <<>>
    /\ flight' = <<>>
    /\ hpc = "read" => Len(arrived) < MaxUnread
    /\ arrived' = IF hpc = "done" \/ Len(arrived) = MaxUnread THEN arrived
                  ELSE arrived \o flight
    /\ UNCHANGED <<masterVars, emuVars, ok, harnessVars>>

-----------------------------------------------------------------------------
(* The harness. *)
here == Script[at]

(* The script goes on, or passes: the run ends with `fault none`, whose     *)
(* answer nobody waits for.                                                 *)
GoOn ==
    /\ discarded' = 0
    /\ got' = <<>>
    /\ IF at < Len(Script)
       THEN /\ at' = at + 1
            /\ hpc' = IF Script[at + 1].op = "send" THEN "write" ELSE "read"
            /\ UNCHANGED <<typed, verdict>>
       ELSE /\ verdict' = "PASS"
            /\ hpc' = "done"
            /\ typed' = <<NoFaultLine>>
            /\ UNCHANGED at

GiveUp ==
    /\ verdict' = "FAIL"
    /\ hpc' = "done"
    /\ typed' = <<NoFaultLine>>
    /\ UNCHANGED <<at, discarded, got>>

Write ==
    /\ hpc = "write"
    /\ typed' = <<here.line>>
    /\ hpc' = "ok?"
    /\ UNCHANGED <<masterVars, flight, arrived, model, printing, ok,
                   at, discarded, got, verdict>>

ReadOk ==
    /\ hpc = "ok?"
    /\ ok
    /\ ok' = FALSE
    /\ hpc' = "drop"
    /\ UNCHANGED <<masterVars, flight, arrived, emuVars, at, discarded, got, verdict>>

(* take_complete_lines: what has arrived by now is older than the `ok:`. *)
Drop ==
    /\ hpc = "drop"
    /\ arrived' = <<>>
    /\ GoOn
    /\ UNCHANGED <<masterVars, flight, model, printing, ok>>

(* A summary read on its own, in setup. *)
ReadOne ==
    /\ hpc = "read" /\ here.op = "summary"
    /\ arrived # <<>>
    /\ arrived' = Tail(arrived)
    /\ GoOn
    /\ UNCHANGED <<masterVars, flight, model, printing, ok>>

(* window, and the check of what it returns. *)
Discard ==
    /\ hpc = "read" /\ here.op = "window"
    /\ discarded < DISCARDED_SUMMARIES
    /\ arrived # <<>>
    /\ arrived' = Tail(arrived)
    /\ discarded' = discarded + 1
    /\ UNCHANGED <<masterVars, flight, emuVars, ok, at, hpc, got, verdict>>

Count ==
    /\ hpc = "read" /\ here.op = "window"
    /\ discarded = DISCARDED_SUMMARIES
    /\ Len(got) < here.k
    /\ arrived # <<>>
    /\ arrived' = Tail(arrived)
    /\ got' = Append(got, Head(arrived))
    /\ UNCHANGED <<masterVars, flight, emuVars, ok, at, hpc, discarded, verdict>>

Check ==
    /\ hpc = "read" /\ here.op = "window"
    /\ Len(got) = here.k
    /\ IF IsMet(here.want, got) THEN GoOn ELSE GiveUp
    /\ UNCHANGED <<masterVars, flight, arrived, model, printing, ok>>

Polled == tally'.polls # tally.polls

Harness == Write \/ ReadOk \/ Drop \/ ReadOne \/ Discard \/ Count \/ Check

Next == Poll \/ MissedPoll \/ TakeLine \/ Arrive \/ Harness

(* The master polls for ever, the emulator's loop and the harness run on,   *)
(* and lines arrive.                                                        *)
Spec == /\ Init /\ [][Next]_vars
        /\ []<><<Polled>>_vars
        /\ WF_vars(TakeLine) /\ WF_vars(Arrive) /\ WF_vars(Harness)

-----------------------------------------------------------------------------
(* The bench raises no false alarm: whenever the lines take effect between  *)
(* two polls, whichever frame the emulator misses while it answers, and     *)
(* however late the harness reads, firmware that works passes every         *)
(* scenario (docs/phases/07-analog-mode/spec.md, the scenario table).       *)
NoFalseAlarm == verdict # "FAIL"

(* Every poll a window counts ran under the line that was sent before it    *)
(* (docs/phases/06-hil-digital/spec.md, window), although the summaries and *)
(* the `ok:` come from two ports.                                           *)
JudgesAfterItsLines == \A i \in DOMAIN got : ~got[i].stale

(* The run ends, and leaves the bench streaming, with no fault set: no step *)
(* waits for a line that was dropped.                                       *)
RunEnds == <>[](verdict = "PASS" /\ model.fault = NoFault
                /\ link.state = "AnalogStreaming")
=============================================================================
