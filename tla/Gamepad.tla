------------------------------ MODULE Gamepad ------------------------------
(***************************************************************************)
(* The master firmware from the frame to the host: the poll loop of         *)
(* src/app/main.cpp, the HID interface of src/usb, and the USB host.        *)
(*                                                                         *)
(* The controller is again any controller (Negotiation).  TinyUSB is one IN *)
(* endpoint that holds at most one report.  It runs in two places: what it  *)
(* does in its interrupt (suspend, resume, detach, a report handed over)    *)
(* happens at any point of the loop, what it does in tud_task only when the *)
(* loop calls it.                                                           *)
(*                                                                         *)
(* The counters and times that only the summary line prints are left out,   *)
(* except the two that depend on each other: polls and busy.                *)
(***************************************************************************)
EXTENDS Negotiation, GuitarReport

CONSTANTS
    kPollsPerSummary,  \* the polls from one summary line to the next
    PollsModulus       \* 2^32: where the poll counter wraps

ASSUME SummaryAssumption == kPollsPerSummary \in Nat \ {0}
ASSUME ModulusAssumption == PollsModulus \in Nat \ {0}

VARIABLES
    pc,        \* "task": in the wait loop; "poll"; "check", "send": in poll_once
    report,    \* Poller::report, and from "send" on the stored_report
    polls,     \* PollTally::polls
    busy,      \* Poller::busy
    usb,       \* the bus, as the device sees it
    endpoint,  \* the IN endpoint: "free"; "armed"; "done", and not yet known to be
    sending,   \* the report it was last armed with
    host       \* the report the host goes by

masterVars == <<link, stage, exchanged>>
gamepadVars == <<masterVars, pc, report, polls, busy, usb, endpoint, sending, host>>

GamepadTypeOK ==
    /\ TypeOK
    /\ pc \in {"task", "poll", "check", "send"}
    /\ report \in HidReport
    /\ polls \in 0 .. PollsModulus - 1
    /\ busy \in Nat
    /\ usb \in {"detached", "ready", "suspended"}
    /\ endpoint \in {"free", "armed", "done"}
    /\ sending \in HidReport
    /\ host \in HidReport

GamepadInit ==
    /\ Init
    /\ pc = "task"
    /\ report = neutral_report
    /\ polls = 0
    /\ busy = 0
    /\ usb = "detached"
    /\ endpoint = "free"
    /\ sending = neutral_report
    /\ host = neutral_report

-----------------------------------------------------------------------------
is_report_ready == usb = "ready" /\ endpoint = "free"

(* The wait of the main loop, which calls usb::task at least once a period  *)
(* (a blocked print, the one thing that can eat a period, calls it too).    *)
UsbTask ==
    /\ pc = "task"
    /\ pc' \in {"task", "poll"}
    /\ endpoint' = IF endpoint = "done" THEN "free" ELSE endpoint
    /\ UNCHANGED <<masterVars, report, polls, busy, usb, sending, host>>

(* ++tally.polls, 32 bits wide.  Wrong: as if it had no width. *)
counted_unbounded == polls + 1
counted == (polls + 1) % PollsModulus

(* Wrong: the last report is left as it is when the link drops. *)
Poll_held(frame, elapsed_us) ==
    /\ pc = "poll"
    /\ Exchange(frame, elapsed_us)
    /\ polls' = counted
    /\ report' = IF link'.state = "AnalogStreaming"
                 THEN report_for(link'.state, decode_poll(frame)) ELSE report
    /\ pc' = "check"
    /\ UNCHANGED <<busy, usb, endpoint, sending, host>>

(* poll_once, up to the report. *)
Poll(frame, elapsed_us) ==
    /\ pc = "poll"
    /\ Exchange(frame, elapsed_us)
    /\ polls' = counted
    /\ report' = report_for(link'.state, decode_poll(frame))
    /\ pc' = "check"
    /\ UNCHANGED <<busy, usb, endpoint, sending, host>>

(* Wrong: an endpoint that is still busy counts as ready. *)
CheckReady_awake ==
    /\ pc = "check"
    /\ busy' = IF usb = "ready" THEN busy ELSE busy + 1
    /\ pc' = "send"
    /\ UNCHANGED <<masterVars, report, polls, usb, endpoint, sending, host>>

CheckReady ==
    /\ pc = "check"
    /\ busy' = IF is_report_ready THEN busy ELSE busy + 1
    /\ pc' = "send"
    /\ UNCHANGED <<masterVars, report, polls, usb, endpoint, sending, host>>

(* Wrong: the summary does not start the count over. *)
Summarised_never(count) == count

(* What print_summary leaves of the busy count. *)
Summarised(count) == IF polls % kPollsPerSummary = 0 THEN 0 ELSE count

(* Whether send_report hands the report over.  Wrong: only a new one. *)
handed_over_if_new == is_report_ready /\ report # sending
handed_over == is_report_ready

(* send_report: stored always, sent only if the endpoint is free, never     *)
(* queued.  Then the summary, when it is due.                               *)
Send ==
    /\ pc = "send"
    /\ endpoint' = IF handed_over THEN "armed" ELSE endpoint
    /\ sending' = IF handed_over THEN report ELSE sending
    /\ busy' = Summarised(busy)
    /\ pc' = "task"
    /\ UNCHANGED <<masterVars, report, polls, usb, host>>

-----------------------------------------------------------------------------
(* The host. *)
HostTakes ==
    /\ usb = "ready"
    /\ endpoint = "armed"
    /\ host' = sending
    /\ endpoint' = "done"
    /\ UNCHANGED <<masterVars, pc, report, polls, busy, usb, sending>>

(* GET_REPORT is answered from tud_task with the stored report. *)
GetReport ==
    /\ pc = "task"
    /\ usb = "ready"
    /\ host' = report
    /\ UNCHANGED <<masterVars, pc, report, polls, busy, usb, endpoint, sending>>

(* Enumeration ends in tud_task and opens the endpoint afresh. *)
Attach ==
    /\ pc = "task"
    /\ usb = "detached"
    /\ usb' = "ready"
    /\ endpoint' = "free"
    /\ UNCHANGED <<masterVars, pc, report, polls, busy, sending, host>>

Suspend ==
    /\ usb = "ready"
    /\ usb' = "suspended"
    /\ UNCHANGED <<masterVars, pc, report, polls, busy, endpoint, sending, host>>

Resume ==
    /\ usb = "suspended"
    /\ usb' = "ready"
    /\ UNCHANGED <<masterVars, pc, report, polls, busy, endpoint, sending, host>>

(* A host whose gamepad is gone holds none of its buttons. *)
Detach ==
    /\ usb # "detached"
    /\ usb' = "detached"
    /\ host' = neutral_report
    /\ UNCHANGED <<masterVars, pc, report, polls, busy, endpoint, sending>>

-----------------------------------------------------------------------------
PollAny == \E frame \in Answers, elapsed_us \in Elapseds : Poll(frame, elapsed_us)

Firmware == UsbTask \/ PollAny \/ CheckReady \/ Send

Bus == GetReport \/ Attach \/ Suspend \/ Resume \/ Detach

GamepadNext == Firmware \/ HostTakes \/ Bus

(* The loop runs forever, and a host that is there reads the endpoint every *)
(* kHidPollIntervalMs; nothing else is promised.                            *)
GamepadSpec ==
    /\ GamepadInit /\ [][GamepadNext]_gamepadVars
    /\ WF_gamepadVars(Firmware)
    /\ WF_gamepadVars(HostTakes)

-----------------------------------------------------------------------------
(* The report is the neutral one whenever the link is not AnalogStreaming   *)
(* (R-HID-02): at no point of the loop can a host read a press of a frame   *)
(* before the drop with GET_REPORT.                                         *)
NeutralUnlessStreaming ==
    link.state # "AnalogStreaming" => report = neutral_report

(* The busy count of a summary never exceeds the polls of that summary,     *)
(* also of the short one in which the poll counter wraps.                   *)
BusyFitsSummary ==
    pc \in {"task", "poll"} => busy <= polls % kPollsPerSummary

(* A press is never held on the host across a dropped link: whatever was in *)
(* the endpoint at the drop, refused by it or late, a host that stays       *)
(* attached and awake ends up with no button pressed (ADR-0018).            *)
NoStuckPress ==
    <>[](link.state # "AnalogStreaming" /\ usb = "ready")
        => <>[](host = neutral_report)

(* Dropping a report that cannot be sent loses nothing that lasts: controls *)
(* that stay as they are reach a host that stays (ADR-0018, "the next poll  *)
(* carries a newer one").                                                   *)
LastingReports ==
    {report_for("AnalogStreaming", decode_poll(frame)) : frame \in Answers}

HostCatchesUp ==
    \A r \in LastingReports :
        <>[](report = r /\ usb = "ready") => <>[](host = r)
=============================================================================
