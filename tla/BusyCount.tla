----------------------------- MODULE BusyCount -----------------------------
(***************************************************************************)
(* The gamepad with a count of the reports that were really not sent beside *)
(* the busy count, and of the polls in which the bus interrupted between    *)
(* the two reads of tud_hid_ready, is_report_ready's and send_report's.     *)
(***************************************************************************)
EXTENDS Gamepad, Integers

VARIABLES
    unsent,    \* history: this summary's reports that were stored only
    raced,     \* history: this summary's polls with an interrupt in between
    was_raced  \* history: this poll is one

countVars == <<gamepadVars, unsent, raced, was_raced>>

CountInit == GamepadInit /\ unsent = 0 /\ raced = 0 /\ was_raced = FALSE

Unsent == IF handed_over THEN unsent ELSE unsent + 1

(* A report is sent, or not. *)
Counted ==
    /\ Send
    /\ unsent' = Summarised(Unsent)
    /\ raced' = Summarised(raced)
    /\ was_raced' = FALSE

(* Suspend, resume or detach between the two reads. *)
Interrupted ==
    /\ pc = "send" /\ (Suspend \/ Resume \/ Detach)
    /\ raced' = IF was_raced THEN raced ELSE raced + 1
    /\ was_raced' = TRUE
    /\ UNCHANGED unsent

Elsewhere ==
    /\ \/ UsbTask \/ PollAny \/ CheckReady \/ HostTakes \/ GetReport \/ Attach
       \/ pc # "send" /\ (Suspend \/ Resume \/ Detach)
    /\ UNCHANGED <<unsent, raced, was_raced>>

CountNext == Counted \/ Interrupted \/ Elsewhere

(* With the fairness of GamepadSpec, whose variables it only watches.       *)
CountSpec ==
    /\ CountInit /\ [][CountNext]_countVars
    /\ WF_gamepadVars(Firmware)
    /\ WF_gamepadVars(HostTakes)

(* The busy count of a summary is the number of its reports that were not   *)
(* sent, but for the polls in which a suspend, a resume or a detach fell    *)
(* between the two reads of readiness; a report that the host takes in that *)
(* gap makes no difference, since its endpoint stays busy until tud_task.   *)
BusyCountsUnsent ==
    pc \in {"task", "poll"} => busy - unsent \in -raced .. raced
=============================================================================
