--------------------------- MODULE AnalogSequence ---------------------------
(***************************************************************************)
(* What the master promises about the frames it sends (R-PROTO-10), with   *)
(* no bytes, no decoding and no clock: enter config mode, select analog,   *)
(* leave config mode, then poll; any frame may fail and sends it back to   *)
(* the start with a cause; only an accepted poll makes the guitar usable.  *)
(***************************************************************************)
CONSTANT Causes  \* the reasons a frame can fail

VARIABLES
    phase,      \* the command the next frame carries
    streaming,  \* the last frame was a good poll
    cause       \* why the sequence last restarted

vars == <<phase, streaming, cause>>

Phases == {"EnterConfig", "SetAnalog", "LeaveConfig", "Polling"}

After == [EnterConfig |-> "SetAnalog",  SetAnalog |-> "LeaveConfig",
          LeaveConfig |-> "Polling",    Polling   |-> "Polling"]

Init == phase = "EnterConfig" /\ streaming = FALSE /\ cause = "None"

Accept ==
    /\ phase' = After[phase]
    /\ streaming' = (phase = "Polling")
    /\ UNCHANGED cause

Restart ==
    /\ phase' = "EnterConfig"
    /\ streaming' = FALSE
    /\ cause' \in Causes

Next == Accept \/ Restart

Spec == Init /\ [][Next]_vars
=============================================================================
