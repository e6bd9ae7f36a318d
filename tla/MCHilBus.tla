----------------------------- MODULE MCHilBus -----------------------------
(* The bench with lines of every verb: both modes, a payload that is not   *)
(* the power-on one, and every kind of fault.                              *)
EXTENDS HilBus

MCPayload == [i \in 1 .. kMaxPayloadLen |-> i]

MCLines ==
    {ModeLine(TRUE), ModeLine(FALSE), PayloadLine(MCPayload),
     FaultLine("None", 0), FaultLine("Ack", kWireArgumentIndex),
     FaultLine("Late", 200), FaultLine("Id", \h79), FaultLine("Id", Config),
     FaultLine("Decline", 0)}

MCOnTime == {1}
=============================================================================
