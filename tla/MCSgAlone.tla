----------------------------- MODULE MCSgAlone -----------------------------
(* Every wire byte a master of this repository sends, one wrong byte at     *)
(* each place where it matters, and one byte past the longest frame.        *)
EXTENDS SgAlone

MCMasterBytes ==
    <<{kFrameStart, kCmdPoll},
      {kCmdPoll, kCmdConfig, kCmdSetMode, kFrameStart},
      {kPadByte},
      {kConfigEnter, kConfigLeave, kModeLocked}>>
    \o [i \in 1 .. 6 |-> {kPadByte}]

MCPressed == [i \in 1 .. kMaxPayloadLen |-> 16 + i]

MCLines ==
    {ModeLine(TRUE), ModeLine(FALSE), PayloadLine(MCPressed),
     FaultLine("None", 0), FaultLine("Ack", 3), FaultLine("Ack", 7),
     FaultLine("Id", \h79), FaultLine("Decline", 0)}
=============================================================================
