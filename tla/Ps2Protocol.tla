---------------------------- MODULE Ps2Protocol ----------------------------
(***************************************************************************)
(* The wire constants of the PlayStation 2 controller bus, the controller  *)
(* ids, and the decoding of one exchanged frame.                           *)
(*                                                                         *)
(* A byte is a number of Byte.  The answer to a frame is the sequence of   *)
(* the `in` bytes of the wire bytes that completed, wire byte 0 first: its *)
(* length is the code's `completed`, so wire byte i is answer[i + 1].      *)
(***************************************************************************)
EXTENDS Naturals, Sequences

Byte == 0 .. 255

-----------------------------------------------------------------------------
(* Bytes the master sends. *)
kFrameStart  == \h01
kCmdPoll     == \h42
kCmdConfig   == \h43
kCmdSetMode  == \h44
kPadByte     == \h00
kConfigEnter == \h01
kConfigLeave == \h00
kModeDigital == \h00
kModeAnalog  == \h01
kModeLocked  == \h03

(* Bytes the controller sends. *)
kReadyByte == \h5A

(* The enumerators of ControllerId are the wire bytes themselves. *)
Digital == \h41
Analog  == \h73
Config  == \hF3

ControllerId == {Digital, Analog, Config}

-----------------------------------------------------------------------------
(* Frame geometry: the id's low nibble announces the payload in pairs. *)
kPrefixLen      == 2
kBytesPerNibble == 2

payload_len(id) == (id % 16) * kBytesPerNibble

frame_len(id) == kPrefixLen + payload_len(id)

kMaxPayloadLen == payload_len(Analog)

-----------------------------------------------------------------------------
(* Decoding.  An outcome is a frame, or the reason there is none. *)
DecodeStatus == {"AckTimeout", "UnknownId", "NotReady"}

Frame(id, payload) == [ok |-> TRUE, id |-> id, payload |-> payload]
Refused(status)    == [ok |-> FALSE, status |-> status]

Payload == [1 .. kMaxPayloadLen -> Byte]
Frames  == [ok : {TRUE}, id : ControllerId, payload : Payload]
Refusals == [ok : {FALSE}, status : DecodeStatus]
DecodeOutcome == Frames \cup Refusals

(* The announced payload, then zeros. *)
AnnouncedPayload(bytes) ==
    [i \in 1 .. kMaxPayloadLen |->
        IF i <= payload_len(bytes[1]) THEN bytes[kPrefixLen + i] ELSE 0]

(* The bytes from the id on.  The length comes from the id, and a frame cut *)
(* short is reported before a wrong ready byte is.                          *)
decode(bytes) ==
    IF Len(bytes) < kPrefixLen THEN Refused("AckTimeout")
    ELSE IF bytes[1] \notin ControllerId THEN Refused("UnknownId")
    ELSE IF Len(bytes) < frame_len(bytes[1]) THEN Refused("AckTimeout")
    ELSE IF bytes[2] # kReadyByte THEN Refused("NotReady")
    ELSE Frame(bytes[1], AnnouncedPayload(bytes))

(* An analog frame plus its address byte: the most any id announces. *)
kLongestPoll == frame_len(Analog) + 1

(* The answer to a frame: wire byte 0 carries nothing and is dropped. *)
decode_poll(answer) ==
    LET n == IF Len(answer) < kLongestPoll THEN Len(answer) ELSE kLongestPoll
    IN  decode(SubSeq(answer, 2, n))
=============================================================================
