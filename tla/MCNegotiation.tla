--------------------------- MODULE MCNegotiation ---------------------------
(* Negotiation against every controller TLC can enumerate: three declared   *)
(* ids and one undeclared, ready or not, cut short after any byte.          *)
EXTENDS Negotiation

MCUnknownId == \h79
MCNotReady  == \hFF

MCWire(id, ready) == <<255, id, ready, 0, 0, 0, 0, 0, 0>>

MCAnswers ==
    {SubSeq(MCWire(id, ready), 1, n) :
        id \in ControllerId \cup {MCUnknownId},
        ready \in {kReadyByte, MCNotReady},
        n \in 0 .. kLongFrameLen}

(* A frame on time, one exactly at the limit, one just past it. *)
MCElapseds == {1, 6, 7}
=============================================================================
