---------------------------- MODULE MCObserve ----------------------------
(* The observer against a controller that answers in each of its modes, not *)
(* at all, cut short, or with another button pressed.                       *)
EXTENDS Observe

MCAnswers ==
    {<<>>,
     <<255, Digital, kReadyByte, 255, 255>>,
     <<255, Digital, kReadyByte, 255, 254>>,
     <<255, Config, kReadyByte, 0, 0, 0, 0, 0, 0>>,
     <<255, Analog, kReadyByte, 255, 255, 127, 127, 127, 127>>,
     <<255, Analog, kReadyByte, 255, 255, 127, 127, 127, 126>>}

(* A frame on time, one a period late, and one after a stall as long as the *)
(* limit on config mode.                                                    *)
MCElapseds == {1, 2, 6}
=============================================================================
