----------------------------- MODULE MCGamepad -----------------------------
(* The frames of a sequence that succeeds, a frame with nothing pressed and *)
(* one with a fret held, and a frame that is cut short.                     *)
EXTENDS BusyCount

MCEnter  == <<255, Digital, kReadyByte, 255, 255>>
MCConfig == <<255, Config, kReadyByte, 0, 0, 0, 0, 0, 0>>
MCIdle   == <<255, Analog, kReadyByte, 255, 255, 128, 128, 128, 127>>
MCGreen  == <<255, Analog, kReadyByte, 255, 253, 128, 128, 128, 127>>

MCAnswers == {MCEnter, MCConfig, MCIdle, MCGreen, <<255>>}

(* On time, and stalled past the limit on config mode: few values of the    *)
(* link's clock.                                                            *)
MCElapseds == {6, 7}
=============================================================================
