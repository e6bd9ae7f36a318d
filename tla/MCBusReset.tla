----------------------------- MODULE MCBusReset -----------------------------
(* Three bits, the least with which a frame start, one bit late, is another  *)
(* byte.                                                                     *)
EXTENDS BusReset

MCBytes == {<<1, 0, 0>>, <<0, 1, 0>>}
MCFrameStart == <<1, 0, 0>>
MCDelays == {5}
MCMaxResets == [pico \in Pico |-> 1]
=============================================================================
