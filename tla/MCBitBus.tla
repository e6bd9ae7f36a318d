----------------------------- MODULE MCBitBus -----------------------------
(* Bytes that differ in every bit and are not their own reverse.  The SG's  *)
(* own ACK delay, and the one that meets the master as it gives up.         *)
EXTENDS BitBus

MCBytes == {<<1, 0, 0, 0, 0, 0, 1, 0>>, <<0, 1, 1, 1, 1, 1, 0, 1>>}

MCDelays == {11, 97}
=============================================================================
