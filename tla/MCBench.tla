------------------------------ MODULE MCBench ------------------------------
(* The whole script, from an emulator just powered on and from one that an  *)
(* interrupted run left in analog mode, in the middle of a fault.           *)
EXTENDS Bench

MCModels ==
    {PowerOnModel,
     [PowerOnModel EXCEPT !.is_analog = TRUE, !.is_config = TRUE,
                          !.fault = [kind |-> "Ack", value |-> 3]]}
=============================================================================
