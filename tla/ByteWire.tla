------------------------------ MODULE ByteWire ------------------------------
(***************************************************************************)
(* What the two PIO programs promise their CPUs, and what HilBus builds on:  *)
(* a byte is exchanged whole, in both directions, in one step, and an ACK    *)
(* that is given while the master waits for it is seen.                     *)
(***************************************************************************)
EXTENDS Integers, Sequences

CONSTANTS
    Byte,      \* what can be sent in eight bits
    Released,  \* the byte of a wire nobody pulls low
    NoWord     \* no byte

VARIABLES
    mpc,       \* "idle"; "clock": a byte is to be exchanged; "over": it was
    waits,     \* the master waits for an ACK after this byte
    out, in,   \* the master's byte, and the one it got
    ack,       \* the byte has been acknowledged
    tx,        \* the byte the device answers next, or NoWord
    rx,        \* the bytes the device heard and its CPU has not taken
    late       \* the device was restarted under this byte

vars == <<mpc, waits, out, in, ack, tx, rx, late>>

Init ==
    /\ mpc = "idle" /\ waits = FALSE /\ out = Released /\ in = Released
    /\ ack = FALSE /\ tx = Released /\ rx = <<>> /\ late = FALSE

Begin ==
    /\ mpc = "idle"
    /\ mpc' = "clock"
    /\ out' \in Byte /\ waits' \in BOOLEAN
    /\ UNCHANGED <<in, ack, tx, rx, late>>

(* The exchange itself.  A device without a word hears nothing, and one     *)
(* that was restarted under the byte may have missed some of it, or all.    *)
Clock ==
    /\ mpc = "clock"
    /\ mpc' = "over"
    /\ in' = IF tx = NoWord THEN Released ELSE tx
    /\ \/ tx # NoWord /\ rx' = Append(rx, out) /\ tx' = NoWord
       \/ tx = NoWord /\ UNCHANGED <<rx, tx>>
       \/ late /\ rx' = rx /\ tx' \in {tx, NoWord}
    /\ late' = FALSE
    /\ UNCHANGED <<waits, out, ack>>

Take ==
    /\ rx # <<>>
    /\ rx' = Tail(rx)
    /\ UNCHANGED <<mpc, waits, out, in, ack, tx, late>>

Answer ==
    /\ tx = NoWord /\ mpc # "clock"
    /\ tx' \in Byte
    /\ ack' \in {FALSE, mpc = "over" /\ waits}
    /\ UNCHANGED <<mpc, waits, out, in, rx, late>>

Restart ==
    /\ mpc # "clock" \/ tx = NoWord
    /\ tx' = Released /\ rx' = <<>>
    /\ late' = (mpc = "clock")
    /\ UNCHANGED <<mpc, waits, out, in, ack>>

Complete ==
    /\ mpc = "over" /\ (waits => ack)
    /\ mpc' = "idle" /\ ack' = FALSE /\ in' = Released
    /\ UNCHANGED <<waits, out, tx, rx, late>>

GiveUp ==
    /\ mpc = "over" /\ waits
    /\ mpc' = "idle" /\ ack' = FALSE /\ in' = Released
    /\ UNCHANGED <<waits, out, tx, rx, late>>

Next == Begin \/ Clock \/ Take \/ Answer \/ Restart \/ Complete \/ GiveUp

Spec == Init /\ [][Next]_vars
=============================================================================
