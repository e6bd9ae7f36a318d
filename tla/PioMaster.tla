----------------------------- MODULE PioMaster -----------------------------
(***************************************************************************)
(* The master's PIO program, src/hal/ps2_master.pio, an instruction at a    *)
(* time, and what the CPU does to its state machine.                        *)
(*                                                                         *)
(* A byte is the sequence of its bits, least significant first.  A TX word  *)
(* is the byte's bits and the flag that asks to wait for ACK.               *)
(***************************************************************************)
EXTENDS Integers, Sequences

CONSTANTS
    kWireBitsPerByte,
    kCyclesPerUs       \* the ticks of the model in a master cycle, one us

ASSUME WireBitsAssumption == kWireBitsPerByte \in Nat \ {0}
ASSUME CyclesAssumption == kCyclesPerUs \in Nat \ {0}

Bit  == {0, 1}
Bits == [1 .. kWireBitsPerByte -> Bit]

kFifoDepth == 4

kReleasedByte == [i \in 1 .. kWireBitsPerByte |-> 1]

(* The state machine: program counter, cycles to its next instruction,      *)
(* scratch x and y, shift registers, FIFOs, and the two pins it drives.     *)
MasterSm ==
    [pc : {"pull", "set_x", "out", "in", "jmp_x", "out_y", "jmp_y", "wait_ack", "push"},
     wait : 0 .. 2 * kCyclesPerUs - 1,
     x : 0 .. kWireBitsPerByte - 1, y : Bit,
     osr : Seq(Bit), isr : Seq(Bit), tx : Seq(Seq(Bit)), rx : Seq(Bits),
     clk : Bit, cmd : Bit]

MasterAtBoot ==
    [pc |-> "pull", wait |-> 0, x |-> 0, y |-> 0, osr |-> <<>>, isr |-> <<>>,
     tx |-> <<>>, rx |-> <<>>, clk |-> 1, cmd |-> 1]

-----------------------------------------------------------------------------
(* What the CPU does to a state machine's FIFOs. *)

(* pio_sm_put does not block: into a full FIFO the word is lost.            *)
put(sm, word) ==
    IF Len(sm.tx) < kFifoDepth THEN [sm EXCEPT !.tx = Append(@, word)] ELSE sm

has_byte(sm) == sm.rx # <<>>
dropped_byte(sm) == [sm EXCEPT !.rx = Tail(@)]

(* An RX word's upper eight bits are the last eight shifted in.             *)
ShiftedByte(isr) == SubSeq(isr, Len(isr) - kWireBitsPerByte + 1, Len(isr))

-----------------------------------------------------------------------------
(* The instruction at m.pc, with the levels of DATA and ACK.  `push` and    *)
(* `pull` wait for the FIFO; every other instruction goes on to the next.   *)
Pulled(m) ==
    IF m.tx = <<>> THEN [m EXCEPT !.clk = 1]
    ELSE [m EXCEPT !.clk = 1, !.osr = Head(m.tx), !.tx = Tail(m.tx), !.pc = "set_x"]

Pushed(m) ==
    IF Len(m.rx) = kFifoDepth THEN m
    ELSE [m EXCEPT !.rx = Append(@, ShiftedByte(m.isr)), !.isr = <<>>, !.pc = "pull"]

MasterExecuted(m, data, ack) ==
    CASE m.pc = "pull"  -> Pulled(m)
      [] m.pc = "set_x" -> [m EXCEPT !.x = kWireBitsPerByte - 1, !.pc = "out"]
      [] m.pc = "out"   -> [m EXCEPT !.clk = 0, !.cmd = Head(m.osr),
                                     !.osr = Tail(@), !.pc = "in"]
      [] m.pc = "in"    -> [m EXCEPT !.clk = 1, !.isr = Append(@, data), !.pc = "jmp_x"]
      [] m.pc = "jmp_x" -> IF m.x = 0 THEN [m EXCEPT !.pc = "out_y"]
                           ELSE [m EXCEPT !.x = @ - 1, !.pc = "out"]
      [] m.pc = "out_y" -> [m EXCEPT !.y = Head(m.osr), !.osr = Tail(@), !.pc = "jmp_y"]
      [] m.pc = "jmp_y" -> [m EXCEPT !.pc = IF m.y = 1 THEN "wait_ack" ELSE "push"]
      [] m.pc = "wait_ack" -> IF ack = 1 THEN m ELSE [m EXCEPT !.pc = "push"]
      [] m.pc = "push"  -> Pushed(m)

(* Wrong: the low half of a bit is one cycle, too. *)
Lasts_even(m) == kCyclesPerUs

(* How long an instruction lasts: `out` has one cycle of delay.             *)
Lasts(m) == kCyclesPerUs * (IF m.pc = "out" THEN 2 ELSE 1)

(* One tick of the master's state machine.                                  *)
MasterCycle(m, data, ack) ==
    IF m.wait > 0 THEN [m EXCEPT !.wait = @ - 1]
    ELSE [MasterExecuted(m, data, ack) EXCEPT !.wait = Lasts(m) - 1]

(* Wrong: the FIFOs keep what the byte left in them. *)
recover_kept(m) ==
    [m EXCEPT !.isr = <<>>, !.wait = m.wait % kCyclesPerUs, !.pc = "pull"]

(* Halted first, so that the rest is one step: FIFOs, shift counters and    *)
(* the delay cleared, and back at `pull`.  The pins keep their levels.      *)
recover(m) ==
    [m EXCEPT !.tx = <<>>, !.rx = <<>>, !.isr = <<>>,
              !.wait = m.wait % kCyclesPerUs, !.pc = "pull"]

(* The byte's bits have all been sampled, and it has not been taken yet.    *)
HasAllBits(m) == Len(m.isr) = kWireBitsPerByte \/ has_byte(m)
=============================================================================
