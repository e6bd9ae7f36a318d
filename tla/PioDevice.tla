----------------------------- MODULE PioDevice -----------------------------
(***************************************************************************)
(* The emulator's PIO program, src/hal/ps2_device.pio, an instruction at a  *)
(* time, and device_restart, device_answer and device_take_byte.            *)
(*                                                                         *)
(* Its two outputs are pin directions: 1 pulls the line low, 0 releases it. *)
(* A TX word is the ACK flag and the inverted bits of the next byte.  A     *)
(* tick is one cycle of this program's clock (kDeviceCyclesPerUs).          *)
(***************************************************************************)
EXTENDS PioMaster

kAckPulseCycles == 2 * kCyclesPerUs

DeviceSm ==
    [pc : {"pull", "out_x", "jmp_x", "ack_low", "ack_high", "set_y", "wait_low",
           "out", "wait_high", "in", "jmp_y", "mov", "release", "push"},
     wait : 0 .. kAckPulseCycles - 1,
     x : Bit, y : 0 .. kWireBitsPerByte - 1,
     osr : Seq(Bit), isr : Seq(Bit), tx : Seq(Seq(Bit)), rx : Seq(Bits),
     pull_data : Bit, pull_ack : Bit]

word_for(next, should_ack) ==
    <<IF should_ack THEN 1 ELSE 0>> \o [i \in 1 .. kWireBitsPerByte |-> 1 - next[i]]

-----------------------------------------------------------------------------
DeviceExecuted(d, clk, cmd) ==
    LET To(pc) == [d EXCEPT !.pc = pc]
    IN  CASE d.pc = "pull" ->
                IF d.tx = <<>> THEN d
                ELSE [To("out_x") EXCEPT !.osr = Head(d.tx), !.tx = Tail(d.tx)]
          [] d.pc = "out_x"   -> [To("jmp_x") EXCEPT !.x = Head(d.osr), !.osr = Tail(@)]
          [] d.pc = "jmp_x"   -> To(IF d.x = 0 THEN "set_y" ELSE "ack_low")
          [] d.pc = "ack_low" -> [To("ack_high") EXCEPT !.pull_ack = 1,
                                                        !.wait = kAckPulseCycles - 1]
          [] d.pc = "ack_high"  -> [To("set_y") EXCEPT !.pull_ack = 0]
          [] d.pc = "set_y"     -> [To("wait_low") EXCEPT !.y = kWireBitsPerByte - 1]
          [] d.pc = "wait_low"  -> IF clk = 0 THEN To("out") ELSE d
          [] d.pc = "out"       -> [To("wait_high") EXCEPT !.pull_data = Head(d.osr),
                                                           !.osr = Tail(@)]
          [] d.pc = "wait_high" -> IF clk = 1 THEN To("in") ELSE d
          [] d.pc = "in"        -> [To("jmp_y") EXCEPT !.isr = Append(@, cmd)]
          [] d.pc = "jmp_y"     -> IF d.y = 0 THEN To("mov")
                                   ELSE [To("wait_low") EXCEPT !.y = @ - 1]
          [] d.pc = "mov"       -> [To("release") EXCEPT !.osr = <<0>>]
          [] d.pc = "release"   -> [To("push") EXCEPT !.pull_data = Head(d.osr),
                                                      !.osr = Tail(@)]
          [] d.pc = "push" ->
                IF Len(d.rx) = kFifoDepth THEN d
                ELSE [To("pull") EXCEPT !.rx = Append(@, ShiftedByte(d.isr)), !.isr = <<>>]

DeviceCycle(d, clk, cmd) ==
    IF d.wait > 0 THEN [d EXCEPT !.wait = @ - 1] ELSE DeviceExecuted(d, clk, cmd)

-----------------------------------------------------------------------------
DeviceAtBoot ==
    [pc |-> "pull", wait |-> 0, x |-> 0, y |-> 0, osr |-> <<>>, isr |-> <<>>,
     tx |-> <<word_for(kReleasedByte, FALSE)>>, rx |-> <<>>,
     pull_data |-> 0, pull_ack |-> 0]

(* Wrong: the program goes on where it was. *)
device_restart_emptied(d) ==
    [d EXCEPT !.rx = <<>>, !.tx = IF d.pc = "pull" THEN <<word_for(kReleasedByte, FALSE)>> ELSE <<>>]

(* Halted first, so that the rest is one step: emptied, both lines          *)
(* released, back at `pull` with the frame start's word loaded.             *)
device_restart(d) ==
    [d EXCEPT !.pc = "pull", !.wait = 0, !.isr = <<>>, !.rx = <<>>,
              !.tx = <<word_for(kReleasedByte, FALSE)>>,
              !.pull_data = 0, !.pull_ack = 0]

device_answer(d, next, should_ack) == put(d, word_for(next, should_ack))

(* Nothing loaded: what the master clocks now goes unheard.                 *)
IsIdle(d) == d.pc = "pull" /\ d.tx = <<>>

(* Between a byte's first falling edge and its push.                        *)
IsShifting(d) ==
    \/ d.pc \in {"out", "wait_high", "in", "jmp_y", "mov", "release", "push"}
    \/ d.pc = "wait_low" /\ d.y < kWireBitsPerByte - 1
=============================================================================
