---------------------------- MODULE BitBusProofs ----------------------------
(***************************************************************************)
(* BitBus implements ByteWire, for every width of a byte, every number of   *)
(* bytes in a frame, any bytes, and every timing that BitBus assumes.       *)
(*                                                                         *)
(* In this order: what one instruction of the device's program does to what *)
(* the program holds, DeviceAt (PioMasterProofs has MasterAt, the same of   *)
(* the master's); the invariant Inv, which says which instruction of one    *)
(* program meets which of the other, and when; that a tick keeps each of    *)
(* its parts; that a step of either CPU does; and that a step that keeps    *)
(* Inv is one of ByteWire.  Then Times: how long after a byte its ACK can   *)
(* take, at each place of its way, which is within the budget if the ACK is *)
(* given at the SG's pace.                                                  *)
(*                                                                         *)
(* Last, of BusReset: the pads of both Picos through their boots.           *)
(***************************************************************************)
EXTENDS BusReset, PioMasterProofs

(* The bits that a word makes the device pull DATA low at. *)
Pulls(byte) == [i \in 1 .. kWireBitsPerByte |-> 1 - byte[i]]

(* The inverted bits are bits. *)
LEMMA SomePulls ==
    ASSUME NEW byte \in Bits
    PROVE  Pulls(byte) \in Bits /\ \A i \in 1 .. kWireBitsPerByte : Pulls(byte)[i] = 1 - byte[i]
BY DEF Pulls, Bits, Bit

(* The device's word: the flag, and then the inverted bits. *)
LEMMA ADeviceWord ==
    ASSUME NEW byte \in Bits, NEW acks \in BOOLEAN
    PROVE  /\ word_for(byte, acks) \in Seq(Bit) /\ word_for(byte, acks) # <<>>
           /\ word_for(byte, acks)[1] = (IF acks THEN 1 ELSE 0)
           /\ Head(word_for(byte, acks)) = (IF acks THEN 1 ELSE 0)
           /\ Tail(word_for(byte, acks)) = Pulls(byte)
<1>1. PICK flag \in Bit : flag = IF acks THEN 1 ELSE 0 BY DEF Bit
<1>2. PICK p : p = Pulls(byte) OBVIOUS
<1>3. p \in Seq(Bit) /\ Len(p) = kWireBitsPerByte BY <1>2, SomePulls, AByte
<1>4. PICK w : w = <<flag>> \o p OBVIOUS
<1>5. <<flag>> \in Seq(Bit) /\ Len(<<flag>>) = 1 /\ <<flag>>[1] = flag OBVIOUS
<1>6. w \in Seq(Bit) /\ Len(w) = kWireBitsPerByte + 1 /\ w[1] = flag
      /\ \A i \in 1 .. kWireBitsPerByte : w[i + 1] = p[i]
  BY <1>3, <1>4, <1>5, ConcatProperties, Widths
<1>7. w # <<>> /\ Head(w) = flag
  BY <1>6, Widths
<1>8. Tail(w) \in Seq(Bit) /\ Len(Tail(w)) = kWireBitsPerByte
      /\ \A j \in 1 .. kWireBitsPerByte : Tail(w)[j] = w[j + 1]
  BY <1>6, <1>7, HeadTailProperties, Widths
<1>9. Tail(w) = p
  BY <1>3, <1>6, <1>8, SeqEqual
<1>10. word_for(byte, acks) = w
  BY <1>1, <1>2, <1>4 DEF word_for, Pulls
<1> QED BY <1>1, <1>2, <1>6, <1>7, <1>9, <1>10

-----------------------------------------------------------------------------
(* The device's program: `pull` with no word loaded keeps waiting ... *)
LEMMA DevicePullsNone ==
    ASSUME NEW d \in DeviceSm, NEW c \in Bit, NEW m \in Bit, d.wait = 0, d.pc = "pull", d.tx = <<>>
    PROVE  DeviceCycle(d, c, m) = d
BY DEF DeviceCycle, DeviceExecuted, Bit

(* ... and takes the word otherwise. *)
LEMMA DevicePulls ==
    ASSUME NEW d \in DeviceSm, NEW c \in Bit, NEW m \in Bit,
           d.wait = 0, d.pc = "pull", d.tx # <<>>
    PROVE  LET e == DeviceCycle(d, c, m)
           IN  /\ e \in DeviceSm /\ e.pc = "out_x" /\ e.wait = d.wait /\ e.x = d.x /\ e.y = d.y
               /\ e.osr = Head(d.tx) /\ e.isr = d.isr /\ e.tx = Tail(d.tx) /\ e.rx = d.rx
               /\ e.pull_data = d.pull_data /\ e.pull_ack = d.pull_ack
<1>1. PICK e : e = DeviceCycle(d, c, m) OBVIOUS
<1>2. PICK n_osr \in Seq(Bit) : n_osr = Head(d.tx)
  <2>1. d.tx \in Seq(Seq(Bit)) BY DEF DeviceSm
  <2>2. Head(d.tx) \in Seq(Bit) BY <2>1, HeadTailProperties
  <2> QED BY <2>2
<1>3. PICK n_tx \in Seq(Seq(Bit)) : n_tx = Tail(d.tx)
  <2>1. d.tx \in Seq(Seq(Bit)) BY DEF DeviceSm
  <2>2. Tail(d.tx) \in Seq(Seq(Bit)) BY <2>1, HeadTailProperties
  <2> QED BY <2>2
<1>4. PICK g : g = [d EXCEPT !.pc = "out_x"] OBVIOUS
<1>5. g \in DeviceSm
  BY <1>4 DEF DeviceSm
<1>6. /\ g.pc = "out_x" /\ g.wait = d.wait /\ g.x = d.x /\ g.y = d.y /\ g.osr = d.osr
      /\ g.isr = d.isr /\ g.tx = d.tx /\ g.rx = d.rx /\ g.pull_data = d.pull_data /\ g.pull_ack = d.pull_ack
  BY <1>4 DEF DeviceSm
<1>7. e = [g EXCEPT !.osr = n_osr, !.tx = n_tx]
  BY <1>1, <1>2, <1>3, <1>4, <1>6 DEF DeviceCycle, DeviceExecuted
<1>8. e \in DeviceSm
  BY <1>5, <1>7 DEF DeviceSm
<1>9. /\ e.pc = g.pc /\ e.wait = g.wait /\ e.x = g.x /\ e.y = g.y /\ e.osr = n_osr
      /\ e.isr = g.isr /\ e.tx = n_tx /\ e.rx = g.rx /\ e.pull_data = g.pull_data /\ e.pull_ack = g.pull_ack
  BY <1>5, <1>7 DEF DeviceSm
<1> QED BY <1>1, <1>2, <1>3, <1>6, <1>8, <1>9

(* `out_x` takes the flag. *)
LEMMA DeviceOutX ==
    ASSUME NEW d \in DeviceSm, NEW c \in Bit, NEW m \in Bit,
           d.wait = 0, d.pc = "out_x", d.osr # <<>>
    PROVE  LET e == DeviceCycle(d, c, m)
           IN  /\ e \in DeviceSm /\ e.pc = "jmp_x" /\ e.wait = d.wait /\ e.x = Head(d.osr) /\ e.y = d.y
               /\ e.osr = Tail(d.osr) /\ e.isr = d.isr /\ e.tx = d.tx /\ e.rx = d.rx
               /\ e.pull_data = d.pull_data /\ e.pull_ack = d.pull_ack
<1>1. PICK e : e = DeviceCycle(d, c, m) OBVIOUS
<1>2. PICK n_x \in Bit : n_x = Head(d.osr)
  <2>1. d.osr \in Seq(Bit) BY DEF DeviceSm
  <2>2. Head(d.osr) \in Bit BY <2>1, HeadTailProperties
  <2> QED BY <2>2
<1>3. PICK n_osr \in Seq(Bit) : n_osr = Tail(d.osr)
  <2>1. d.osr \in Seq(Bit) BY DEF DeviceSm
  <2>2. Tail(d.osr) \in Seq(Bit) BY <2>1, HeadTailProperties
  <2> QED BY <2>2
<1>4. PICK g : g = [d EXCEPT !.pc = "jmp_x"] OBVIOUS
<1>5. g \in DeviceSm
  BY <1>4 DEF DeviceSm
<1>6. /\ g.pc = "jmp_x" /\ g.wait = d.wait /\ g.x = d.x /\ g.y = d.y /\ g.osr = d.osr
      /\ g.isr = d.isr /\ g.tx = d.tx /\ g.rx = d.rx /\ g.pull_data = d.pull_data /\ g.pull_ack = d.pull_ack
  BY <1>4 DEF DeviceSm
<1>7. e = [g EXCEPT !.x = n_x, !.osr = n_osr]
  BY <1>1, <1>2, <1>3, <1>4, <1>6 DEF DeviceCycle, DeviceExecuted
<1>8. e \in DeviceSm
  BY <1>5, <1>7 DEF DeviceSm
<1>9. /\ e.pc = g.pc /\ e.wait = g.wait /\ e.x = n_x /\ e.y = g.y /\ e.osr = n_osr
      /\ e.isr = g.isr /\ e.tx = g.tx /\ e.rx = g.rx /\ e.pull_data = g.pull_data /\ e.pull_ack = g.pull_ack
  BY <1>5, <1>7 DEF DeviceSm
<1> QED BY <1>1, <1>2, <1>3, <1>6, <1>8, <1>9

(* `jmp_x` skips the pulse ... *)
LEMMA DeviceJmpsX ==
    ASSUME NEW d \in DeviceSm, NEW c \in Bit, NEW m \in Bit,
           d.wait = 0, d.pc = "jmp_x", d.x = 0
    PROVE  LET e == DeviceCycle(d, c, m)
           IN  /\ e \in DeviceSm /\ e.pc = "set_y" /\ e.wait = d.wait /\ e.x = d.x /\ e.y = d.y
               /\ e.osr = d.osr /\ e.isr = d.isr /\ e.tx = d.tx /\ e.rx = d.rx
               /\ e.pull_data = d.pull_data /\ e.pull_ack = d.pull_ack
<1>1. PICK e : e = DeviceCycle(d, c, m) OBVIOUS
<1>2. PICK g : g = [d EXCEPT !.pc = "set_y"] OBVIOUS
<1>3. g \in DeviceSm
  BY <1>2 DEF DeviceSm
<1>4. /\ g.pc = "set_y" /\ g.wait = d.wait /\ g.x = d.x /\ g.y = d.y /\ g.osr = d.osr
      /\ g.isr = d.isr /\ g.tx = d.tx /\ g.rx = d.rx /\ g.pull_data = d.pull_data /\ g.pull_ack = d.pull_ack
  BY <1>2 DEF DeviceSm
<1>5. e = g
  BY <1>1, <1>2, <1>4 DEF DeviceCycle, DeviceExecuted
<1>6. e \in DeviceSm
  BY <1>3, <1>5 DEF DeviceSm
<1>7. /\ e.pc = g.pc /\ e.wait = g.wait /\ e.x = g.x /\ e.y = g.y /\ e.osr = g.osr
      /\ e.isr = g.isr /\ e.tx = g.tx /\ e.rx = g.rx /\ e.pull_data = g.pull_data /\ e.pull_ack = g.pull_ack
  BY <1>3, <1>5 DEF DeviceSm
<1> QED BY <1>1, <1>4, <1>6, <1>7

(* ... or gives it. *)
LEMMA DeviceAcks ==
    ASSUME NEW d \in DeviceSm, NEW c \in Bit, NEW m \in Bit,
           d.wait = 0, d.pc = "jmp_x", d.x = 1
    PROVE  LET e == DeviceCycle(d, c, m)
           IN  /\ e \in DeviceSm /\ e.pc = "ack_low" /\ e.wait = d.wait /\ e.x = d.x /\ e.y = d.y
               /\ e.osr = d.osr /\ e.isr = d.isr /\ e.tx = d.tx /\ e.rx = d.rx
               /\ e.pull_data = d.pull_data /\ e.pull_ack = d.pull_ack
<1>1. PICK e : e = DeviceCycle(d, c, m) OBVIOUS
<1>2. PICK g : g = [d EXCEPT !.pc = "ack_low"] OBVIOUS
<1>3. g \in DeviceSm
  BY <1>2 DEF DeviceSm
<1>4. /\ g.pc = "ack_low" /\ g.wait = d.wait /\ g.x = d.x /\ g.y = d.y /\ g.osr = d.osr
      /\ g.isr = d.isr /\ g.tx = d.tx /\ g.rx = d.rx /\ g.pull_data = d.pull_data /\ g.pull_ack = d.pull_ack
  BY <1>2 DEF DeviceSm
<1>5. e = g
  BY <1>1, <1>2, <1>4 DEF DeviceCycle, DeviceExecuted
<1>6. e \in DeviceSm
  BY <1>3, <1>5 DEF DeviceSm
<1>7. /\ e.pc = g.pc /\ e.wait = g.wait /\ e.x = g.x /\ e.y = g.y /\ e.osr = g.osr
      /\ e.isr = g.isr /\ e.tx = g.tx /\ e.rx = g.rx /\ e.pull_data = g.pull_data /\ e.pull_ack = g.pull_ack
  BY <1>3, <1>5 DEF DeviceSm
<1> QED BY <1>1, <1>4, <1>6, <1>7

(* ACK may be pulled low. *)
LEMMA AckPulled ==
    ASSUME NEW h \in DeviceSm
    PROVE  [h EXCEPT !.pull_ack = 1] \in DeviceSm
BY DEF DeviceSm, Bit

(* `ack_low` pulls ACK low for the length of the pulse. *)
LEMMA DeviceAckLow ==
    ASSUME NEW d \in DeviceSm, NEW c \in Bit, NEW m \in Bit,
           d.wait = 0, d.pc = "ack_low"
    PROVE  LET e == DeviceCycle(d, c, m)
           IN  /\ e \in DeviceSm /\ e.pc = "ack_high" /\ e.wait = 2 * kCyclesPerUs - 1 /\ e.x = d.x /\ e.y = d.y
               /\ e.osr = d.osr /\ e.isr = d.isr /\ e.tx = d.tx /\ e.rx = d.rx
               /\ e.pull_data = d.pull_data /\ e.pull_ack = 1
<1>1. PICK e : e = DeviceCycle(d, c, m) OBVIOUS
<1>2. PICK n_wait \in 0 .. kAckPulseCycles - 1 : n_wait = 2 * kCyclesPerUs - 1
  BY Widths DEF kAckPulseCycles
<1>3. PICK g : g = [d EXCEPT !.pc = "ack_high"] OBVIOUS
<1>4. g \in DeviceSm
  BY <1>3 DEF DeviceSm
<1>5. /\ g.pc = "ack_high" /\ g.wait = d.wait /\ g.x = d.x /\ g.y = d.y /\ g.osr = d.osr
      /\ g.isr = d.isr /\ g.tx = d.tx /\ g.rx = d.rx /\ g.pull_data = d.pull_data /\ g.pull_ack = d.pull_ack
  BY <1>3 DEF DeviceSm
<1>6. e = [g EXCEPT !.pull_ack = 1, !.wait = n_wait]
  BY <1>1, <1>2, <1>3, <1>5 DEF DeviceCycle, DeviceExecuted, kAckPulseCycles
<1>7. e \in DeviceSm
  <2>1. PICK h : h = [g EXCEPT !.wait = n_wait] OBVIOUS
  <2>2. h \in DeviceSm BY <1>4, <2>1 DEF DeviceSm
  <2>3. e = [h EXCEPT !.pull_ack = 1] BY <1>4, <1>6, <2>1, <2>2 DEF DeviceSm
  <2> QED BY <2>2, <2>3, AckPulled
<1>8. /\ e.pc = g.pc /\ e.wait = n_wait /\ e.x = g.x /\ e.y = g.y /\ e.osr = g.osr
      /\ e.isr = g.isr /\ e.tx = g.tx /\ e.rx = g.rx /\ e.pull_data = g.pull_data /\ e.pull_ack = 1
  BY <1>4, <1>6 DEF DeviceSm
<1> QED BY <1>1, <1>2, <1>5, <1>7, <1>8

(* `ack_high` releases it. *)
LEMMA DeviceAckHigh ==
    ASSUME NEW d \in DeviceSm, NEW c \in Bit, NEW m \in Bit,
           d.wait = 0, d.pc = "ack_high"
    PROVE  LET e == DeviceCycle(d, c, m)
           IN  /\ e \in DeviceSm /\ e.pc = "set_y" /\ e.wait = d.wait /\ e.x = d.x /\ e.y = d.y
               /\ e.osr = d.osr /\ e.isr = d.isr /\ e.tx = d.tx /\ e.rx = d.rx
               /\ e.pull_data = d.pull_data /\ e.pull_ack = 0
<1>1. PICK e : e = DeviceCycle(d, c, m) OBVIOUS
<1>2. PICK g : g = [d EXCEPT !.pc = "set_y"] OBVIOUS
<1>3. g \in DeviceSm
  BY <1>2 DEF DeviceSm
<1>4. /\ g.pc = "set_y" /\ g.wait = d.wait /\ g.x = d.x /\ g.y = d.y /\ g.osr = d.osr
      /\ g.isr = d.isr /\ g.tx = d.tx /\ g.rx = d.rx /\ g.pull_data = d.pull_data /\ g.pull_ack = d.pull_ack
  BY <1>2 DEF DeviceSm
<1>5. e = [g EXCEPT !.pull_ack = 0]
  BY <1>1, <1>2, <1>4 DEF DeviceCycle, DeviceExecuted
<1>6. e \in DeviceSm
  BY <1>3, <1>5, ZenonT(60) DEF DeviceSm, Bit
<1>7. /\ e.pc = g.pc /\ e.wait = g.wait /\ e.x = g.x /\ e.y = g.y /\ e.osr = g.osr
      /\ e.isr = g.isr /\ e.tx = g.tx /\ e.rx = g.rx /\ e.pull_data = g.pull_data /\ e.pull_ack = 0
  BY <1>3, <1>5 DEF DeviceSm
<1> QED BY <1>1, <1>4, <1>6, <1>7

(* `set_y` loads the bit counter. *)
LEMMA DeviceSetY ==
    ASSUME NEW d \in DeviceSm, NEW c \in Bit, NEW m \in Bit,
           d.wait = 0, d.pc = "set_y"
    PROVE  LET e == DeviceCycle(d, c, m)
           IN  /\ e \in DeviceSm /\ e.pc = "wait_low" /\ e.wait = d.wait /\ e.x = d.x /\ e.y = kWireBitsPerByte - 1
               /\ e.osr = d.osr /\ e.isr = d.isr /\ e.tx = d.tx /\ e.rx = d.rx
               /\ e.pull_data = d.pull_data /\ e.pull_ack = d.pull_ack
<1>1. PICK e : e = DeviceCycle(d, c, m) OBVIOUS
<1>2. PICK n_y \in 0 .. kWireBitsPerByte - 1 : n_y = kWireBitsPerByte - 1
  BY Widths
<1>3. PICK g : g = [d EXCEPT !.pc = "wait_low"] OBVIOUS
<1>4. g \in DeviceSm
  BY <1>3 DEF DeviceSm
<1>5. /\ g.pc = "wait_low" /\ g.wait = d.wait /\ g.x = d.x /\ g.y = d.y /\ g.osr = d.osr
      /\ g.isr = d.isr /\ g.tx = d.tx /\ g.rx = d.rx /\ g.pull_data = d.pull_data /\ g.pull_ack = d.pull_ack
  BY <1>3 DEF DeviceSm
<1>6. e = [g EXCEPT !.y = n_y]
  BY <1>1, <1>2, <1>3, <1>5 DEF DeviceCycle, DeviceExecuted
<1>7. e \in DeviceSm
  BY <1>4, <1>6 DEF DeviceSm
<1>8. /\ e.pc = g.pc /\ e.wait = g.wait /\ e.x = g.x /\ e.y = n_y /\ e.osr = g.osr
      /\ e.isr = g.isr /\ e.tx = g.tx /\ e.rx = g.rx /\ e.pull_data = g.pull_data /\ e.pull_ack = g.pull_ack
  BY <1>4, <1>6 DEF DeviceSm
<1> QED BY <1>1, <1>2, <1>5, <1>7, <1>8

(* `wait_low` waits while CLK is high ... *)
LEMMA DeviceWaitsLow ==
    ASSUME NEW d \in DeviceSm, NEW c \in Bit, NEW m \in Bit, d.wait = 0, d.pc = "wait_low", c = 1
    PROVE  DeviceCycle(d, c, m) = d
BY DEF DeviceCycle, DeviceExecuted, Bit

(* ... and goes on when it falls. *)
LEMMA DeviceSeesLow ==
    ASSUME NEW d \in DeviceSm, NEW c \in Bit, NEW m \in Bit,
           d.wait = 0, d.pc = "wait_low", c = 0
    PROVE  LET e == DeviceCycle(d, c, m)
           IN  /\ e \in DeviceSm /\ e.pc = "out" /\ e.wait = d.wait /\ e.x = d.x /\ e.y = d.y
               /\ e.osr = d.osr /\ e.isr = d.isr /\ e.tx = d.tx /\ e.rx = d.rx
               /\ e.pull_data = d.pull_data /\ e.pull_ack = d.pull_ack
<1>1. PICK e : e = DeviceCycle(d, c, m) OBVIOUS
<1>2. PICK g : g = [d EXCEPT !.pc = "out"] OBVIOUS
<1>3. g \in DeviceSm
  BY <1>2 DEF DeviceSm
<1>4. /\ g.pc = "out" /\ g.wait = d.wait /\ g.x = d.x /\ g.y = d.y /\ g.osr = d.osr
      /\ g.isr = d.isr /\ g.tx = d.tx /\ g.rx = d.rx /\ g.pull_data = d.pull_data /\ g.pull_ack = d.pull_ack
  BY <1>2 DEF DeviceSm
<1>5. e = g
  BY <1>1, <1>2, <1>4 DEF DeviceCycle, DeviceExecuted
<1>6. e \in DeviceSm
  BY <1>3, <1>5 DEF DeviceSm
<1>7. /\ e.pc = g.pc /\ e.wait = g.wait /\ e.x = g.x /\ e.y = g.y /\ e.osr = g.osr
      /\ e.isr = g.isr /\ e.tx = g.tx /\ e.rx = g.rx /\ e.pull_data = g.pull_data /\ e.pull_ack = g.pull_ack
  BY <1>3, <1>5 DEF DeviceSm
<1> QED BY <1>1, <1>4, <1>6, <1>7

(* `out` puts the next bit on DATA. *)
LEMMA DeviceOut ==
    ASSUME NEW d \in DeviceSm, NEW c \in Bit, NEW m \in Bit,
           d.wait = 0, d.pc = "out", d.osr # <<>>
    PROVE  LET e == DeviceCycle(d, c, m)
           IN  /\ e \in DeviceSm /\ e.pc = "wait_high" /\ e.wait = d.wait /\ e.x = d.x /\ e.y = d.y
               /\ e.osr = Tail(d.osr) /\ e.isr = d.isr /\ e.tx = d.tx /\ e.rx = d.rx
               /\ e.pull_data = Head(d.osr) /\ e.pull_ack = d.pull_ack
<1>1. PICK e : e = DeviceCycle(d, c, m) OBVIOUS
<1>2. PICK n_pull_data \in Bit : n_pull_data = Head(d.osr)
  <2>1. d.osr \in Seq(Bit) BY DEF DeviceSm
  <2>2. Head(d.osr) \in Bit BY <2>1, HeadTailProperties
  <2> QED BY <2>2
<1>3. PICK n_osr \in Seq(Bit) : n_osr = Tail(d.osr)
  <2>1. d.osr \in Seq(Bit) BY DEF DeviceSm
  <2>2. Tail(d.osr) \in Seq(Bit) BY <2>1, HeadTailProperties
  <2> QED BY <2>2
<1>4. PICK g : g = [d EXCEPT !.pc = "wait_high"] OBVIOUS
<1>5. g \in DeviceSm
  BY <1>4 DEF DeviceSm
<1>6. /\ g.pc = "wait_high" /\ g.wait = d.wait /\ g.x = d.x /\ g.y = d.y /\ g.osr = d.osr
      /\ g.isr = d.isr /\ g.tx = d.tx /\ g.rx = d.rx /\ g.pull_data = d.pull_data /\ g.pull_ack = d.pull_ack
  BY <1>4 DEF DeviceSm
<1>7. e = [g EXCEPT !.pull_data = n_pull_data, !.osr = n_osr]
  BY <1>1, <1>2, <1>3, <1>4, <1>6 DEF DeviceCycle, DeviceExecuted
<1>8. e \in DeviceSm
  BY <1>5, <1>7 DEF DeviceSm
<1>9. /\ e.pc = g.pc /\ e.wait = g.wait /\ e.x = g.x /\ e.y = g.y /\ e.osr = n_osr
      /\ e.isr = g.isr /\ e.tx = g.tx /\ e.rx = g.rx /\ e.pull_data = n_pull_data /\ e.pull_ack = g.pull_ack
  BY <1>5, <1>7 DEF DeviceSm
<1> QED BY <1>1, <1>2, <1>3, <1>6, <1>8, <1>9

(* `wait_high` waits while CLK is low ... *)
LEMMA DeviceWaitsHigh ==
    ASSUME NEW d \in DeviceSm, NEW c \in Bit, NEW m \in Bit, d.wait = 0, d.pc = "wait_high", c = 0
    PROVE  DeviceCycle(d, c, m) = d
BY DEF DeviceCycle, DeviceExecuted, Bit

(* ... and goes on when it rises. *)
LEMMA DeviceSeesHigh ==
    ASSUME NEW d \in DeviceSm, NEW c \in Bit, NEW m \in Bit,
           d.wait = 0, d.pc = "wait_high", c = 1
    PROVE  LET e == DeviceCycle(d, c, m)
           IN  /\ e \in DeviceSm /\ e.pc = "in" /\ e.wait = d.wait /\ e.x = d.x /\ e.y = d.y
               /\ e.osr = d.osr /\ e.isr = d.isr /\ e.tx = d.tx /\ e.rx = d.rx
               /\ e.pull_data = d.pull_data /\ e.pull_ack = d.pull_ack
<1>1. PICK e : e = DeviceCycle(d, c, m) OBVIOUS
<1>2. PICK g : g = [d EXCEPT !.pc = "in"] OBVIOUS
<1>3. g \in DeviceSm
  BY <1>2 DEF DeviceSm
<1>4. /\ g.pc = "in" /\ g.wait = d.wait /\ g.x = d.x /\ g.y = d.y /\ g.osr = d.osr
      /\ g.isr = d.isr /\ g.tx = d.tx /\ g.rx = d.rx /\ g.pull_data = d.pull_data /\ g.pull_ack = d.pull_ack
  BY <1>2 DEF DeviceSm
<1>5. e = g
  BY <1>1, <1>2, <1>4 DEF DeviceCycle, DeviceExecuted
<1>6. e \in DeviceSm
  BY <1>3, <1>5 DEF DeviceSm
<1>7. /\ e.pc = g.pc /\ e.wait = g.wait /\ e.x = g.x /\ e.y = g.y /\ e.osr = g.osr
      /\ e.isr = g.isr /\ e.tx = g.tx /\ e.rx = g.rx /\ e.pull_data = g.pull_data /\ e.pull_ack = g.pull_ack
  BY <1>3, <1>5 DEF DeviceSm
<1> QED BY <1>1, <1>4, <1>6, <1>7

(* `in` samples CMD. *)
LEMMA DeviceIn ==
    ASSUME NEW d \in DeviceSm, NEW c \in Bit, NEW m \in Bit,
           d.wait = 0, d.pc = "in"
    PROVE  LET e == DeviceCycle(d, c, m)
           IN  /\ e \in DeviceSm /\ e.pc = "jmp_y" /\ e.wait = d.wait /\ e.x = d.x /\ e.y = d.y
               /\ e.osr = d.osr /\ e.isr = Append(d.isr, m) /\ e.tx = d.tx /\ e.rx = d.rx
               /\ e.pull_data = d.pull_data /\ e.pull_ack = d.pull_ack
<1>1. PICK e : e = DeviceCycle(d, c, m) OBVIOUS
<1>2. PICK n_isr \in Seq(Bit) : n_isr = Append(d.isr, m)
  <2>1. d.isr \in Seq(Bit) BY DEF DeviceSm
  <2>2. Append(d.isr, m) \in Seq(Bit) BY <2>1, AppendProperties
  <2> QED BY <2>2
<1>3. PICK g : g = [d EXCEPT !.pc = "jmp_y"] OBVIOUS
<1>4. g \in DeviceSm
  BY <1>3 DEF DeviceSm
<1>5. /\ g.pc = "jmp_y" /\ g.wait = d.wait /\ g.x = d.x /\ g.y = d.y /\ g.osr = d.osr
      /\ g.isr = d.isr /\ g.tx = d.tx /\ g.rx = d.rx /\ g.pull_data = d.pull_data /\ g.pull_ack = d.pull_ack
  BY <1>3 DEF DeviceSm
<1>6. e = [g EXCEPT !.isr = n_isr]
  BY <1>1, <1>2, <1>3, <1>5 DEF DeviceCycle, DeviceExecuted
<1>7. e \in DeviceSm
  BY <1>4, <1>6 DEF DeviceSm
<1>8. /\ e.pc = g.pc /\ e.wait = g.wait /\ e.x = g.x /\ e.y = g.y /\ e.osr = g.osr
      /\ e.isr = n_isr /\ e.tx = g.tx /\ e.rx = g.rx /\ e.pull_data = g.pull_data /\ e.pull_ack = g.pull_ack
  BY <1>4, <1>6 DEF DeviceSm
<1> QED BY <1>1, <1>2, <1>5, <1>7, <1>8

(* `jmp_y` goes on after the last bit ... *)
LEMMA DeviceJmpsOn ==
    ASSUME NEW d \in DeviceSm, NEW c \in Bit, NEW m \in Bit,
           d.wait = 0, d.pc = "jmp_y", d.y = 0
    PROVE  LET e == DeviceCycle(d, c, m)
           IN  /\ e \in DeviceSm /\ e.pc = "mov" /\ e.wait = d.wait /\ e.x = d.x /\ e.y = d.y
               /\ e.osr = d.osr /\ e.isr = d.isr /\ e.tx = d.tx /\ e.rx = d.rx
               /\ e.pull_data = d.pull_data /\ e.pull_ack = d.pull_ack
<1>1. PICK e : e = DeviceCycle(d, c, m) OBVIOUS
<1>2. PICK g : g = [d EXCEPT !.pc = "mov"] OBVIOUS
<1>3. g \in DeviceSm
  BY <1>2 DEF DeviceSm
<1>4. /\ g.pc = "mov" /\ g.wait = d.wait /\ g.x = d.x /\ g.y = d.y /\ g.osr = d.osr
      /\ g.isr = d.isr /\ g.tx = d.tx /\ g.rx = d.rx /\ g.pull_data = d.pull_data /\ g.pull_ack = d.pull_ack
  BY <1>2 DEF DeviceSm
<1>5. e = g
  BY <1>1, <1>2, <1>4 DEF DeviceCycle, DeviceExecuted
<1>6. e \in DeviceSm
  BY <1>3, <1>5 DEF DeviceSm
<1>7. /\ e.pc = g.pc /\ e.wait = g.wait /\ e.x = g.x /\ e.y = g.y /\ e.osr = g.osr
      /\ e.isr = g.isr /\ e.tx = g.tx /\ e.rx = g.rx /\ e.pull_data = g.pull_data /\ e.pull_ack = g.pull_ack
  BY <1>3, <1>5 DEF DeviceSm
<1> QED BY <1>1, <1>4, <1>6, <1>7

(* ... and back before it. *)
LEMMA DeviceJmpsBack ==
    ASSUME NEW d \in DeviceSm, NEW c \in Bit, NEW m \in Bit,
           d.wait = 0, d.pc = "jmp_y", d.y # 0
    PROVE  LET e == DeviceCycle(d, c, m)
           IN  /\ e \in DeviceSm /\ e.pc = "wait_low" /\ e.wait = d.wait /\ e.x = d.x /\ e.y = d.y - 1
               /\ e.osr = d.osr /\ e.isr = d.isr /\ e.tx = d.tx /\ e.rx = d.rx
               /\ e.pull_data = d.pull_data /\ e.pull_ack = d.pull_ack
<1>1. PICK e : e = DeviceCycle(d, c, m) OBVIOUS
<1>2. PICK n_y \in 0 .. kWireBitsPerByte - 1 : n_y = d.y - 1
  BY Widths DEF DeviceSm
<1>3. PICK g : g = [d EXCEPT !.pc = "wait_low"] OBVIOUS
<1>4. g \in DeviceSm
  BY <1>3 DEF DeviceSm
<1>5. /\ g.pc = "wait_low" /\ g.wait = d.wait /\ g.x = d.x /\ g.y = d.y /\ g.osr = d.osr
      /\ g.isr = d.isr /\ g.tx = d.tx /\ g.rx = d.rx /\ g.pull_data = d.pull_data /\ g.pull_ack = d.pull_ack
  BY <1>3 DEF DeviceSm
<1>6. e = [g EXCEPT !.y = n_y]
  BY <1>1, <1>2, <1>3, <1>5 DEF DeviceCycle, DeviceExecuted
<1>7. e \in DeviceSm
  BY <1>4, <1>6 DEF DeviceSm
<1>8. /\ e.pc = g.pc /\ e.wait = g.wait /\ e.x = g.x /\ e.y = n_y /\ e.osr = g.osr
      /\ e.isr = g.isr /\ e.tx = g.tx /\ e.rx = g.rx /\ e.pull_data = g.pull_data /\ e.pull_ack = g.pull_ack
  BY <1>4, <1>6 DEF DeviceSm
<1> QED BY <1>1, <1>2, <1>5, <1>7, <1>8

(* `mov` prepares the release of DATA. *)
LEMMA DeviceMov ==
    ASSUME NEW d \in DeviceSm, NEW c \in Bit, NEW m \in Bit,
           d.wait = 0, d.pc = "mov"
    PROVE  LET e == DeviceCycle(d, c, m)
           IN  /\ e \in DeviceSm /\ e.pc = "release" /\ e.wait = d.wait /\ e.x = d.x /\ e.y = d.y
               /\ e.osr = <<0>> /\ e.isr = d.isr /\ e.tx = d.tx /\ e.rx = d.rx
               /\ e.pull_data = d.pull_data /\ e.pull_ack = d.pull_ack
<1>1. PICK e : e = DeviceCycle(d, c, m) OBVIOUS
<1>2. PICK n_osr \in Seq(Bit) : n_osr = <<0>>
  <2>1. 0 \in Bit BY DEF Bit
  <2>2. <<0>> \in Seq(Bit) BY <2>1
  <2> QED BY <2>2
<1>3. PICK g : g = [d EXCEPT !.pc = "release"] OBVIOUS
<1>4. g \in DeviceSm
  BY <1>3 DEF DeviceSm
<1>5. /\ g.pc = "release" /\ g.wait = d.wait /\ g.x = d.x /\ g.y = d.y /\ g.osr = d.osr
      /\ g.isr = d.isr /\ g.tx = d.tx /\ g.rx = d.rx /\ g.pull_data = d.pull_data /\ g.pull_ack = d.pull_ack
  BY <1>3 DEF DeviceSm
<1>6. e = [g EXCEPT !.osr = n_osr]
  BY <1>1, <1>2, <1>3, <1>5 DEF DeviceCycle, DeviceExecuted
<1>7. e \in DeviceSm
  BY <1>4, <1>6 DEF DeviceSm
<1>8. /\ e.pc = g.pc /\ e.wait = g.wait /\ e.x = g.x /\ e.y = g.y /\ e.osr = n_osr
      /\ e.isr = g.isr /\ e.tx = g.tx /\ e.rx = g.rx /\ e.pull_data = g.pull_data /\ e.pull_ack = g.pull_ack
  BY <1>4, <1>6 DEF DeviceSm
<1> QED BY <1>1, <1>2, <1>5, <1>7, <1>8

(* `release` releases it. *)
LEMMA DeviceRelease ==
    ASSUME NEW d \in DeviceSm, NEW c \in Bit, NEW m \in Bit,
           d.wait = 0, d.pc = "release", d.osr # <<>>
    PROVE  LET e == DeviceCycle(d, c, m)
           IN  /\ e \in DeviceSm /\ e.pc = "push" /\ e.wait = d.wait /\ e.x = d.x /\ e.y = d.y
               /\ e.osr = Tail(d.osr) /\ e.isr = d.isr /\ e.tx = d.tx /\ e.rx = d.rx
               /\ e.pull_data = Head(d.osr) /\ e.pull_ack = d.pull_ack
<1>1. PICK e : e = DeviceCycle(d, c, m) OBVIOUS
<1>2. PICK n_pull_data \in Bit : n_pull_data = Head(d.osr)
  <2>1. d.osr \in Seq(Bit) BY DEF DeviceSm
  <2>2. Head(d.osr) \in Bit BY <2>1, HeadTailProperties
  <2> QED BY <2>2
<1>3. PICK n_osr \in Seq(Bit) : n_osr = Tail(d.osr)
  <2>1. d.osr \in Seq(Bit) BY DEF DeviceSm
  <2>2. Tail(d.osr) \in Seq(Bit) BY <2>1, HeadTailProperties
  <2> QED BY <2>2
<1>4. PICK g : g = [d EXCEPT !.pc = "push"] OBVIOUS
<1>5. g \in DeviceSm
  BY <1>4 DEF DeviceSm
<1>6. /\ g.pc = "push" /\ g.wait = d.wait /\ g.x = d.x /\ g.y = d.y /\ g.osr = d.osr
      /\ g.isr = d.isr /\ g.tx = d.tx /\ g.rx = d.rx /\ g.pull_data = d.pull_data /\ g.pull_ack = d.pull_ack
  BY <1>4 DEF DeviceSm
<1>7. e = [g EXCEPT !.pull_data = n_pull_data, !.osr = n_osr]
  BY <1>1, <1>2, <1>3, <1>4, <1>6 DEF DeviceCycle, DeviceExecuted
<1>8. e \in DeviceSm
  BY <1>5, <1>7 DEF DeviceSm
<1>9. /\ e.pc = g.pc /\ e.wait = g.wait /\ e.x = g.x /\ e.y = g.y /\ e.osr = n_osr
      /\ e.isr = g.isr /\ e.tx = g.tx /\ e.rx = g.rx /\ e.pull_data = n_pull_data /\ e.pull_ack = g.pull_ack
  BY <1>5, <1>7 DEF DeviceSm
<1> QED BY <1>1, <1>2, <1>3, <1>6, <1>8, <1>9

(* `push` puts the byte into an empty FIFO. *)
LEMMA DevicePushes ==
    ASSUME NEW d \in DeviceSm, NEW c \in Bit, NEW m \in Bit,
           d.wait = 0, d.pc = "push", d.rx = <<>>, d.isr \in Bits
    PROVE  LET e == DeviceCycle(d, c, m)
           IN  /\ e \in DeviceSm /\ e.pc = "pull" /\ e.wait = d.wait /\ e.x = d.x /\ e.y = d.y
               /\ e.osr = d.osr /\ e.isr = <<>> /\ e.tx = d.tx /\ e.rx = <<d.isr>>
               /\ e.pull_data = d.pull_data /\ e.pull_ack = d.pull_ack
<1>1. PICK e : e = DeviceCycle(d, c, m) OBVIOUS
<1>2. PICK n_rx \in Seq(Bits) : n_rx = <<d.isr>>
  <2>1. <<d.isr>> \in Seq(Bits) OBVIOUS
  <2> QED BY <2>1
<1>3. PICK n_isr \in Seq(Bit) : n_isr = <<>>
  <2>1. <<>> \in Seq(Bit) OBVIOUS
  <2> QED BY <2>1
<1>4. PICK g : g = [d EXCEPT !.pc = "pull"] OBVIOUS
<1>5. g \in DeviceSm
  BY <1>4 DEF DeviceSm
<1>6. /\ g.pc = "pull" /\ g.wait = d.wait /\ g.x = d.x /\ g.y = d.y /\ g.osr = d.osr
      /\ g.isr = d.isr /\ g.tx = d.tx /\ g.rx = d.rx /\ g.pull_data = d.pull_data /\ g.pull_ack = d.pull_ack
  BY <1>4 DEF DeviceSm
<1>7. e = [g EXCEPT !.rx = n_rx, !.isr = n_isr]
  <2>1. ShiftedByte(d.isr) = d.isr
    <3>1. Len(d.isr) = kWireBitsPerByte /\ SubSeq(d.isr, 1, kWireBitsPerByte) = d.isr BY AByte
    <3>2. kWireBitsPerByte - kWireBitsPerByte + 1 = 1 BY Widths
    <3> QED BY <3>1, <3>2 DEF ShiftedByte
  <2>2. Len(d.rx) # kFifoDepth BY DEF kFifoDepth
  <2>3. Append(g.rx, ShiftedByte(d.isr)) = n_rx BY <1>2, <1>6, <2>1
  <2>4. DeviceExecuted(d, c, m) = [g EXCEPT !.rx = Append(g.rx, ShiftedByte(d.isr)), !.isr = <<>>]
    BY <1>4, <2>2 DEF DeviceExecuted
  <2>5. DeviceExecuted(d, c, m) = [g EXCEPT !.rx = n_rx, !.isr = n_isr]
    BY <1>3, <2>3, <2>4
  <2> QED BY <1>1, <2>5 DEF DeviceCycle
<1>8. e \in DeviceSm
  BY <1>5, <1>7 DEF DeviceSm
<1>9. /\ e.pc = g.pc /\ e.wait = g.wait /\ e.x = g.x /\ e.y = g.y /\ e.osr = g.osr
      /\ e.isr = n_isr /\ e.tx = g.tx /\ e.rx = n_rx /\ e.pull_data = g.pull_data /\ e.pull_ack = g.pull_ack
  BY <1>5, <1>7 DEF DeviceSm
<1> QED BY <1>1, <1>2, <1>3, <1>6, <1>8, <1>9

(* Between instructions only the delay runs. *)
LEMMA DeviceWaits ==
    ASSUME NEW d \in DeviceSm, NEW c \in Bit, NEW m \in Bit, d.wait # 0
    PROVE  LET e == DeviceCycle(d, c, m)
           IN  /\ e \in DeviceSm /\ e.pc = d.pc /\ e.wait = d.wait - 1 /\ e.x = d.x /\ e.y = d.y
               /\ e.osr = d.osr /\ e.isr = d.isr /\ e.tx = d.tx /\ e.rx = d.rx
               /\ e.pull_data = d.pull_data /\ e.pull_ack = d.pull_ack
<1>1. PICK e : e = DeviceCycle(d, c, m) OBVIOUS
<1>2. PICK w \in 0 .. kAckPulseCycles - 1 : w = d.wait - 1
  BY Widths DEF DeviceSm, kAckPulseCycles
<1>3. d.wait > 0 BY Widths DEF DeviceSm, kAckPulseCycles
<1>4. e = [d EXCEPT !.wait = w] BY <1>1, <1>2, <1>3 DEF DeviceCycle
<1>5. e \in DeviceSm /\ e.pc = d.pc /\ e.wait = w /\ e.x = d.x /\ e.y = d.y /\ e.osr = d.osr
      /\ e.isr = d.isr /\ e.tx = d.tx /\ e.rx = d.rx /\ e.pull_data = d.pull_data
      /\ e.pull_ack = d.pull_ack
  BY <1>4 DEF DeviceSm
<1> QED BY <1>1, <1>2, <1>5

(* Bits the master has sampled, and the device. *)
Sampled == Len(master.isr)
Heard   == Len(device.isr)

Flag == IF waits THEN 1 ELSE 0
Word == OutWord(sent, Flag)

-----------------------------------------------------------------------------
Typed ==
    /\ master \in MasterSm /\ device \in DeviceSm
    /\ mcpu \in {"idle", "wait", "poll", "recover"}
    /\ index \in 0 .. FrameLen - 1
    /\ sent \in Bits /\ waits \in BOOLEAN /\ timer \in Nat
    /\ ecpu \in {"listen", "print", "serve", "answer"}
    /\ reply \in [next : Bits, should_ack : BOOLEAN] /\ loaded \in Bits
    /\ delay \in Nat /\ ack_delay_us \in AckDelays
    /\ late \in BOOLEAN
    /\ lag \in [{"master", "emulator"} -> 0 .. kLagCycles]

(* What its FIFOs hold while a byte is under way. *)
MasterFifos ==
    /\ ~UnderWay => master.pc = "pull" /\ master.tx = <<>> /\ master.rx = <<>>
    /\ UnderWay /\ master.pc = "pull" =>
          \/ master.tx = <<Word>> /\ master.rx = <<>>
          \/ master.tx = <<>> /\ Len(master.rx) = 1

MasterHolds == MasterAt(master, sent, Flag) /\ MasterFifos

Prelude == {"pull", "out_x", "jmp_x", "set_y"}
Pulse == {"ack_low", "ack_high"}

(* What the device's program holds, with a byte loaded. *)
DeviceAt(d, byte) ==
    /\ d.pc # "ack_high" => d.wait = 0
    /\ d.pc # "pull" => d.tx = <<>> /\ d.rx = <<>>
    /\ d.pc = "pull" /\ d.tx # <<>> =>
          /\ d.rx = <<>>
          /\ \E acks \in BOOLEAN : d.tx = <<word_for(byte, acks)>>
    /\ Len(d.rx) <= 1
    /\ d.pull_ack = (IF d.pc = "ack_high" THEN 1 ELSE 0)
    /\ byte = kReleasedByte => d.pull_data = 0
    /\ d.pc \in Prelude \cup Pulse => d.isr = <<>> /\ d.pull_data = 0
    /\ d.pc = "out_x" => \E acks \in BOOLEAN : d.osr = word_for(byte, acks)
    /\ d.pc \in {"jmp_x", "ack_low", "ack_high", "set_y"} => d.osr = Pulls(byte)
    /\ d.pc \in {"wait_low", "out"} =>
          /\ Len(d.isr) < kWireBitsPerByte /\ d.y = kWireBitsPerByte - 1 - Len(d.isr)
          /\ d.osr = SubSeq(Pulls(byte), Len(d.isr) + 1, kWireBitsPerByte)
    /\ d.pc \in {"wait_high", "in"} =>
          /\ Len(d.isr) < kWireBitsPerByte /\ d.y = kWireBitsPerByte - 1 - Len(d.isr)
          /\ d.osr = SubSeq(Pulls(byte), Len(d.isr) + 2, kWireBitsPerByte)
          /\ d.pull_data = 1 - byte[Len(d.isr) + 1]
    /\ d.pc = "jmp_y" =>
          /\ Len(d.isr) \in 1 .. kWireBitsPerByte /\ d.y = kWireBitsPerByte - Len(d.isr)
          /\ d.osr = SubSeq(Pulls(byte), Len(d.isr) + 1, kWireBitsPerByte)
    /\ d.pc \in {"mov", "release", "push"} => Len(d.isr) = kWireBitsPerByte
    /\ d.pc = "release" => d.osr = <<0>>
    /\ d.pc = "push" => d.pull_data = 0
    /\ d.pc \in Pulse => d.x = 1

DeviceHolds == DeviceAt(device, loaded)

-----------------------------------------------------------------------------
(* The lengths and levels are what their types say. *)
LEMMA Lengths ==
    ASSUME Typed
    PROVE  Sampled \in Nat /\ Heard \in Nat /\ data \in Bit /\ ack \in Bit
           /\ master.clk \in Bit /\ master.cmd \in Bit
<1>1. master.isr \in Seq(Bit) /\ device.isr \in Seq(Bit)
  BY DEF Typed, MasterSm, DeviceSm
<1>2. device.pull_data \in Bit /\ device.pull_ack \in Bit /\ master.clk \in Bit /\ master.cmd \in Bit
  BY DEF Typed, MasterSm, DeviceSm
<1> QED BY <1>1, <1>2 DEF Sampled, Heard, data, ack, Bit

DeviceGoes(d, e, c, m) ==
    \/ /\ d.wait # 0 /\ e.wait = d.wait - 1 /\ d.pc = "ack_high"
       /\ e.pc = d.pc /\ e.isr = d.isr /\ e.tx = d.tx /\ e.rx = d.rx /\ e.x = d.x
    \/ /\ d.wait = 0
       /\ d.pc \notin {"in", "push"} => e.isr = d.isr
       /\ d.pc # "push" => e.rx = d.rx
       /\ d.pc # "pull" => e.tx = d.tx
       /\ d.pc # "out_x" => e.x = d.x
       /\ \/ d.pc = "pull" /\ d.tx = <<>> /\ e = d
          \/ d.pc = "pull" /\ d.tx # <<>> /\ e.pc = "out_x" /\ e.tx = <<>>
             /\ Head(e.osr) = Head(d.tx)[1]
          \/ d.pc = "out_x" /\ e.pc = "jmp_x" /\ e.x = Head(d.osr)
          \/ d.pc = "jmp_x" /\ d.x = 0 /\ e.pc = "set_y"
          \/ d.pc = "jmp_x" /\ d.x = 1 /\ e.pc = "ack_low"
          \/ d.pc = "ack_low" /\ e.pc = "ack_high" /\ e.wait = 2 * kCyclesPerUs - 1
          \/ d.pc = "ack_high" /\ e.pc = "set_y"
          \/ d.pc = "set_y" /\ e.pc = "wait_low"
          \/ d.pc = "wait_low" /\ c = 1 /\ e.pc = "wait_low"
          \/ d.pc = "wait_low" /\ c = 0 /\ e.pc = "out"
          \/ d.pc = "out" /\ e.pc = "wait_high"
          \/ d.pc = "wait_high" /\ c = 0 /\ e.pc = "wait_high"
          \/ d.pc = "wait_high" /\ c = 1 /\ e.pc = "in"
          \/ d.pc = "in" /\ e.pc = "jmp_y" /\ e.isr = Append(d.isr, m)
          \/ d.pc = "jmp_y" /\ Len(d.isr) = kWireBitsPerByte /\ e.pc = "mov"
          \/ d.pc = "jmp_y" /\ Len(d.isr) < kWireBitsPerByte /\ e.pc = "wait_low"
          \/ d.pc = "mov" /\ e.pc = "release"
          \/ d.pc = "release" /\ e.pc = "push"
          \/ d.pc = "push" /\ e.pc = "pull" /\ e.isr = <<>> /\ e.rx = <<d.isr>>

(* A tick of the device's program. *)
LEMMA DeviceAtTick ==
    ASSUME NEW d \in DeviceSm, NEW byte \in Bits, DeviceAt(d, byte),
           NEW c \in Bit, NEW m \in Bit
    PROVE  LET e == DeviceCycle(d, c, m)
           IN  /\ e \in DeviceSm /\ DeviceAt(e, byte)
               /\ DeviceGoes(d, e, c, m)
<1>1. PICK e : e = DeviceCycle(d, c, m) OBVIOUS
<1>2. PICK p : p = Pulls(byte) OBVIOUS
<1>3. /\ p \in Seq(Bit) /\ Len(p) = kWireBitsPerByte
      /\ \A i \in 1 .. kWireBitsPerByte : p[i] = 1 - byte[i]
      /\ SubSeq(p, 1, kWireBitsPerByte) = p
  BY <1>2, SomePulls, AByte
<1>4. PICK h \in Nat : h = Len(d.isr) BY DEF DeviceSm
<1>5. ASSUME NEW i \in 1 .. kWireBitsPerByte
      PROVE  /\ SubSeq(p, i, kWireBitsPerByte) # <<>>
             /\ Head(SubSeq(p, i, kWireBitsPerByte)) = p[i]
             /\ Tail(SubSeq(p, i, kWireBitsPerByte)) = SubSeq(p, i + 1, kWireBitsPerByte)
  BY <1>3, Rest
<1>6. CASE d.wait # 0
  <2>1. d.pc = "ack_high" BY <1>6 DEF DeviceAt
  <2>2. /\ e \in DeviceSm /\ e.pc = d.pc /\ e.wait = d.wait - 1 /\ e.x = d.x /\ e.y = d.y
        /\ e.osr = d.osr /\ e.isr = d.isr /\ e.tx = d.tx /\ e.rx = d.rx
        /\ e.pull_data = d.pull_data /\ e.pull_ack = d.pull_ack
    BY <1>1, <1>6, DeviceWaits
  <2>3. DeviceAt(e, byte) BY <2>1, <2>2 DEF DeviceAt, Prelude, Pulse
  <2> QED BY <1>1, <1>6, <2>1, <2>2, <2>3 DEF DeviceGoes
<1>7. CASE d.wait = 0 /\ d.pc = "pull" /\ d.tx = <<>>
  <2>1. e = d BY <1>1, <1>7, DevicePullsNone
  <2> QED BY <1>1, <1>7, <2>1 DEF DeviceGoes
<1>8. CASE d.wait = 0 /\ d.pc = "pull" /\ d.tx # <<>>
  <2>1. /\ e \in DeviceSm /\ e.pc = "out_x" /\ e.wait = d.wait /\ e.x = d.x
        /\ e.osr = Head(d.tx) /\ e.isr = d.isr /\ e.tx = Tail(d.tx) /\ e.rx = d.rx
        /\ e.pull_data = d.pull_data /\ e.pull_ack = d.pull_ack
    BY <1>1, <1>8, DevicePulls
  <2>2. PICK acks \in BOOLEAN : d.tx = <<word_for(byte, acks)>> BY <1>8 DEF DeviceAt
  <2>3. Head(d.tx) = word_for(byte, acks) /\ Tail(d.tx) = <<>> BY <2>2
  <2>4. Head(word_for(byte, acks)) = word_for(byte, acks)[1] BY ADeviceWord
  <2>5. d.rx = <<>> /\ d.isr = <<>> /\ d.pull_data = 0 /\ d.pull_ack = 0 BY <1>8 DEF DeviceAt, Prelude
  <2>6. DeviceAt(e, byte) BY <2>1, <2>3, <2>5, <1>8 DEF DeviceAt, Prelude, Pulse
  <2> QED BY <1>1, <1>8, <2>1, <2>3, <2>4, <2>6 DEF DeviceGoes
<1>9. CASE d.wait = 0 /\ d.pc = "out_x"
  <2>1. PICK acks \in BOOLEAN : d.osr = word_for(byte, acks) BY <1>9 DEF DeviceAt
  <2>2. d.osr # <<>> /\ Tail(d.osr) = p BY <2>1, <1>2, ADeviceWord
  <2>3. /\ e \in DeviceSm /\ e.pc = "jmp_x" /\ e.wait = d.wait /\ e.x = Head(d.osr)
        /\ e.osr = Tail(d.osr) /\ e.isr = d.isr /\ e.tx = d.tx /\ e.rx = d.rx
        /\ e.pull_data = d.pull_data /\ e.pull_ack = d.pull_ack
    BY <1>1, <1>9, <2>2, DeviceOutX
  <2>4. DeviceAt(e, byte) BY <2>2, <2>3, <1>2, <1>9 DEF DeviceAt, Prelude, Pulse
  <2> QED BY <1>1, <1>9, <2>3, <2>4 DEF DeviceGoes
<1>10. CASE d.wait = 0 /\ d.pc = "jmp_x"
  <2>1. CASE d.x = 0
    <3>1. /\ e \in DeviceSm /\ e.pc = "set_y" /\ e.wait = d.wait /\ e.x = d.x
          /\ e.osr = d.osr /\ e.isr = d.isr /\ e.tx = d.tx /\ e.rx = d.rx
          /\ e.pull_data = d.pull_data /\ e.pull_ack = d.pull_ack
      BY <1>1, <1>10, <2>1, DeviceJmpsX
    <3>2. DeviceAt(e, byte) BY <3>1, <1>10 DEF DeviceAt, Prelude, Pulse
    <3> QED BY <1>1, <1>10, <2>1, <3>1, <3>2 DEF DeviceGoes
  <2>2. CASE d.x = 1
    <3>1. /\ e \in DeviceSm /\ e.pc = "ack_low" /\ e.wait = d.wait /\ e.x = d.x
          /\ e.osr = d.osr /\ e.isr = d.isr /\ e.tx = d.tx /\ e.rx = d.rx
          /\ e.pull_data = d.pull_data /\ e.pull_ack = d.pull_ack
      BY <1>1, <1>10, <2>2, DeviceAcks
    <3>2. DeviceAt(e, byte) BY <3>1, <1>10, <2>2 DEF DeviceAt, Prelude, Pulse
    <3> QED BY <1>1, <1>10, <2>2, <3>1, <3>2 DEF DeviceGoes
  <2>3. d.x \in {0, 1} BY DEF DeviceSm, Bit
  <2> QED BY <2>1, <2>2, <2>3
<1>11. CASE d.wait = 0 /\ d.pc = "ack_low"
  <2>1. /\ e \in DeviceSm /\ e.pc = "ack_high" /\ e.wait = 2 * kCyclesPerUs - 1 /\ e.x = d.x
        /\ e.osr = d.osr /\ e.isr = d.isr /\ e.tx = d.tx /\ e.rx = d.rx
        /\ e.pull_data = d.pull_data /\ e.pull_ack = 1
    BY <1>1, <1>11, DeviceAckLow
  <2>2. DeviceAt(e, byte) BY <2>1, <1>11 DEF DeviceAt, Prelude, Pulse
  <2> QED BY <1>1, <1>11, <2>1, <2>2 DEF DeviceGoes
<1>12. CASE d.wait = 0 /\ d.pc = "ack_high"
  <2>1. /\ e \in DeviceSm /\ e.pc = "set_y" /\ e.wait = d.wait /\ e.x = d.x
        /\ e.osr = d.osr /\ e.isr = d.isr /\ e.tx = d.tx /\ e.rx = d.rx
        /\ e.pull_data = d.pull_data /\ e.pull_ack = 0
    BY <1>1, <1>12, DeviceAckHigh
  <2>2. DeviceAt(e, byte) BY <2>1, <1>12 DEF DeviceAt, Prelude, Pulse
  <2> QED BY <1>1, <1>12, <2>1, <2>2 DEF DeviceGoes
<1>13. CASE d.wait = 0 /\ d.pc = "set_y"
  <2>1. /\ e \in DeviceSm /\ e.pc = "wait_low" /\ e.wait = d.wait /\ e.x = d.x /\ e.y = kWireBitsPerByte - 1
        /\ e.osr = d.osr /\ e.isr = d.isr /\ e.tx = d.tx /\ e.rx = d.rx
        /\ e.pull_data = d.pull_data /\ e.pull_ack = d.pull_ack
    BY <1>1, <1>13, DeviceSetY
  <2>2. e.isr = <<>> /\ e.osr = p /\ e.pull_ack = 0 /\ e.pull_data = 0 /\ e.tx = <<>> /\ e.rx = <<>>
    BY <2>1, <1>2, <1>13 DEF DeviceAt, Prelude
  <2>3. Len(e.isr) < kWireBitsPerByte /\ e.y = kWireBitsPerByte - 1 - Len(e.isr) /\ Len(e.isr) + 1 = 1
    BY <2>1, <2>2, Widths
  <2>4. e.osr = SubSeq(Pulls(byte), Len(e.isr) + 1, kWireBitsPerByte) BY <2>2, <2>3, <1>2, <1>3
  <2>5. DeviceAt(e, byte)
    <3>1. e.pc = "wait_low" /\ e.wait = 0 BY <2>1, <1>13
    <3>2. Len(e.rx) <= 1 BY <2>2
    <3> QED BY <2>2, <2>3, <2>4, <3>1, <3>2 DEF DeviceAt, Prelude, Pulse
  <2> QED BY <1>1, <1>13, <2>1, <2>5 DEF DeviceGoes
<1>14. CASE d.wait = 0 /\ d.pc = "wait_low"
  <2>1. CASE c = 1
    <3>1. e = d BY <1>1, <1>14, <2>1, DeviceWaitsLow
    <3> QED BY <1>1, <1>14, <2>1, <3>1 DEF DeviceGoes
  <2>2. CASE c = 0
    <3>1. /\ e \in DeviceSm /\ e.pc = "out" /\ e.wait = d.wait /\ e.x = d.x /\ e.y = d.y
          /\ e.osr = d.osr /\ e.isr = d.isr /\ e.tx = d.tx /\ e.rx = d.rx
          /\ e.pull_data = d.pull_data /\ e.pull_ack = d.pull_ack
      BY <1>1, <1>14, <2>2, DeviceSeesLow
    <3>2. DeviceAt(e, byte) BY <3>1, <1>14 DEF DeviceAt, Prelude, Pulse
    <3> QED BY <1>1, <1>14, <2>2, <3>1, <3>2 DEF DeviceGoes
  <2> QED BY <2>1, <2>2 DEF Bit
<1>15. CASE d.wait = 0 /\ d.pc = "out"
  <2>1. h < kWireBitsPerByte /\ d.osr = SubSeq(p, h + 1, kWireBitsPerByte)
    BY <1>2, <1>4, <1>15 DEF DeviceAt
  <2>2. h + 1 \in 1 .. kWireBitsPerByte /\ h + 1 + 1 = h + 2 BY <1>4, <2>1, Widths
  <2>3. d.osr # <<>> /\ Head(d.osr) = 1 - byte[h + 1] /\ Tail(d.osr) = SubSeq(p, h + 2, kWireBitsPerByte)
    BY <2>1, <2>2, <1>3, <1>5
  <2>4. /\ e \in DeviceSm /\ e.pc = "wait_high" /\ e.wait = d.wait /\ e.x = d.x /\ e.y = d.y
        /\ e.osr = Tail(d.osr) /\ e.isr = d.isr /\ e.tx = d.tx /\ e.rx = d.rx
        /\ e.pull_data = Head(d.osr) /\ e.pull_ack = d.pull_ack
    BY <1>1, <1>15, <2>3, DeviceOut
  <2>5. byte = kReleasedByte => e.pull_data = 0
    <3>1. byte = kReleasedByte => byte[h + 1] = 1 BY <2>2, ReleasedIsByte
    <3> QED BY <3>1, <2>3, <2>4
  <2>6. DeviceAt(e, byte)
    BY <2>1, <2>3, <2>4, <2>5, <1>2, <1>4, <1>15 DEF DeviceAt, Prelude, Pulse
  <2> QED BY <1>1, <1>15, <2>4, <2>6 DEF DeviceGoes
<1>16. CASE d.wait = 0 /\ d.pc = "wait_high"
  <2>1. CASE c = 0
    <3>1. e = d BY <1>1, <1>16, <2>1, DeviceWaitsHigh
    <3> QED BY <1>1, <1>16, <2>1, <3>1 DEF DeviceGoes
  <2>2. CASE c = 1
    <3>1. /\ e \in DeviceSm /\ e.pc = "in" /\ e.wait = d.wait /\ e.x = d.x /\ e.y = d.y
          /\ e.osr = d.osr /\ e.isr = d.isr /\ e.tx = d.tx /\ e.rx = d.rx
          /\ e.pull_data = d.pull_data /\ e.pull_ack = d.pull_ack
      BY <1>1, <1>16, <2>2, DeviceSeesHigh
    <3>2. DeviceAt(e, byte) BY <3>1, <1>16 DEF DeviceAt, Prelude, Pulse
    <3> QED BY <1>1, <1>16, <2>2, <3>1, <3>2 DEF DeviceGoes
  <2> QED BY <2>1, <2>2 DEF Bit
<1>17. CASE d.wait = 0 /\ d.pc = "in"
  <2>1. h < kWireBitsPerByte /\ d.y = kWireBitsPerByte - 1 - h /\ d.osr = SubSeq(p, h + 2, kWireBitsPerByte)
    BY <1>2, <1>4, <1>17 DEF DeviceAt
  <2>2. /\ e \in DeviceSm /\ e.pc = "jmp_y" /\ e.wait = d.wait /\ e.x = d.x /\ e.y = d.y
        /\ e.osr = d.osr /\ e.isr = Append(d.isr, m) /\ e.tx = d.tx /\ e.rx = d.rx
        /\ e.pull_data = d.pull_data /\ e.pull_ack = d.pull_ack
    BY <1>1, <1>17, DeviceIn
  <2>3. Len(e.isr) = h + 1
    <3>1. d.isr \in Seq(Bit) BY DEF DeviceSm
    <3> QED BY <3>1, <2>2, <1>4, AppendProperties
  <2>4. h + 1 \in 1 .. kWireBitsPerByte /\ h + 1 + 1 = h + 2 /\ kWireBitsPerByte - 1 - h = kWireBitsPerByte - (h + 1)
    BY <1>4, <2>1, Widths
  <2>5. DeviceAt(e, byte)
    BY <2>1, <2>2, <2>3, <2>4, <1>2, <1>17 DEF DeviceAt, Prelude, Pulse
  <2> QED BY <1>1, <1>17, <2>2, <2>5 DEF DeviceGoes
<1>18. CASE d.wait = 0 /\ d.pc = "jmp_y"
  <2>1. h \in 1 .. kWireBitsPerByte /\ d.y = kWireBitsPerByte - h /\ d.osr = SubSeq(p, h + 1, kWireBitsPerByte)
    BY <1>2, <1>4, <1>18 DEF DeviceAt
  <2>2. CASE d.y = 0
    <3>1. h = kWireBitsPerByte BY <2>1, <2>2, Widths
    <3>2. /\ e \in DeviceSm /\ e.pc = "mov" /\ e.wait = d.wait /\ e.x = d.x
          /\ e.isr = d.isr /\ e.tx = d.tx /\ e.rx = d.rx
          /\ e.pull_data = d.pull_data /\ e.pull_ack = d.pull_ack
      BY <1>1, <1>18, <2>2, DeviceJmpsOn
    <3>3. DeviceAt(e, byte) BY <3>1, <3>2, <1>4, <1>18 DEF DeviceAt, Prelude, Pulse
    <3> QED BY <1>1, <1>4, <1>18, <3>1, <3>2, <3>3 DEF DeviceGoes
  <2>3. CASE d.y # 0
    <3>1. h < kWireBitsPerByte /\ d.y - 1 = kWireBitsPerByte - 1 - h BY <2>1, <2>3, Widths
    <3>2. /\ e \in DeviceSm /\ e.pc = "wait_low" /\ e.wait = d.wait /\ e.x = d.x /\ e.y = d.y - 1
          /\ e.osr = d.osr /\ e.isr = d.isr /\ e.tx = d.tx /\ e.rx = d.rx
          /\ e.pull_data = d.pull_data /\ e.pull_ack = d.pull_ack
      BY <1>1, <1>18, <2>3, DeviceJmpsBack
    <3>3. DeviceAt(e, byte) BY <2>1, <3>1, <3>2, <1>2, <1>4, <1>18 DEF DeviceAt, Prelude, Pulse
    <3> QED BY <1>1, <1>4, <1>18, <3>1, <3>2, <3>3 DEF DeviceGoes
  <2> QED BY <2>2, <2>3
<1>19. CASE d.wait = 0 /\ d.pc = "mov"
  <2>1. /\ e \in DeviceSm /\ e.pc = "release" /\ e.wait = d.wait /\ e.x = d.x
        /\ e.osr = <<0>> /\ e.isr = d.isr /\ e.tx = d.tx /\ e.rx = d.rx
        /\ e.pull_data = d.pull_data /\ e.pull_ack = d.pull_ack
    BY <1>1, <1>19, DeviceMov
  <2>2. DeviceAt(e, byte) BY <2>1, <1>19 DEF DeviceAt, Prelude, Pulse
  <2> QED BY <1>1, <1>19, <2>1, <2>2 DEF DeviceGoes
<1>20. CASE d.wait = 0 /\ d.pc = "release"
  <2>1. d.osr = <<0>> BY <1>20 DEF DeviceAt
  <2>2. d.osr # <<>> /\ Head(d.osr) = 0 BY <2>1
  <2>3. /\ e \in DeviceSm /\ e.pc = "push" /\ e.wait = d.wait /\ e.x = d.x
        /\ e.isr = d.isr /\ e.tx = d.tx /\ e.rx = d.rx
        /\ e.pull_data = Head(d.osr) /\ e.pull_ack = d.pull_ack
    BY <1>1, <1>20, <2>2, DeviceRelease
  <2>4. DeviceAt(e, byte) BY <2>2, <2>3, <1>20 DEF DeviceAt, Prelude, Pulse
  <2> QED BY <1>1, <1>20, <2>3, <2>4 DEF DeviceGoes
<1>21. CASE d.wait = 0 /\ d.pc = "push"
  <2>1. h = kWireBitsPerByte /\ d.rx = <<>> /\ d.tx = <<>> BY <1>4, <1>21 DEF DeviceAt
  <2>2. d.isr \in Bits
    <3>1. d.isr \in Seq(Bit) BY DEF DeviceSm
    <3> QED BY <3>1, <2>1, <1>4 DEF Bits
  <2>3. /\ e \in DeviceSm /\ e.pc = "pull" /\ e.wait = d.wait /\ e.x = d.x
        /\ e.isr = <<>> /\ e.tx = d.tx /\ e.rx = <<d.isr>>
        /\ e.pull_data = d.pull_data /\ e.pull_ack = d.pull_ack
    BY <1>1, <1>21, <2>1, <2>2, DevicePushes
  <2>4. DeviceAt(e, byte)
    <3>1. Len(e.rx) = 1 BY <2>3
    <3> QED BY <2>1, <2>3, <3>1, <1>21 DEF DeviceAt, Prelude, Pulse
  <2> QED BY <1>1, <1>21, <2>1, <2>3, <2>4 DEF DeviceGoes
<1>22. d.pc \in {"pull", "out_x", "jmp_x", "ack_low", "ack_high", "set_y", "wait_low",
                 "out", "wait_high", "in", "jmp_y", "mov", "release", "push"}
  BY DEF DeviceSm
<1> QED BY <1>6, <1>7, <1>8, <1>9, <1>10, <1>11, <1>12, <1>13, <1>14, <1>15, <1>16, <1>17,
           <1>18, <1>19, <1>20, <1>21, <1>22

(* The device was told to acknowledge, and has not begun to.                *)
Pending ==
    \/ device.pc = "pull" /\ device.tx # <<>> /\ Head(device.tx)[1] = 1
    \/ device.pc = "out_x" /\ Head(device.osr) = 1
    \/ device.pc = "jmp_x" /\ device.x = 1
    \/ device.pc = "ack_low"

(* It waits for the first edge of a byte.                                   *)
IsReady == device.pc = "wait_low" /\ Heard = 0

(* It owes no ACK, and has heard nothing of the byte to come.               *)
BeforeByte ==
    /\ ~Pending
    /\ device.pc \in Prelude \/ IsReady \/ device.pc = "ack_high"

(* It has heard some of a byte.                                             *)
Partial == device.pc \notin Prelude \cup Pulse /\ ~IsReady

(* The byte under way: handed over, being clocked, or clocked and heard.    *)
Starting ==
    /\ UnderWay
    /\ \/ master.pc = "pull" /\ master.tx # <<>>
       \/ master.pc = "set_x"
       \/ master.pc = "out" /\ Sampled = 0
Over == UnderWay /\ IsOver
Clocking == UnderWay /\ ~Starting /\ ~IsOver

-----------------------------------------------------------------------------
(* Between bytes. *)
CoupledIdle ==
    /\ ~UnderWay => device.pc \in Prelude \cup Pulse \cup {"wait_low"}
    /\ mcpu = "wait" => /\ BeforeByte
                        /\ device.pc = "ack_high" => device.wait < master.wait

(* A byte handed over: the device is ready for its first edge, or at an     *)
(* instruction that it has left in time.  One that was restarted since, and *)
(* one that is idle, need not be.                                           *)
InTime ==
    \/ IsReady
    \/ device.pc = "pull"  /\ timer <= 0
    \/ device.pc = "out_x" /\ timer <= 1
    \/ device.pc = "jmp_x" /\ timer <= 2
    \/ device.pc = "set_y" /\ (timer <= 3 \/ master.pc = "pull")
    \/ device.pc = "ack_high" /\ master.pc = "pull" /\ device.wait < master.wait

CoupledStart ==
    Starting =>
        \/ IsIdle(device)
        \/ BeforeByte /\ (IF late THEN device.pc # "ack_high" ELSE InTime)

(* Ticks since CLK fell, and since it rose.                                 *)
Fallen == 2 * kCyclesPerUs - 1 - master.wait
Risen  == kCyclesPerUs - 1 - master.wait

(* The device follows a tick behind each edge; one that was restarted under *)
(* the byte may be one more behind, and may have missed bits.               *)
Behind(ticks) == Risen = ticks \/ (late /\ Risen = ticks + 1)
AsMany  == IF late THEN Heard <= Sampled ELSE Heard = Sampled
OneLess == IF late THEN Heard < Sampled ELSE Heard + 1 = Sampled

CoupledLow ==
    \/ device.pc \in Prelude /\ late /\ ~Pending
    \/ device.pc = "wait_low" /\ AsMany /\ (late \/ Fallen = 0)
    \/ device.pc = "out" /\ AsMany /\ (IF late THEN Fallen >= 1 ELSE Fallen = 1)
    \/ device.pc = "wait_high" /\ AsMany /\ Fallen >= 2

CoupledHigh ==
    \/ device.pc \in Prelude /\ late /\ ~Pending
    \/ device.pc = "out" /\ OneLess /\ late /\ Risen = 0
    \/ device.pc = "wait_high" /\ OneLess /\ Behind(0)
    \/ device.pc = "in" /\ OneLess /\ Behind(1)
    \/ device.pc = "jmp_y" /\ AsMany /\ Behind(2)
    \/ device.pc = "wait_low" /\ AsMany /\ (late \/ Risen >= 3)
    \/ device.pc = "mov" /\ Heard = Sampled /\ Behind(3)
    \/ device.pc = "release" /\ Heard = Sampled /\ Behind(4)
    \/ device.pc = "push" /\ Heard = Sampled /\ Behind(5)

CoupledNext ==
    \/ device.pc \in Prelude /\ late /\ ~Pending
    \/ device.pc = "wait_low" /\ AsMany

CoupledClock ==
    Clocking =>
        \/ IsIdle(device) /\ master.pc \in {"in", "jmp_x", "out"}
        \/ master.pc = "in" /\ CoupledLow
        \/ master.pc = "jmp_x" /\ CoupledHigh
        \/ master.pc = "out" /\ CoupledNext

(* Ticks until the master first looks for an ACK, at the most.              *)
ToPoll ==
    IF master.pc = "wait_ack" THEN master.wait
    ELSE IF master.pc = "jmp_y" THEN master.wait + kCyclesPerUs
    ELSE IF master.pc = "out_y" THEN master.wait + 2 * kCyclesPerUs
    ELSE master.wait + 3 * kCyclesPerUs

BeforePush == master.pc \in {"jmp_x", "out_y", "jmp_y", "wait_ack"}

(* A byte clocked: an ACK that is to come lasts until the master has looked *)
(* for it, and one that it saw is over before it looks for the next.        *)
CoupledEnd ==
    Over =>
        /\ device.pc \in Prelude \cup Pulse \cup {"wait_low"}
        /\ device.pc = "wait_low" => late \/ Heard = 0
        /\ waits /\ Pending =>
             /\ BeforePush
             /\ \/ device.pc = "pull" /\ ToPoll <= 2 * kCyclesPerUs + 3
                \/ device.pc = "out_x" /\ ToPoll <= 2 * kCyclesPerUs + 2
                \/ device.pc = "jmp_x" /\ ToPoll <= 2 * kCyclesPerUs + 1
                \/ device.pc = "ack_low" /\ ToPoll <= 2 * kCyclesPerUs
        /\ waits /\ device.pc = "ack_high" =>
             \/ BeforePush /\ device.wait >= ToPoll
             \/ master.pc = "push" /\ device.wait < master.wait + kCyclesPerUs
             \/ master.pc = "pull" /\ device.wait < master.wait
        /\ waits /\ ~BeforePush => device.pc \in {"ack_high", "set_y"} \/ IsReady

(* What the bits clocked so far are.                                        *)
Content ==
    Clocking =>
        /\ master.isr = SubSeq(IF IsIdle(device) THEN kReleasedByte ELSE loaded, 1, Sampled)
        /\ ~late /\ ~IsIdle(device) => device.isr = SubSeq(sent, 1, Heard)
        /\ Partial /\ (Heard = Sampled \/ (master.pc = "jmp_x" /\ Heard + 1 = Sampled /\ device.pc \in {"out", "wait_high", "in"}))
              => device.isr = SubSeq(sent, 1, Heard)

-----------------------------------------------------------------------------
(* What so many bits take.                                                  *)
Took(bits) == 4 * bits * kCyclesPerUs

TimerHolds ==
    /\ mcpu = "poll" =>
        LET total == timer + master.wait
        IN  /\ Starting /\ master.pc = "pull" => total < kCyclesPerUs
            /\ master.pc = "set_x" => total >= kCyclesPerUs /\ total < 2 * kCyclesPerUs
            /\ master.pc \in {"out", "in", "jmp_x"} => total >= 2 * kCyclesPerUs
            /\ master.pc = "out"   => total < Took(Sampled) + 3 * kCyclesPerUs
            /\ master.pc = "in"    => total < Took(Sampled) + 5 * kCyclesPerUs
            /\ master.pc = "jmp_x" => total < Took(Sampled) + 2 * kCyclesPerUs
            /\ master.pc = "out_y" => total < Took(Sampled) + 3 * kCyclesPerUs
            /\ master.pc = "jmp_y" => total < Took(Sampled) + 4 * kCyclesPerUs
            /\ master.pc = "push" /\ ~waits => total < Took(Sampled) + 5 * kCyclesPerUs
    /\ mcpu = "recover" => Over /\ waits

HasHeard == device.rx # <<>> \/ ecpu = "answer"

CpuHolds ==
    /\ UnderWay => waits = ~IsLast
    /\ mcpu = "idle" => index = 0
    /\ mcpu # "idle" /\ index > 0 => ecpu \in {"serve", "answer"}
    /\ mcpu = "wait" => ecpu # "answer"

LateHolds ==
    /\ UnderWay /\ late => index = 0 /\ ecpu # "print"
    /\ UnderWay /\ late /\ ~IsOver => loaded = kReleasedByte

(* An emulator that does not serve has its start byte loaded ...            *)
ListenHolds ==
    /\ ecpu \in {"listen", "print"} =>
         /\ ~IsIdle(device) => loaded = kReleasedByte
         /\ ~Pending /\ device.pc # "ack_high"
         /\ ~UnderWay => ~Partial
    (* ... and when it listens it is in time for what was clocked meanwhile. *)
    /\ ecpu = "listen" /\ (device.rx # <<>> \/ (Over /\ Partial)) =>
          /\ mcpu = "poll" /\ Over
          /\ timer < Took(kWireBitsPerByte) + 2 * kCyclesPerUs + lag["emulator"]

(* A byte that was heard is answered before the master gives it up.         *)
ServeHolds ==
    /\ ecpu = "answer" => IsIdle(device) /\ device.rx = <<>>
    /\ mcpu # "idle" /\ ecpu \in {"serve", "answer"} /\ HasHeard =>
         Over /\ (waits => BeforePush)
    /\ Over /\ waits /\ ~BeforePush => ecpu = "serve"
    /\ ecpu = "answer" /\ reply.should_ack /\ UnderWay /\ waits =>
          delay + 2 * kCyclesPerUs + 3 >= ToPoll
    /\ device.rx # <<>> /\ UnderWay /\ waits /\ ecpu \in {"listen", "serve"} =>
          ToPoll <= 4 * kCyclesPerUs - 7

Inv == /\ Typed /\ MasterHolds /\ DeviceHolds
       /\ CoupledIdle /\ CoupledStart /\ CoupledClock /\ CoupledEnd /\ Content
       /\ TimerHolds /\ CpuHolds /\ LateHolds /\ ListenHolds /\ ServeHolds

-----------------------------------------------------------------------------
(* A tick, in its variables. *)
LEMMA Ticked ==
    ASSUME Inv, Tick
    PROVE  /\ master' = MasterCycle(master, data, ack)
           /\ device' = DeviceCycle(device, master.clk, master.cmd)
           /\ Sampled' = Len(master'.isr) /\ Heard' = Len(device'.isr)
           /\ UnderWay' = UnderWay /\ Flag' = Flag
  BY DEF Tick, CycleTo, Sampled, Heard, UnderWay, Flag

(* The constants as numbers. *)
LEMMA Numbers ==
    /\ kWireBitsPerByte \in Nat /\ kWireBitsPerByte >= 1
    /\ kCyclesPerUs \in Nat /\ kCyclesPerUs >= 8
  BY Widths, ClocksAssumption

(* What is a number of the state, and which instructions there are. *)
LEMMA Scalars ==
    ASSUME Typed
    PROVE  /\ Sampled \in Nat /\ Heard \in Nat
           /\ master.wait \in Nat /\ master.wait < 2 * kCyclesPerUs
           /\ device.wait \in Nat /\ device.wait < 2 * kCyclesPerUs
           /\ device.x \in {0, 1}
           /\ timer \in Nat /\ delay \in Nat
           /\ master.pc \in {"pull", "set_x", "out", "in", "jmp_x", "out_y", "jmp_y", "wait_ack", "push"}
           /\ device.pc \in {"pull", "out_x", "jmp_x", "ack_low", "ack_high", "set_y", "wait_low",
                             "out", "wait_high", "in", "jmp_y", "mov", "release", "push"}
<1>1. master.isr \in Seq(Bit) /\ device.isr \in Seq(Bit)
  BY DEF Typed, MasterSm, DeviceSm
<1>2. /\ master.wait \in 0 .. 2 * kCyclesPerUs - 1
      /\ master.pc \in {"pull", "set_x", "out", "in", "jmp_x", "out_y", "jmp_y", "wait_ack", "push"}
  BY DEF Typed, MasterSm
<1>3. /\ device.wait \in 0 .. 2 * kCyclesPerUs - 1 /\ device.x \in {0, 1}
      /\ device.pc \in {"pull", "out_x", "jmp_x", "ack_low", "ack_high", "set_y", "wait_low",
                        "out", "wait_high", "in", "jmp_y", "mov", "release", "push"}
  BY DEF Typed, DeviceSm, Bit, kAckPulseCycles
<1>4. timer \in Nat /\ delay \in Nat BY DEF Typed
<1> QED BY <1>1, <1>2, <1>3, <1>4, Numbers DEF Sampled, Heard

(* A tick, as far as the two programs see each other. *)
MasterMoves ==
    \/ /\ master.wait # 0 /\ master'.wait = master.wait - 1
       /\ master'.pc = master.pc /\ Sampled' = Sampled
       /\ master'.tx = master.tx /\ master'.rx = master.rx
    \/ /\ master.wait = 0
       /\ master'.wait = (IF master.pc = "out" THEN 2 * kCyclesPerUs ELSE kCyclesPerUs) - 1
       /\ master.pc # "in" /\ master.pc # "push" => Sampled' = Sampled
       /\ master.pc # "push" => master'.rx = master.rx
       /\ \/ master.pc = "pull" /\ master.tx = <<>> /\ master'.pc = "pull" /\ master'.tx = <<>>
          \/ master.pc = "pull" /\ master.tx # <<>> /\ master'.pc = "set_x"
          \/ master.pc = "set_x" /\ master'.pc = "out"
          \/ master.pc = "out" /\ master'.pc = "in"
          \/ master.pc = "in" /\ master'.pc = "jmp_x" /\ Sampled' = Sampled + 1
          \/ master.pc = "jmp_x" /\ Sampled = kWireBitsPerByte /\ master'.pc = "out_y"
          \/ master.pc = "jmp_x" /\ Sampled < kWireBitsPerByte /\ master'.pc = "out"
          \/ master.pc = "out_y" /\ master'.pc = "jmp_y"
          \/ master.pc = "jmp_y" /\ waits /\ master'.pc = "wait_ack"
          \/ master.pc = "jmp_y" /\ ~waits /\ master'.pc = "push"
          \/ master.pc = "wait_ack" /\ device.pc # "ack_high" /\ master'.pc = "wait_ack"
          \/ master.pc = "wait_ack" /\ device.pc = "ack_high" /\ master'.pc = "push"
          \/ master.pc = "push" /\ master'.pc = "pull" /\ master'.tx = <<>> /\ Sampled' = 0
             /\ master'.rx = <<master.isr>>

DeviceMoves ==
    \/ /\ device.wait # 0 /\ device'.wait = device.wait - 1
       /\ device.pc = "ack_high" /\ device'.pc = "ack_high" /\ Heard' = Heard
       /\ device'.tx = device.tx /\ device'.rx = device.rx /\ device'.x = device.x
    \/ /\ device.wait = 0
       /\ device.pc # "in" /\ device.pc # "push" => Heard' = Heard
       /\ device.pc # "push" => device'.rx = device.rx
       /\ device.pc # "ack_low" => device'.wait = 0
       /\ device.pc # "out_x" => device'.x = device.x
       /\ \/ device.pc = "pull" /\ device.tx = <<>> /\ device'.pc = "pull" /\ device'.tx = <<>>
          \/ device.pc = "pull" /\ device.tx # <<>> /\ device'.pc = "out_x"
          \/ device.pc = "out_x" /\ device'.pc = "jmp_x"
          \/ device.pc = "jmp_x" /\ device.x = 0 /\ device'.pc = "set_y"
          \/ device.pc = "jmp_x" /\ device.x = 1 /\ device'.pc = "ack_low"
          \/ device.pc = "ack_low" /\ device'.pc = "ack_high" /\ device'.wait = 2 * kCyclesPerUs - 1
          \/ device.pc = "ack_high" /\ device'.pc = "set_y"
          \/ device.pc = "set_y" /\ device'.pc = "wait_low"
          \/ device.pc = "wait_low" /\ master.pc # "in" /\ device'.pc = "wait_low"
          \/ device.pc = "wait_low" /\ master.pc = "in" /\ device'.pc = "out"
          \/ device.pc = "out" /\ device'.pc = "wait_high"
          \/ device.pc = "wait_high" /\ master.pc = "in" /\ device'.pc = "wait_high"
          \/ device.pc = "wait_high" /\ master.pc # "in" /\ device'.pc = "in"
          \/ device.pc = "in" /\ device'.pc = "jmp_y" /\ Heard' = Heard + 1
          \/ device.pc = "jmp_y" /\ Heard = kWireBitsPerByte /\ device'.pc = "mov"
          \/ device.pc = "jmp_y" /\ Heard < kWireBitsPerByte /\ device'.pc = "wait_low"
          \/ device.pc = "mov" /\ device'.pc = "release"
          \/ device.pc = "release" /\ device'.pc = "push"
          \/ device.pc = "push" /\ device'.pc = "pull" /\ device'.tx = <<>> /\ Heard' = 0
             /\ device'.rx = <<device.isr>>

(* The master's side of a tick. *)
LEMMA MasterTicks ==
    ASSUME Inv, Tick
    PROVE  /\ master' \in MasterSm /\ MasterHolds' /\ MasterMoves
           /\ MasterGoes(master, master', data, ack, Flag)
<1>1. /\ master \in MasterSm /\ sent \in Bits /\ Flag \in Bit
      /\ MasterAt(master, sent, Flag) /\ MasterFifos
  BY DEF Inv, Typed, MasterHolds, Flag, Bit
<1>2. master.pc = "pull" => master.tx = <<>> \/ (master.tx = <<OutWord(sent, Flag)>> /\ master.rx = <<>>)
  BY <1>1 DEF MasterFifos, Word
<1>3. data \in Bit /\ ack \in Bit BY Lengths DEF Inv
<1>4. PICK e : e = MasterCycle(master, data, ack) OBVIOUS
<1>5. e \in MasterSm /\ MasterAt(e, sent, Flag) /\ MasterGoes(master, e, data, ack, Flag)
  BY <1>1, <1>2, <1>3, <1>4, MasterAtTick
<1>6. e = master' /\ sent' = sent /\ Flag' = Flag /\ UnderWay' = UnderWay
  BY <1>4, Ticked DEF Tick, CycleTo
<1>7. MasterMoves
  <2>1. ack = 0 <=> device.pc = "ack_high"
    <3>1. device.pull_ack = (IF device.pc = "ack_high" THEN 1 ELSE 0) BY DEF Inv, DeviceHolds, DeviceAt
    <3> QED BY <3>1 DEF ack
  <2>2. Flag = 1 <=> waits BY DEF Flag
  <2>3. Sampled' = Len(e.isr) BY <1>6 DEF Sampled
  <2>4. ack \in {0, 1} /\ Flag \in {0, 1} BY <1>1, <1>3 DEF Bit
  <2>5. master.isr \in Seq(Bit) BY <1>1 DEF MasterSm
  <2>6. Len(Append(master.isr, data)) = Len(master.isr) + 1 BY <2>5, <1>3, AppendProperties
  <2>7. Len(<<>>) = 0 OBVIOUS
  <2> QED BY <1>5, <1>6, <2>1, <2>2, <2>3, <2>4, <2>6, <2>7 DEF MasterGoes, MasterMoves, Sampled
<1>8. MasterFifos'
  <2>1. ~UnderWay => e.pc = "pull" /\ e.tx = <<>> /\ e.rx = <<>>
    BY <1>1, <1>5 DEF MasterGoes, MasterFifos
  <2>2. ASSUME UnderWay, e.pc = "pull"
        PROVE  \/ e.tx = <<Word>> /\ e.rx = <<>>
               \/ e.tx = <<>> /\ Len(e.rx) = 1
    <3>1. CASE master.pc = "pull"
      BY <3>1, <2>2, <1>1, <1>5 DEF MasterGoes, MasterFifos
    <3>2. CASE master.pc # "pull"
      <4>1. e.tx = <<>> /\ e.rx = <<master.isr>>
        BY <3>2, <2>2, <1>5 DEF MasterGoes
      <4> QED BY <4>1
    <3> QED BY <3>1, <3>2
  <2>3. Word' = Word BY <1>6 DEF Word
  <2> QED BY <1>6, <2>1, <2>2, <2>3 DEF MasterFifos
<1> QED BY <1>5, <1>6, <1>7, <1>8 DEF MasterHolds

(* The device's side of a tick. *)
LEMMA DeviceTicks ==
    ASSUME Inv, Tick
    PROVE  /\ device' \in DeviceSm /\ DeviceHolds' /\ DeviceMoves
           /\ DeviceGoes(device, device', master.clk, master.cmd)
<1>1. /\ device \in DeviceSm /\ loaded \in Bits /\ DeviceAt(device, loaded)
      /\ master.clk \in Bit /\ master.cmd \in Bit
  BY Lengths DEF Inv, Typed, DeviceHolds
<1>2. PICK e : e = DeviceCycle(device, master.clk, master.cmd) OBVIOUS
<1>3. e \in DeviceSm /\ DeviceAt(e, loaded) /\ DeviceGoes(device, e, master.clk, master.cmd)
  BY <1>1, <1>2, DeviceAtTick
<1>4. e = device' /\ loaded' = loaded
  BY <1>2, Ticked DEF Tick, CycleTo
<1>5. DeviceMoves
  <2>1. master.clk = 0 <=> master.pc = "in"
    <3>1. master.clk = (IF master.pc = "in" THEN 0 ELSE 1) BY DEF Inv, MasterHolds, MasterAt
    <3> QED BY <3>1
  <2>2. master.clk \in {0, 1} /\ device.x \in {0, 1} BY <1>1 DEF Bit, DeviceSm
  <2>3. Heard' = Len(e.isr) BY <1>4 DEF Heard
  <2>4. device.isr \in Seq(Bit) BY <1>1 DEF DeviceSm
  <2>5. Len(Append(device.isr, master.cmd)) = Len(device.isr) + 1 BY <2>4, <1>1, AppendProperties
  <2>6. Len(<<>>) = 0 OBVIOUS
  <2>7. e.pc # "ack_high" => e.wait = 0 BY <1>3 DEF DeviceAt
  <2>8. CASE device.wait # 0
    BY <2>8, <1>3, <1>4, <2>3 DEF DeviceGoes, DeviceMoves, Heard
  <2>9. CASE device.wait = 0 /\ device.pc = "pull" /\ device.tx = <<>>
    <3>1. e = device BY <2>9, <1>3 DEF DeviceGoes
    <3> QED BY <3>1, <2>9, <1>4 DEF DeviceMoves, Heard
  <2>10. CASE device.wait = 0 /\ ~(device.pc = "pull" /\ device.tx = <<>>)
    <3>1. /\ device.pc \notin {"in", "push"} => Heard' = Heard
          /\ device.pc # "push" => e.rx = device.rx
          /\ device.pc # "out_x" => e.x = device.x
          /\ device.pc = "in" => Heard' = Heard + 1 /\ e.pc = "jmp_y"
          /\ device.pc = "push" => Heard' = 0 /\ e.rx = <<device.isr>> /\ e.tx = <<>> /\ e.pc = "pull"
      <4>1. e.tx = device.tx \/ device.pc = "pull" BY <2>10, <1>3 DEF DeviceGoes
      <4>2. device.pc # "pull" => device.tx = <<>> BY <1>1 DEF DeviceAt
      <4> QED BY <2>10, <1>3, <2>3, <2>5, <2>6, <4>1, <4>2 DEF DeviceGoes, Heard
    <3>2. \/ device.pc = "pull" /\ device.tx # <<>> /\ e.pc = "out_x"
          \/ device.pc = "out_x" /\ e.pc = "jmp_x"
          \/ device.pc = "jmp_x" /\ device.x = 0 /\ e.pc = "set_y"
          \/ device.pc = "jmp_x" /\ device.x = 1 /\ e.pc = "ack_low"
          \/ device.pc = "ack_low" /\ e.pc = "ack_high" /\ e.wait = 2 * kCyclesPerUs - 1
          \/ device.pc = "ack_high" /\ e.pc = "set_y"
          \/ device.pc = "set_y" /\ e.pc = "wait_low"
          \/ device.pc = "wait_low" /\ master.pc # "in" /\ e.pc = "wait_low"
          \/ device.pc = "wait_low" /\ master.pc = "in" /\ e.pc = "out"
          \/ device.pc = "out" /\ e.pc = "wait_high"
          \/ device.pc = "wait_high" /\ master.pc = "in" /\ e.pc = "wait_high"
          \/ device.pc = "wait_high" /\ master.pc # "in" /\ e.pc = "in"
          \/ device.pc = "in" /\ e.pc = "jmp_y"
          \/ device.pc = "jmp_y" /\ Heard = kWireBitsPerByte /\ e.pc = "mov"
          \/ device.pc = "jmp_y" /\ Heard < kWireBitsPerByte /\ e.pc = "wait_low"
          \/ device.pc = "mov" /\ e.pc = "release"
          \/ device.pc = "release" /\ e.pc = "push"
          \/ device.pc = "push" /\ e.pc = "pull"
      BY <2>10, <1>3, <2>1, <2>2 DEF DeviceGoes, Heard
    <3>3. device.pc # "ack_low" => e.wait = 0
      BY <2>7, <3>2
    <3> QED BY <2>10, <1>4, <3>1, <3>2, <3>3 DEF DeviceMoves
  <2> QED BY <2>8, <2>9, <2>10
<1> QED BY <1>3, <1>4, <1>5 DEF DeviceHolds

(* An ACK owed is owed until the pulse begins. *)
LEMMA PendingTicks ==
    ASSUME Inv, Tick
    PROVE  /\ Pending' <=> (Pending /\ device.pc # "ack_low")
           /\ Pending => device.pc \in {"pull", "out_x", "jmp_x", "ack_low"}
           /\ device.pc = "jmp_x" => (Pending <=> device.x = 1)
           /\ device.pc = "ack_low" => Pending
           /\ device.pc = "pull" /\ Pending => device.tx # <<>>
<1>1. DeviceGoes(device, device', master.clk, master.cmd) BY DeviceTicks
<1>2. device.pc # "ack_high" => device.wait = 0 BY DEF Inv, DeviceHolds, DeviceAt
<1>3. device.x \in {0, 1} BY Scalars DEF Inv
<1>4. device.pc = "pull" /\ device.tx # <<>> => device'.tx = <<>> /\ (Head(device'.osr) = Head(device.tx)[1])
  BY <1>1, <1>2 DEF DeviceGoes
<1>5. device'.pc = "pull" /\ device.pc # "pull" => device'.tx = <<>>
  BY <1>1 DEF DeviceGoes, DeviceHolds, DeviceAt, Inv
<1> QED BY <1>1, <1>2, <1>3, <1>4, <1>5 DEF DeviceGoes, Pending

(* A byte is over when the master has its bits and the device does not hear any more. *)
LEMMA OverMeans ==
    ASSUME Typed, MasterHolds, DeviceHolds
    PROVE  /\ Sampled <= kWireBitsPerByte /\ Heard <= kWireBitsPerByte
           /\ IsShifting(device) <=> Partial
           /\ UnderWay => (IsOver <=>
                /\ Sampled = kWireBitsPerByte \/ (master.pc = "pull" /\ master.tx = <<>>)
                /\ Partial => device.pc = "wait_low")
<1>1. Sampled \in Nat /\ Heard \in Nat BY Lengths
<1>2. Sampled <= kWireBitsPerByte
  <2>1. Len(<<>>) = 0 OBVIOUS
  <2>2. /\ master.pc = "pull" => Sampled = 0
        /\ master.pc = "set_x" => Sampled = 0
        /\ master.pc \in {"out", "in"} => Sampled < kWireBitsPerByte
        /\ master.pc = "jmp_x" => Sampled \in 1 .. kWireBitsPerByte
        /\ master.pc \in {"out_y", "jmp_y", "wait_ack", "push"} => Sampled = kWireBitsPerByte
    BY <2>1 DEF MasterHolds, MasterAt, Sampled
  <2>3. master.pc \in {"pull", "set_x", "out", "in", "jmp_x", "out_y", "jmp_y", "wait_ack", "push"}
    BY Scalars
  <2> QED BY <1>1, <2>2, <2>3, Numbers
<1>3. /\ device.pc \in Prelude \cup Pulse => Heard = 0
      /\ device.pc \in {"wait_low", "out"} => Heard < kWireBitsPerByte /\ device.y = kWireBitsPerByte - 1 - Heard
      /\ device.pc \in {"wait_high", "in"} => Heard < kWireBitsPerByte
      /\ device.pc = "jmp_y" => Heard \in 1 .. kWireBitsPerByte
      /\ device.pc \in {"mov", "release", "push"} => Heard = kWireBitsPerByte
  <2>1. Len(<<>>) = 0 OBVIOUS
  <2> QED BY <2>1 DEF DeviceHolds, DeviceAt, Heard
<1>10. device.pc \in {"pull", "out_x", "jmp_x", "ack_low", "ack_high", "set_y", "wait_low",
                      "out", "wait_high", "in", "jmp_y", "mov", "release", "push"}
  BY Scalars
<1>4. Heard <= kWireBitsPerByte
  BY <1>1, <1>3, <1>10, Numbers DEF Prelude, Pulse
<1>5. IsShifting(device) <=> Partial
  BY <1>1, <1>3, <1>10, Numbers DEF IsShifting, Partial, IsReady, Prelude, Pulse
<1>6. UnderWay => (has_byte(master) <=> (master.pc = "pull" /\ master.tx = <<>>))
  <2>1. Len(<<>>) = 0 OBVIOUS
  <2>2. master.pc # "pull" => master.rx = <<>> BY DEF MasterHolds, MasterAt
  <2>3. <<Word>> # <<>> OBVIOUS
  <2>4. ASSUME UnderWay, master.pc = "pull"
        PROVE  (master.tx = <<Word>> /\ master.rx = <<>>) \/ (master.tx = <<>> /\ master.rx # <<>>)
    BY <2>1, <2>4 DEF MasterHolds, MasterFifos
  <2> QED BY <2>2, <2>3, <2>4 DEF has_byte
<1> QED BY <1>2, <1>4, <1>5, <1>6 DEF IsOver, HasAllBits, Sampled

(* What a tick leaves alone, and the counters. *)
LEMMA TheRest ==
    ASSUME Inv, Tick
    PROVE  /\ mcpu' = mcpu /\ index' = index /\ sent' = sent /\ waits' = waits
           /\ ecpu' = ecpu /\ reply' = reply /\ ack_delay_us' = ack_delay_us
           /\ loaded' = loaded /\ late' = late
           /\ UnderWay' = UnderWay
           /\ mcpu = "wait" => timer' = (IF timer = 0 THEN 0 ELSE timer - 1)
           /\ mcpu = "poll" => timer' = timer + 1
           /\ mcpu \notin {"wait", "poll"} => timer' = 0
           /\ delay' = (IF delay = 0 THEN 0 ELSE delay - 1)
           /\ lag["emulator"] < kLagCycles
           /\ EmulatorCan => lag'["emulator"] = lag["emulator"] + 1
           /\ lag' \in [{"master", "emulator"} -> 0 .. kLagCycles]
<1>1. timer' = CASE mcpu = "wait" -> IF timer = 0 THEN 0 ELSE timer - 1
                  [] mcpu = "poll" -> timer + 1
                  [] OTHER -> 0
  BY Zenon DEF Tick, CycleTo
<1>2. mcpu = "wait" => timer' = (IF timer = 0 THEN 0 ELSE timer - 1)
  BY <1>1, Zenon
<1>3. mcpu = "poll" => timer' = timer + 1
  BY <1>1, Zenon
<1>4. mcpu # "wait" /\ mcpu # "poll" => timer' = 0
  BY <1>1, Zenon
<1>5. /\ mcpu' = mcpu /\ index' = index /\ sent' = sent /\ waits' = waits
      /\ ecpu' = ecpu /\ reply' = reply /\ ack_delay_us' = ack_delay_us
      /\ loaded' = loaded /\ late' = late
      /\ delay' = (IF delay = 0 THEN 0 ELSE delay - 1)
  BY Zenon DEF Tick, CycleTo
<1>6. UnderWay' = UnderWay BY <1>5 DEF UnderWay
<1>7. lag \in [{"master", "emulator"} -> 0 .. kLagCycles] BY DEF Inv, Typed
<1>8. \A cpu \in {"master", "emulator"} : lag[cpu] < kLagCycles
  BY <1>7, Zenon DEF Tick, CycleTo
<1>9. lag' = [master   |-> IF MasterCan THEN lag["master"] + 1 ELSE 0,
              emulator |-> IF EmulatorCan THEN lag["emulator"] + 1 ELSE 0]
  BY Zenon DEF Tick, CycleTo
<1>10. kLagCycles \in Nat BY TimesAssumption, Numbers
<1>11. PICK e : e = IF EmulatorCan THEN lag["emulator"] + 1 ELSE 0 OBVIOUS
<1>12. PICK m : m = IF MasterCan THEN lag["master"] + 1 ELSE 0 OBVIOUS
<1>13. e \in 0 .. kLagCycles /\ m \in 0 .. kLagCycles
  BY <1>7, <1>8, <1>10, <1>11, <1>12
<1>14. lag' = [master |-> m, emulator |-> e] BY <1>9, <1>11, <1>12
<1>15. lag' \in [{"master", "emulator"} -> 0 .. kLagCycles] BY <1>13, <1>14
<1>16. lag'["emulator"] = e BY <1>14
<1> QED BY <1>2, <1>3, <1>4, <1>5, <1>6, <1>8, <1>11, <1>15, <1>16

(* Between bytes, a tick. *)
LEMMA CoupledIdleTicks ==
    ASSUME Inv, Tick
    PROVE  CoupledIdle'
<1>1. /\ Sampled \in Nat /\ Heard \in Nat /\ master.wait \in Nat /\ device.wait \in Nat
      /\ device.x \in {0, 1}
  BY Scalars DEF Inv
<1>2. ~UnderWay => master.pc = "pull" /\ master.tx = <<>> BY DEF Inv, MasterHolds, MasterFifos
<1>3. device.pc # "ack_high" => device.wait = 0 BY DEF Inv, DeviceHolds, DeviceAt
<1>4. device.pc \in Prelude \cup Pulse => Heard = 0
  <2>1. Len(<<>>) = 0 OBVIOUS
  <2> QED BY <2>1 DEF Inv, DeviceHolds, DeviceAt, Heard
<1>5. ~UnderWay' => device'.pc \in Prelude \cup Pulse \cup {"wait_low"}
  BY <1>2, TheRest, DeviceTicks, Scalars DEF Inv, CoupledIdle, DeviceMoves, Prelude, Pulse
<1>6. ASSUME mcpu = "wait"
      PROVE  BeforeByte' /\ (device'.pc = "ack_high" => device'.wait < master'.wait)
  <2>1. ~UnderWay BY <1>6 DEF UnderWay
  <2>2. BeforeByte /\ (device.pc = "ack_high" => device.wait < master.wait)
    BY <1>6 DEF Inv, CoupledIdle
  <2>3. ~Pending' BY <2>2, PendingTicks DEF BeforeByte
  <2>4. device.pc # "ack_low" BY <2>2, PendingTicks DEF BeforeByte
  <2>5. device'.pc \in Prelude \/ IsReady' \/ device'.pc = "ack_high"
    BY <2>1, <2>2, <2>4, <1>1, <1>2, <1>3, <1>4, DeviceTicks, PendingTicks DEF DeviceMoves, Prelude, IsReady, BeforeByte
  <2>6. device'.pc = "ack_high" => device'.wait < master'.wait
    BY <2>1, <2>2, <2>4, <1>1, <1>2, <1>3, DeviceTicks, MasterTicks, PendingTicks DEF DeviceMoves, MasterMoves, BeforeByte, Prelude
  <2> QED BY <2>3, <2>5, <2>6 DEF BeforeByte
<1> QED BY <1>5, <1>6, TheRest DEF CoupledIdle

(* What the shift registers hold at each instruction. *)
LEMMA Phases ==
    ASSUME Inv
    PROVE  /\ UnderWay /\ master.pc = "pull" => (Starting <=> master.tx # <<>>)
           /\ device.pc \in Prelude \cup Pulse => Heard = 0
           /\ device.pc # "ack_high" => device.wait = 0
           /\ master.pc \in {"pull", "set_x"} => Sampled = 0
           /\ master.pc \in {"out", "in"} => Sampled < kWireBitsPerByte
           /\ master.pc = "jmp_x" => Sampled >= 1 /\ Sampled <= kWireBitsPerByte
           /\ master.pc \in {"out_y", "jmp_y", "wait_ack", "push"} => Sampled = kWireBitsPerByte
           /\ device.pc \in {"wait_low", "out", "wait_high", "in"} => Heard < kWireBitsPerByte
           /\ device.pc = "jmp_y" => Heard >= 1 /\ Heard <= kWireBitsPerByte
           /\ device.pc \in {"mov", "release", "push"} => Heard = kWireBitsPerByte
           /\ ~UnderWay => master.pc = "pull" /\ master.tx = <<>>
           /\ master.pc # "in" => master.wait < kCyclesPerUs
<1>1. Len(<<>>) = 0 OBVIOUS
<1>2. Sampled \in Nat /\ Heard \in Nat BY Scalars DEF Inv
<1>3. /\ device.pc \in Prelude \cup Pulse => Heard = 0
      /\ device.pc # "ack_high" => device.wait = 0
      /\ device.pc \in {"wait_low", "out", "wait_high", "in"} => Heard < kWireBitsPerByte
      /\ device.pc = "jmp_y" => Heard \in 1 .. kWireBitsPerByte
      /\ device.pc \in {"mov", "release", "push"} => Heard = kWireBitsPerByte
  BY <1>1 DEF Inv, DeviceHolds, DeviceAt, Heard
<1>4. /\ master.pc \in {"pull", "set_x"} => Sampled = 0
      /\ master.pc \in {"out", "in"} => Sampled < kWireBitsPerByte
      /\ master.pc = "jmp_x" => Sampled \in 1 .. kWireBitsPerByte
      /\ master.pc \in {"out_y", "jmp_y", "wait_ack", "push"} => Sampled = kWireBitsPerByte
      /\ master.pc # "in" => master.wait < kCyclesPerUs
  BY <1>1 DEF Inv, MasterHolds, MasterAt, Sampled
<1>5. ~UnderWay => master.pc = "pull" /\ master.tx = <<>> BY DEF Inv, MasterHolds, MasterFifos
<1> QED BY <1>2, <1>3, <1>4, <1>5, Numbers DEF Starting

(* Before the first edge, a tick. *)
LEMMA CoupledStartTicks ==
    ASSUME Inv, Tick
    PROVE  CoupledStart'
<1>1. /\ Sampled \in Nat /\ Heard \in Nat /\ master.wait \in Nat /\ device.wait \in Nat
      /\ device.x \in {0, 1} /\ timer \in Nat
  BY Scalars DEF Inv
<1>2. Starting' => Starting
  BY TheRest, MasterTicks, Phases, <1>1 DEF MasterMoves, Starting
<1>3. CASE Starting /\ IsIdle(device)
  <2>1. IsIdle(device)' BY <1>3, DeviceTicks DEF DeviceMoves, IsIdle
  <2> QED BY <2>1 DEF CoupledStart
<1>4. CASE Starting /\ ~IsIdle(device)
  <2>1. BeforeByte /\ (IF late THEN device.pc # "ack_high" ELSE InTime)
    BY <1>4 DEF Inv, CoupledStart
  <2>2. master.pc # "in" BY <1>4 DEF Starting
  <2>3. ~Pending /\ device.pc # "ack_low" /\ ~Pending' BY <2>1, PendingTicks DEF BeforeByte
  <2>4. device'.pc \in Prelude \/ IsReady' \/ device'.pc = "ack_high"
    BY <2>1, <2>2, <2>3, <1>1, Phases, DeviceTicks, PendingTicks DEF DeviceMoves, Prelude, IsReady, BeforeByte
  <2>5. late => device'.pc # "ack_high"
    BY <2>1, <2>3, DeviceTicks DEF DeviceMoves
  <2>6. ASSUME ~late PROVE InTime'
    <3>1. timer' <= timer + 1
      BY <1>1, <1>4, TheRest DEF Starting, UnderWay
    <3>2. InTime BY <2>1, <2>6
    <3>3. CASE IsReady
      <4>1. IsReady' BY <3>3, <2>2, DeviceTicks, Phases DEF DeviceMoves, IsReady
      <4> QED BY <4>1 DEF InTime
    <3>4. CASE device.pc = "pull" /\ timer <= 0
      <4>1. device'.pc = "out_x" BY <3>4, <1>4, Phases, DeviceTicks DEF DeviceMoves, IsIdle
      <4>2. timer' \in Nat /\ timer' <= 1 BY <3>1, <3>4, <1>1, TheRest
      <4> QED BY <4>1, <4>2 DEF InTime
    <3>5. CASE device.pc = "out_x" /\ timer <= 1
      <4>1. device'.pc = "jmp_x" BY <3>5, Phases, DeviceTicks DEF DeviceMoves
      <4>2. timer' \in Nat /\ timer' <= 2 BY <3>1, <3>5, <1>1, TheRest
      <4> QED BY <4>1, <4>2 DEF InTime
    <3>6. CASE device.pc = "jmp_x" /\ timer <= 2
      <4>1. device'.pc = "set_y" BY <3>6, <2>3, <1>1, PendingTicks, Phases, DeviceTicks DEF DeviceMoves
      <4>2. timer' \in Nat /\ timer' <= 3 BY <3>1, <3>6, <1>1, TheRest
      <4> QED BY <4>1, <4>2 DEF InTime
    <3>7. CASE device.pc = "set_y"
      <4>1. device'.pc = "wait_low" /\ Heard' = 0 BY <3>7, Phases, DeviceTicks DEF DeviceMoves, Prelude
      <4> QED BY <4>1 DEF InTime, IsReady
    <3>8. CASE device.pc = "ack_high" /\ master.pc = "pull" /\ device.wait < master.wait
      <4>1. master'.pc = "pull" /\ master'.wait = master.wait - 1
        BY <3>8, <1>1, MasterTicks DEF MasterMoves
      <4>2. device'.pc = "set_y" \/ (device'.pc = "ack_high" /\ device'.wait = device.wait - 1)
        BY <3>8, <1>1, DeviceTicks DEF DeviceMoves
      <4> QED BY <3>8, <4>1, <4>2, <1>1 DEF InTime
    <3> QED BY <3>2, <3>3, <3>4, <3>5, <3>6, <3>7, <3>8 DEF InTime
  <2> QED BY <2>3, <2>4, <2>5, <2>6, TheRest DEF CoupledStart, BeforeByte
<1> QED BY <1>2, <1>3, <1>4 DEF CoupledStart

(* OverMeans, in a state ... *)
LEMMA NowOver ==
    ASSUME Inv
    PROVE  /\ Sampled <= kWireBitsPerByte /\ Heard <= kWireBitsPerByte
           /\ IsShifting(device) <=> Partial
           /\ UnderWay => (IsOver <=>
                /\ Sampled = kWireBitsPerByte \/ (master.pc = "pull" /\ master.tx = <<>>)
                /\ Partial => device.pc = "wait_low")
  BY OverMeans DEF Inv

(* The types after a tick. *)
LEMMA TypedTicks ==
    ASSUME Inv, Tick
    PROVE  Typed'
<1>1. timer' \in Nat
  BY TheRest, Scalars DEF Inv
<1>2. delay' \in Nat
  BY TheRest, Scalars DEF Inv
<1> QED BY <1>1, <1>2, TheRest, MasterTicks, DeviceTicks DEF Inv, Typed

(* ... and in the one after a tick. *)
LEMMA NextOver ==
    ASSUME Inv, Tick
    PROVE  /\ Sampled' <= kWireBitsPerByte /\ Heard' <= kWireBitsPerByte
           /\ Sampled' \in Nat /\ Heard' \in Nat
           /\ IsShifting(device)' <=> Partial'
           /\ UnderWay => (IsOver' <=>
                /\ Sampled' = kWireBitsPerByte \/ (master'.pc = "pull" /\ master'.tx = <<>>)
                /\ Partial' => device'.pc = "wait_low")
<1>1. Typed' /\ MasterHolds' /\ DeviceHolds' BY TypedTicks, MasterTicks, DeviceTicks
<1>2. (Typed => Sampled \in Nat /\ Heard \in Nat)' BY Scalars, PTL
<1>3. (Typed /\ MasterHolds /\ DeviceHolds =>
        /\ Sampled <= kWireBitsPerByte /\ Heard <= kWireBitsPerByte
        /\ IsShifting(device) <=> Partial
        /\ UnderWay => (IsOver <=>
                /\ Sampled = kWireBitsPerByte \/ (master.pc = "pull" /\ master.tx = <<>>)
                /\ Partial => device.pc = "wait_low"))'
  BY OverMeans, PTL
<1> QED BY <1>1, <1>2, <1>3, TheRest

(* A byte that is over stays over until the master takes it. *)
LEMMA StaysOver ==
    ASSUME Inv, Tick, Over
    PROVE  Over'
<1>1. /\ UnderWay /\ IsOver /\ Sampled \in Nat
      /\ device.pc \in Prelude \cup Pulse \cup {"wait_low"}
  BY Scalars DEF Inv, CoupledEnd, Over
<1>2. Sampled = kWireBitsPerByte \/ (master.pc = "pull" /\ master.tx = <<>>)
  BY <1>1, NowOver
<1>3. Sampled' = kWireBitsPerByte \/ (master'.pc = "pull" /\ master'.tx = <<>>)
  BY <1>1, <1>2, MasterTicks, Phases, Numbers DEF MasterMoves
<1>4. master.pc # "in" BY <1>1, <1>2, Phases
<1>5. device'.pc \in Prelude \cup Pulse \cup {"wait_low"}
  BY <1>1, <1>4, DeviceTicks DEF DeviceMoves, Prelude, Pulse
<1> QED BY <1>1, <1>3, <1>5, NextOver, TheRest DEF Over, Partial

(* The first edge of a byte finds the device ready, idle, or restarted under it. *)
LEMMA FirstEdge ==
    ASSUME Inv, Tick, Starting, ~Starting'
    PROVE  /\ master.pc = "out" /\ master.wait = 0 /\ master'.pc = "in" /\ Sampled' = 0
           /\ IsIdle(device)' \/ CoupledLow'
<1>1. /\ Sampled \in Nat /\ Heard \in Nat /\ master.wait \in Nat /\ device.wait \in Nat
      /\ device.x \in {0, 1} /\ timer \in Nat /\ UnderWay
  BY Scalars DEF Inv, Starting
<1>2. master.pc = "out" /\ master.wait = 0 /\ master'.pc = "in" /\ Sampled = 0 /\ Sampled' = 0
      /\ master'.wait = 2 * kCyclesPerUs - 1
  BY <1>1, MasterTicks, Phases, TheRest DEF MasterMoves, Starting
<1>3. CASE IsIdle(device)
  <2>1. IsIdle(device)' BY <1>3, DeviceTicks, Phases DEF DeviceMoves, IsIdle
  <2> QED BY <1>2, <2>1
<1>4. CASE ~IsIdle(device)
  <2>1. BeforeByte /\ (IF late THEN device.pc # "ack_high" ELSE InTime)
    BY <1>4 DEF Inv, CoupledStart
  <2>2. ~Pending' /\ device.pc # "ack_low" BY <2>1, PendingTicks DEF BeforeByte
  <2>3. Fallen' = 0 BY <1>2, Numbers DEF Fallen
  <2>4. CASE IsReady
    <3>1. device'.pc = "wait_low" /\ Heard' = 0
      BY <2>4, <1>2, DeviceTicks, Phases DEF IsReady, DeviceMoves
    <3>2. CoupledLow' BY <3>1, <2>3, <1>2 DEF CoupledLow, AsMany
    <3> QED BY <3>2, <1>2
  <2>5. CASE ~IsReady
    <3>1. late
      <4>1. ASSUME ~late PROVE FALSE
        <5>1. mcpu = "poll"
          <6>1. ~Over BY <1>1, <1>2, NowOver, Numbers DEF Over
          <6> QED BY <6>1, <1>1 DEF Inv, TimerHolds, UnderWay
        <5>2. timer + master.wait >= 2 * kCyclesPerUs
          BY <5>1, <1>2 DEF Inv, TimerHolds
        <5> QED BY <4>1, <5>2, <2>1, <2>5, <1>2, <1>1, Numbers DEF InTime
      <4> QED BY <4>1
    <3>2. device.pc \in Prelude BY <3>1, <2>1, <2>5 DEF BeforeByte
    <3>3. device'.pc \in Prelude \/ (device'.pc = "wait_low" /\ Heard' = 0)
      BY <3>2, <2>1, <2>2, <1>1, DeviceTicks, PendingTicks, Phases DEF Prelude, DeviceMoves, BeforeByte
    <3>4. CoupledLow'
      BY <3>1, <3>3, <2>2, <1>2, TheRest DEF CoupledLow, AsMany
    <3> QED BY <3>4, <1>2
  <2> QED BY <2>4, <2>5
<1> QED BY <1>3, <1>4

(* While CLK is low the device follows ... *)
LEMMA LowHalf ==
    ASSUME Inv, Tick, CoupledLow, master.pc = "in"
    PROVE  /\ master'.pc = "in" => CoupledLow'
           /\ master'.pc = "jmp_x" => CoupledHigh'
<1>1. /\ Sampled \in Nat /\ Heard \in Nat /\ master.wait \in Nat /\ device.wait \in Nat
      /\ device.x \in {0, 1} /\ timer \in Nat /\ master.wait < 2 * kCyclesPerUs
  BY Scalars DEF Inv
<1>2. late' = late BY TheRest
<1>3. \/ master'.pc = "in" /\ master'.wait = master.wait - 1 /\ master.wait # 0 /\ Sampled' = Sampled
         /\ Fallen' = Fallen + 1 /\ Fallen \in Nat
      \/ master'.pc = "jmp_x" /\ Sampled' = Sampled + 1 /\ Fallen = 2 * kCyclesPerUs - 1
         /\ Risen' = 0
  BY <1>1, MasterTicks, Numbers DEF MasterMoves, Fallen, Risen
<1>4. CASE device.pc \in Prelude
  <2>1. late /\ ~Pending /\ ~Pending' /\ Heard = 0
    BY <1>4, PendingTicks, Phases DEF CoupledLow, Prelude
  <2>2. device'.pc \in Prelude \/ (device'.pc = "wait_low" /\ Heard' = 0)
    BY <1>4, <2>1, <1>1, DeviceTicks, PendingTicks, Phases DEF Prelude, DeviceMoves
  <2> QED BY <2>1, <2>2, <1>1, <1>2, <1>3 DEF CoupledLow, CoupledHigh, AsMany
<1>5. CASE device.pc = "wait_low"
  <2>1. AsMany /\ (late \/ Fallen = 0) BY <1>5 DEF CoupledLow, Prelude
  <2>2. device'.pc = "out" /\ Heard' = Heard BY <1>5, DeviceTicks, Phases DEF DeviceMoves
  <2> QED BY <2>1, <2>2, <1>1, <1>2, <1>3, Numbers DEF CoupledLow, CoupledHigh, AsMany, OneLess
<1>6. CASE device.pc = "out"
  <2>1. AsMany /\ (IF late THEN Fallen >= 1 ELSE Fallen = 1) BY <1>6 DEF CoupledLow, Prelude
  <2>2. device'.pc = "wait_high" /\ Heard' = Heard BY <1>6, DeviceTicks, Phases DEF DeviceMoves
  <2> QED BY <2>1, <2>2, <1>1, <1>2, <1>3, Numbers DEF CoupledLow, CoupledHigh, AsMany, OneLess, Behind
<1>7. CASE device.pc = "wait_high"
  <2>1. AsMany /\ Fallen >= 2 BY <1>7 DEF CoupledLow, Prelude
  <2>2. device'.pc = "wait_high" /\ Heard' = Heard BY <1>7, DeviceTicks, Phases DEF DeviceMoves
  <2> QED BY <2>1, <2>2, <1>1, <1>2, <1>3, Numbers DEF CoupledLow, CoupledHigh, AsMany, OneLess, Behind
<1> QED BY <1>4, <1>5, <1>6, <1>7 DEF CoupledLow

(* ... and while it is high. *)
LEMMA HighHalf ==
    ASSUME Inv, Tick, CoupledHigh, master.pc = "jmp_x", UnderWay, ~IsOver, ~IsOver'
    PROVE  /\ master'.pc = "jmp_x" => CoupledHigh'
           /\ master'.pc # "jmp_x" => master'.pc = "out" /\ CoupledNext'
<1>1. /\ Sampled \in Nat /\ Heard \in Nat /\ master.wait \in Nat /\ device.wait \in Nat
      /\ device.x \in {0, 1} /\ timer \in Nat /\ master.wait < kCyclesPerUs
      /\ Sampled <= kWireBitsPerByte
  BY Scalars, Phases, NowOver DEF Inv
<1>2. late' = late BY TheRest
<1>3. \/ master'.pc = "jmp_x" /\ master'.wait = master.wait - 1 /\ master.wait # 0 /\ Sampled' = Sampled
         /\ Risen' = Risen + 1 /\ Risen \in Nat
      \/ Sampled' = Sampled /\ Risen = kCyclesPerUs - 1 /\ master'.pc \in {"out", "out_y"}
         /\ (master'.pc = "out" <=> Sampled < kWireBitsPerByte)
  BY <1>1, MasterTicks, Numbers DEF MasterMoves, Risen
<1>4. CASE device.pc \in Prelude
  <2>1. late /\ ~Pending /\ ~Pending' /\ Heard = 0
    BY <1>4, PendingTicks, Phases DEF CoupledHigh, Prelude
  <2>2. device'.pc \in Prelude \/ (device'.pc = "wait_low" /\ Heard' = 0)
    BY <1>4, <2>1, <1>1, DeviceTicks, PendingTicks, Phases DEF Prelude, DeviceMoves
  <2>3. Sampled < kWireBitsPerByte BY <1>4, <1>1, NowOver, Numbers DEF Partial
  <2> QED BY <2>1, <2>2, <2>3, <1>1, <1>2, <1>3 DEF CoupledHigh, CoupledNext, AsMany
<1>5. CASE device.pc = "out"
  <2>1. OneLess /\ late /\ Risen = 0 BY <1>5 DEF CoupledHigh, Prelude
  <2>2. device'.pc = "wait_high" /\ Heard' = Heard BY <1>5, DeviceTicks, Phases DEF DeviceMoves
  <2> QED BY <2>1, <2>2, <1>1, <1>2, <1>3, Numbers DEF CoupledHigh, OneLess, Behind
<1>6. CASE device.pc = "wait_high"
  <2>1. OneLess /\ Behind(0) BY <1>6 DEF CoupledHigh, Prelude
  <2>2. device'.pc = "in" /\ Heard' = Heard BY <1>6, DeviceTicks, Phases DEF DeviceMoves
  <2> QED BY <2>1, <2>2, <1>1, <1>2, <1>3, Numbers DEF CoupledHigh, OneLess, Behind
<1>7. CASE device.pc = "in"
  <2>1. OneLess /\ Behind(1) BY <1>7 DEF CoupledHigh, Prelude
  <2>2. device'.pc = "jmp_y" /\ Heard' = Heard + 1 BY <1>7, DeviceTicks, Phases DEF DeviceMoves
  <2> QED BY <2>1, <2>2, <1>1, <1>2, <1>3, Numbers DEF CoupledHigh, OneLess, AsMany, Behind
<1>8. CASE device.pc = "jmp_y"
  <2>1. AsMany /\ Behind(2) BY <1>8 DEF CoupledHigh, Prelude
  <2>2. /\ Heard' = Heard
        /\ \/ device'.pc = "mov" /\ Heard = kWireBitsPerByte
           \/ device'.pc = "wait_low"
    BY <1>8, DeviceTicks, Phases DEF DeviceMoves
  <2> QED BY <2>1, <2>2, <1>1, <1>2, <1>3, Numbers DEF CoupledHigh, AsMany, Behind
<1>9. CASE device.pc = "mov"
  <2>1. Heard = Sampled /\ Behind(3) BY <1>9 DEF CoupledHigh, Prelude
  <2>2. device'.pc = "release" /\ Heard' = Heard BY <1>9, DeviceTicks, Phases DEF DeviceMoves
  <2> QED BY <2>1, <2>2, <1>1, <1>2, <1>3, Numbers DEF CoupledHigh, Behind
<1>10. CASE device.pc = "release"
  <2>1. Heard = Sampled /\ Behind(4) BY <1>10 DEF CoupledHigh, Prelude
  <2>2. device'.pc = "push" /\ Heard' = Heard BY <1>10, DeviceTicks, Phases DEF DeviceMoves
  <2> QED BY <2>1, <2>2, <1>1, <1>2, <1>3, Numbers DEF CoupledHigh, Behind
<1>11. CASE device.pc = "push"
  <2>1. Heard = Sampled /\ Behind(5) /\ Heard = kWireBitsPerByte BY <1>11, Phases DEF CoupledHigh, Prelude
  <2>2. device'.pc = "pull" BY <1>11, DeviceTicks, Phases DEF DeviceMoves
  <2>3. IsOver' BY <2>1, <2>2, <1>1, <1>2, <1>3, NextOver DEF Partial, Prelude
  <2> QED BY <2>3
<1>12. CASE device.pc = "wait_low"
  <2>1. AsMany /\ (late \/ Risen >= 3) BY <1>12 DEF CoupledHigh, Prelude
  <2>2. device'.pc = "wait_low" /\ Heard' = Heard BY <1>12, DeviceTicks, Phases DEF DeviceMoves
  <2>3. Sampled < kWireBitsPerByte BY <1>12, <1>1, NowOver, Numbers DEF Partial
  <2> QED BY <2>1, <2>2, <2>3, <1>1, <1>2, <1>3, Numbers DEF CoupledHigh, CoupledNext, AsMany
<1> QED BY <1>4, <1>5, <1>6, <1>7, <1>8, <1>9, <1>10, <1>11, <1>12 DEF CoupledHigh

(* While a byte is clocked, a tick. *)
LEMMA CoupledClockTicks ==
    ASSUME Inv, Tick
    PROVE  CoupledClock'
<1> SUFFICES ASSUME Clocking'
             PROVE  \/ IsIdle(device)' /\ master'.pc \in {"in", "jmp_x", "out"}
                    \/ master'.pc = "in" /\ CoupledLow'
                    \/ master'.pc = "jmp_x" /\ CoupledHigh'
                    \/ master'.pc = "out" /\ CoupledNext'
  BY DEF CoupledClock
<1>1. UnderWay /\ ~Starting' /\ ~IsOver' BY TheRest DEF Clocking
<1>2. ~IsOver BY <1>1, StaysOver DEF Over
<1>3. CASE Starting BY <1>1, <1>3, FirstEdge
<1>4. CASE ~Starting
  <2>1. Clocking BY <1>1, <1>2, <1>4 DEF Clocking
  <2>2. /\ Sampled \in Nat /\ Heard \in Nat /\ master.wait \in Nat
        /\ Sampled <= kWireBitsPerByte
    BY Scalars, NowOver DEF Inv
  <2>3. CASE IsIdle(device) /\ master.pc \in {"in", "jmp_x", "out"}
    <3>1. IsIdle(device)' BY <2>3, DeviceTicks, Phases DEF DeviceMoves, IsIdle
    <3>2. Sampled < kWireBitsPerByte
      BY <2>3, <2>2, <1>1, <1>2, NowOver, Numbers DEF IsIdle, Partial, Prelude
    <3>3. master'.pc \in {"in", "jmp_x", "out"}
      BY <2>3, <3>2, <2>2, MasterTicks DEF MasterMoves
    <3> QED BY <3>1, <3>3
  <2>4. CASE master.pc = "in" /\ CoupledLow
    <3>1. master'.pc \in {"in", "jmp_x"} BY <2>4, MasterTicks DEF MasterMoves
    <3> QED BY <2>4, <3>1, LowHalf
  <2>5. CASE master.pc = "jmp_x" /\ CoupledHigh
    BY <2>5, <1>1, <1>2, HighHalf
  <2>6. CASE master.pc = "out" /\ CoupledNext
    <3>1. \/ master'.pc = "out"
          \/ master'.pc = "in" /\ master'.wait = 2 * kCyclesPerUs - 1
      BY <2>6, MasterTicks DEF MasterMoves
    <3>2. Sampled' = Sampled BY <2>6, MasterTicks DEF MasterMoves
    <3>3. master'.pc = "in" => Fallen' = 0 BY <3>1, Numbers DEF Fallen
    <3>4. CASE device.pc \in Prelude
      <4>1. late /\ ~Pending /\ ~Pending' /\ Heard = 0
        BY <3>4, <2>6, PendingTicks, Phases DEF CoupledNext, Prelude
      <4>2. device'.pc \in Prelude \/ (device'.pc = "wait_low" /\ Heard' = 0)
        BY <3>4, <4>1, <2>6, DeviceTicks, PendingTicks, Phases, Scalars DEF Inv, Prelude, DeviceMoves
      <4> QED BY <4>1, <4>2, <2>2, <3>1, <3>2, TheRest DEF CoupledLow, CoupledNext, AsMany
    <3>5. CASE device.pc = "wait_low"
      <4>1. AsMany BY <3>5, <2>6 DEF CoupledNext, Prelude
      <4>2. device'.pc = "wait_low" /\ Heard' = Heard
        BY <3>5, <2>6, DeviceTicks, Phases DEF DeviceMoves
      <4> QED BY <4>1, <4>2, <2>2, <3>1, <3>2, <3>3, TheRest DEF CoupledLow, CoupledNext, AsMany
    <3> QED BY <2>6, <3>4, <3>5 DEF CoupledNext
  <2> QED BY <2>1, <2>3, <2>4, <2>5, <2>6 DEF Inv, CoupledClock
<1> QED BY <1>3, <1>4

(* A byte that has just been clocked. *)
(* A byte was being clocked when it got over. *)
LEMMA WasClocking ==
    ASSUME Inv, Tick, UnderWay, ~Over, Over'
    PROVE  ~IsOver /\ IsOver' /\ Clocking
<1>1. ~IsOver /\ IsOver' BY DEF Over
<1>2. ~Starting
  <2>1. ASSUME Starting PROVE FALSE
    <3>1. \/ master'.pc = "pull" /\ master'.tx # <<>> /\ Sampled' = 0
          \/ master'.pc \in {"set_x", "out", "in"} /\ Sampled' = 0
      BY <2>1, Scalars, MasterTicks, Phases DEF MasterMoves, Starting, Inv
    <3> QED BY <3>1, <1>1, NextOver, Numbers
  <2> QED BY <2>1
<1> QED BY <1>1, <1>2 DEF Clocking

(* A byte that gets over does so at the end of the last bit, with no ACK owed. *)
LEMMA JustOver ==
    ASSUME Inv, Tick, UnderWay, ~Over, Over'
    PROVE  /\ master'.pc \in {"jmp_x", "out_y"} /\ Sampled' = kWireBitsPerByte
           /\ ~Pending' /\ device'.pc \in Prelude \cup {"wait_low"}
           /\ device'.pc = "wait_low" => late \/ Heard' = 0
<1>1. ~IsOver /\ IsOver' BY WasClocking
<1>2. /\ Sampled \in Nat /\ Heard \in Nat /\ master.wait \in Nat /\ device.x \in {0, 1}
      /\ Sampled <= kWireBitsPerByte
  BY Scalars, NowOver DEF Inv
<1>4. CoupledClock /\ Clocking BY WasClocking DEF Inv
<1>5. CASE IsIdle(device)
  <2>1. device'.pc = "pull" /\ device'.tx = <<>> BY <1>5, DeviceTicks, Phases DEF DeviceMoves, IsIdle
  <2>2. ~Pending' BY <1>5, PendingTicks DEF IsIdle
  <2>3. Sampled < kWireBitsPerByte
    BY <1>5, <1>2, <1>1, NowOver, Numbers DEF IsIdle, Partial, Prelude
  <2>4. master.pc \in {"in", "jmp_x", "out"}
    BY <1>4 DEF CoupledClock
  <2>5. master'.pc = "jmp_x" /\ Sampled' = kWireBitsPerByte
    BY <2>4, <2>3, <1>1, <1>2, MasterTicks, NextOver, Numbers DEF MasterMoves
  <2> QED BY <2>1, <2>2, <2>5 DEF Prelude
<1>6. CASE ~IsIdle(device) /\ master.pc = "in" /\ CoupledLow
  <2>1. master'.pc \in {"in", "jmp_x"} BY <1>6, MasterTicks DEF MasterMoves
  <2>2. master'.pc = "jmp_x" /\ Sampled' = kWireBitsPerByte
    <3>1. master'.pc = "in" => Sampled' < kWireBitsPerByte
      BY <1>6, <1>2, MasterTicks, Phases DEF MasterMoves
    <3> QED BY <2>1, <3>1, <1>1, NextOver, Numbers
  <2>3. device.pc \in Prelude
    <3>1. ASSUME device.pc \in {"wait_low", "out", "wait_high"} PROVE FALSE
      <4>1. device'.pc \in {"out", "wait_high"} BY <3>1, <1>6, DeviceTicks DEF DeviceMoves
      <4>2. Partial' /\ device'.pc # "wait_low" BY <4>1 DEF Partial, Prelude, Pulse, IsReady
      <4> QED BY <4>2, <1>1, NextOver
    <3> QED BY <3>1, <1>6 DEF CoupledLow
  <2>4. late /\ ~Pending /\ ~Pending' /\ Heard = 0
    BY <2>3, <1>6, PendingTicks, Phases DEF CoupledLow, Prelude
  <2>5. device'.pc \in Prelude \/ device'.pc = "wait_low"
    BY <2>3, <2>4, <1>2, DeviceTicks, PendingTicks, Phases DEF Prelude, DeviceMoves
  <2> QED BY <2>2, <2>4, <2>5
<1>7. CASE ~IsIdle(device) /\ master.pc = "jmp_x" /\ CoupledHigh
  <2>1. master'.pc \in {"jmp_x", "out_y", "out"} /\ Sampled' = Sampled
    BY <1>7, MasterTicks DEF MasterMoves
  <2>2. master'.pc \in {"jmp_x", "out_y"} /\ Sampled = kWireBitsPerByte
    <3>1. Sampled = kWireBitsPerByte BY <2>1, <1>1, NextOver
    <3>2. master'.pc # "out" BY <3>1, <1>7, <1>2, MasterTicks, Numbers DEF MasterMoves
    <3> QED BY <2>1, <3>1, <3>2
  <2>3. Partial /\ device.pc # "wait_low" BY <1>1, <2>2, NowOver
  <2>4. device'.pc \in {"wait_low", "pull"} \/ ~Partial'
    BY <1>1, NextOver
  <2>5. \/ device.pc = "jmp_y" /\ device'.pc = "wait_low" /\ AsMany /\ Heard < kWireBitsPerByte
        \/ device.pc = "push" /\ device'.pc = "pull" /\ device'.tx = <<>>
    <3>1. device.pc \notin Prelude /\ device.pc \notin Pulse BY <2>3 DEF Partial
    <3>2. /\ device.pc \in {"out", "wait_high", "in", "jmp_y", "mov", "release", "push"}
          /\ device.pc = "jmp_y" => AsMany
      BY <1>7, <2>3, <3>1 DEF CoupledHigh
    <3>3. device'.pc \in {"wait_low", "pull"} \cup Prelude \cup Pulse
      BY <2>4 DEF Partial, IsReady
    <3>4. \/ device.pc = "jmp_y" /\ device'.pc = "wait_low" /\ Heard < kWireBitsPerByte
          \/ device.pc = "push" /\ device'.pc = "pull" /\ device'.tx = <<>>
      <4>1. DeviceMoves BY DeviceTicks
      <4>2. device'.pc \notin {"wait_high", "in", "jmp_y", "mov", "release", "push"}
        BY <3>3 DEF Prelude, Pulse
      <4> QED BY <4>1, <4>2, <3>2, <1>7 DEF DeviceMoves
    <3> QED BY <3>2, <3>4
  <2>6. ~Pending' BY <2>5, PendingTicks
  <2>7. device'.pc = "wait_low" => late
    BY <2>5, <2>2, <1>2, Numbers DEF AsMany
  <2> QED BY <2>1, <2>2, <2>5, <2>6, <2>7 DEF Prelude
<1>8. CASE ~IsIdle(device) /\ master.pc = "out"
  <2>1. master'.pc \in {"out", "in"} /\ Sampled' < kWireBitsPerByte
    BY <1>8, <1>2, MasterTicks, Phases DEF MasterMoves
  <2> QED BY <2>1, <1>1, NextOver, Numbers
<1> QED BY <1>4, <1>5, <1>6, <1>7, <1>8 DEF CoupledClock

(* How the master gets to its poll, and sees the ACK. *)
LEMMA ToPollTicks ==
    ASSUME Inv, Tick, Over, waits, BeforePush
    PROVE  /\ BeforePush' \/ (master.pc = "wait_ack" /\ master.wait = 0 /\ device.pc = "ack_high"
                              /\ master'.pc = "push" /\ master'.wait = kCyclesPerUs - 1)
           /\ BeforePush' => ToPoll' = ToPoll - 1 \/ (ToPoll = 0 /\ ToPoll' = kCyclesPerUs - 1)
           /\ ToPoll \in Nat
           /\ BeforePush' /\ device.pc = "ack_high" => ToPoll' = ToPoll - 1
<1>5. master.wait \in Nat BY Scalars DEF Inv
<1>6. Sampled = kWireBitsPerByte BY NowOver DEF Over, BeforePush
<1>1. Sampled = kWireBitsPerByte /\ MasterMoves
  BY <1>6, MasterTicks DEF BeforePush
<1>2. ToPoll \in Nat BY <1>5, Numbers DEF ToPoll
<1>3. CASE master.wait # 0
  <2>1. master'.pc = master.pc /\ master'.wait = master.wait - 1 BY <1>1, <1>3 DEF MasterMoves
  <2>2. ToPoll' = ToPoll - 1 BY <2>1, <1>5, Numbers DEF ToPoll
  <2> QED BY <1>2, <1>3, <2>1, <2>2 DEF BeforePush
<1>4. CASE master.wait = 0
  <2>1. master'.wait = kCyclesPerUs - 1
    BY <1>1, <1>4 DEF MasterMoves, BeforePush
  <2>2. \/ master.pc = "jmp_x" /\ master'.pc = "out_y"
        \/ master.pc = "out_y" /\ master'.pc = "jmp_y"
        \/ master.pc = "jmp_y" /\ master'.pc = "wait_ack"
        \/ master.pc = "wait_ack" /\ master'.pc = "wait_ack" /\ device.pc # "ack_high"
        \/ master.pc = "wait_ack" /\ master'.pc = "push" /\ device.pc = "ack_high"
    BY <1>1, <1>4, Numbers DEF MasterMoves, BeforePush
  <2>3. CASE master.pc # "wait_ack"
    <3>1. BeforePush' BY <2>2, <2>3 DEF BeforePush
    <3>2. ToPoll' = ToPoll - 1 BY <2>1, <2>2, <2>3, <1>4, <1>5, Numbers DEF ToPoll
    <3> QED BY <1>2, <3>1, <3>2
  <2>4. CASE master.pc = "wait_ack"
    <3>1. ToPoll = 0 BY <2>4, <1>4 DEF ToPoll
    <3>2. CASE master'.pc = "wait_ack"
      <4>1. BeforePush' /\ ToPoll' = kCyclesPerUs - 1 BY <3>2, <2>1 DEF BeforePush, ToPoll
      <4>2. device.pc # "ack_high" BY <2>2, <2>4, <3>2
      <4> QED BY <1>2, <3>1, <4>1, <4>2
    <3>3. CASE master'.pc = "push"
      <4>1. ~BeforePush' BY <3>3 DEF BeforePush
      <4> QED BY <1>2, <1>4, <2>1, <2>2, <2>4, <3>3, <4>1
    <3> QED BY <2>2, <2>4, <3>2, <3>3
  <2> QED BY <2>3, <2>4
<1> QED BY <1>1, <1>3, <1>4

(* After the last bit, a tick. *)
LEMMA CoupledEndTicks ==
    ASSUME Inv, Tick
    PROVE  CoupledEnd'
<1>1. /\ Sampled \in Nat /\ Heard \in Nat /\ master.wait \in Nat /\ device.wait \in Nat
      /\ device.x \in {0, 1} /\ device.wait < 2 * kCyclesPerUs
  BY Scalars DEF Inv
<1>2. CASE ~UnderWay BY <1>2, TheRest DEF CoupledEnd, Over
<1>3. CASE UnderWay /\ ~Over
  <2>1. CASE Over'
    <3>1. BeforePush' BY <1>3, <2>1, JustOver DEF BeforePush
    <3> QED BY <1>3, <2>1, <3>1, JustOver, TheRest DEF CoupledEnd, Prelude, Pulse
  <2> QED BY <2>1 DEF CoupledEnd
<1>4. CASE Over
  <2>1. CoupledEnd /\ UnderWay /\ IsOver BY <1>4 DEF Inv, Over
  <2>2. Sampled = kWireBitsPerByte \/ (master.pc = "pull" /\ master.tx = <<>>) BY <2>1, NowOver
  <2>3. BeforePush \/ master.pc = "push" \/ (master.pc = "pull" /\ master.tx = <<>>)
    BY <2>2, <1>1, Scalars, Phases, Numbers DEF BeforePush, Inv
  <2>4. master.pc # "in" BY <2>3 DEF BeforePush
  <2>5. device'.pc \in Prelude \cup Pulse \cup {"wait_low"}
    BY <2>1, <2>4, <1>4, DeviceTicks DEF CoupledEnd, DeviceMoves, Prelude, Pulse
  <2>6. device'.pc = "wait_low" => late \/ Heard' = 0
    BY <2>1, <2>4, <1>4, DeviceTicks, Phases DEF CoupledEnd, DeviceMoves, Prelude, Pulse
  <2>7. ASSUME waits, BeforePush
        PROVE  /\ BeforePush' \/ (master.pc = "wait_ack" /\ master.wait = 0 /\ device.pc = "ack_high"
                                  /\ master'.pc = "push" /\ master'.wait = kCyclesPerUs - 1)
               /\ BeforePush' => ToPoll' = ToPoll - 1 \/ (ToPoll = 0 /\ ToPoll' = kCyclesPerUs - 1)
               /\ ToPoll \in Nat
               /\ BeforePush' /\ device.pc = "ack_high" => ToPoll' = ToPoll - 1
    BY <2>7, <1>4, ToPollTicks
  <2>8. ASSUME waits, Pending'
        PROVE  /\ BeforePush'
               /\ \/ device'.pc = "pull" /\ ToPoll' <= 2 * kCyclesPerUs + 3
                  \/ device'.pc = "out_x" /\ ToPoll' <= 2 * kCyclesPerUs + 2
                  \/ device'.pc = "jmp_x" /\ ToPoll' <= 2 * kCyclesPerUs + 1
                  \/ device'.pc = "ack_low" /\ ToPoll' <= 2 * kCyclesPerUs
    <3>1. Pending /\ device.pc # "ack_low" BY <2>8, PendingTicks
    <3>2. /\ BeforePush
          /\ \/ device.pc = "pull" /\ ToPoll <= 2 * kCyclesPerUs + 3
             \/ device.pc = "out_x" /\ ToPoll <= 2 * kCyclesPerUs + 2
             \/ device.pc = "jmp_x" /\ ToPoll <= 2 * kCyclesPerUs + 1
      BY <2>8, <2>1, <1>4, <3>1 DEF CoupledEnd
    <3>3. \/ device.pc = "pull" /\ device'.pc = "out_x"
          \/ device.pc = "out_x" /\ device'.pc = "jmp_x"
          \/ device.pc = "jmp_x" /\ device'.pc = "ack_low"
      BY <3>1, <3>2, <1>1, DeviceTicks, PendingTicks, Phases DEF DeviceMoves
    <3>4. BeforePush' /\ ToPoll \in Nat
          /\ (ToPoll' = ToPoll - 1 \/ (ToPoll = 0 /\ ToPoll' = kCyclesPerUs - 1))
      BY <2>7, <2>8, <3>2, <3>3
    <3> QED BY <3>2, <3>3, <3>4, Numbers
  <2>9. ASSUME waits, device'.pc = "ack_high"
        PROVE  \/ BeforePush' /\ device'.wait >= ToPoll'
               \/ master'.pc = "push" /\ device'.wait < master'.wait + kCyclesPerUs
               \/ master'.pc = "pull" /\ device'.wait < master'.wait
    <3>1. CASE device.pc = "ack_low"
      <4>1. device'.wait = 2 * kCyclesPerUs - 1 /\ Pending
        BY <3>1, DeviceTicks, PendingTicks, Phases DEF DeviceMoves
      <4>2. BeforePush /\ ToPoll <= 2 * kCyclesPerUs
        BY <4>1, <3>1, <2>9, <2>1, <1>4 DEF CoupledEnd
      <4>3. BeforePush' /\ ToPoll \in Nat
            /\ (ToPoll' = ToPoll - 1 \/ (ToPoll = 0 /\ ToPoll' = kCyclesPerUs - 1))
        BY <2>7, <2>9, <3>1, <4>2
      <4> QED BY <4>1, <4>2, <4>3, Numbers
    <3>2. CASE device.pc = "ack_high"
      <4>1. device'.wait = device.wait - 1 /\ device.wait # 0
        BY <3>2, <2>9, DeviceTicks DEF DeviceMoves
      <4>2. \/ BeforePush /\ device.wait >= ToPoll
            \/ master.pc = "push" /\ device.wait < master.wait + kCyclesPerUs
            \/ master.pc = "pull" /\ device.wait < master.wait
        BY <3>2, <2>9, <2>1, <1>4 DEF CoupledEnd
      <4>3. CASE BeforePush /\ device.wait >= ToPoll
        <5>1. ToPoll \in Nat BY <4>3, <2>9, <2>7
        <5>2. CASE BeforePush'
          <6>1. ToPoll' = ToPoll - 1 BY <2>7, <2>9, <4>3, <3>2, <5>2
          <6> QED BY <5>1, <5>2, <6>1, <4>1, <4>3, <1>1
        <5>3. CASE ~BeforePush'
          <6>1. master'.pc = "push" /\ master'.wait = kCyclesPerUs - 1 BY <2>7, <2>9, <4>3, <5>3
          <6> QED BY <6>1, <4>1, <1>1, Numbers
        <5> QED BY <5>2, <5>3
      <4>4. CASE master.pc = "push" /\ device.wait < master.wait + kCyclesPerUs
        BY <4>4, <4>1, <1>1, MasterTicks, Numbers DEF MasterMoves
      <4>5. CASE master.pc = "pull" /\ device.wait < master.wait
        BY <4>5, <4>1, <1>1, MasterTicks, Numbers DEF MasterMoves
      <4> QED BY <4>2, <4>3, <4>4, <4>5
    <3> QED BY <2>9, <3>1, <3>2, DeviceTicks, Phases DEF DeviceMoves
  <2>10. ASSUME waits, ~BeforePush'
         PROVE  device'.pc \in {"ack_high", "set_y"} \/ IsReady'
    <3>1. CASE BeforePush
      <4>1. device.pc = "ack_high" BY <3>1, <2>7, <2>10
      <4> QED BY <4>1, DeviceTicks DEF DeviceMoves
    <3>2. CASE ~BeforePush
      <4>1. device.pc \in {"ack_high", "set_y"} \/ IsReady BY <3>2, <2>10, <2>1, <1>4 DEF CoupledEnd
      <4> QED BY <4>1, <2>4, DeviceTicks, Phases DEF DeviceMoves, IsReady, Prelude
    <3> QED BY <3>1, <3>2
  <2> QED BY <2>5, <2>6, <2>8, <2>9, <2>10, TheRest DEF CoupledEnd
<1> QED BY <1>2, <1>3, <1>4

(* The bits take four cycles each. *)
LEMMA TookBits ==
    ASSUME NEW s \in Nat
    PROVE  /\ Took(s) \in Nat /\ Took(s + 1) = Took(s) + 4 * kCyclesPerUs
           /\ Took(0) = 0
<1>1. PICK k \in Nat : k = kCyclesPerUs BY Numbers
<1>2. 4 * s * k \in Nat OBVIOUS
<1>3. 4 * (s + 1) * k = 4 * s * k + 4 * k OBVIOUS
<1>4. 4 * 0 * k = 0 OBVIOUS
<1> QED BY <1>1, <1>2, <1>3, <1>4 DEF Took

(* The device pushes a byte it heard all of, after the last edge. *)
LEMMA SeesPush ==
    ASSUME Inv, UnderWay, device.pc = "push"
    PROVE  /\ ~Over /\ Clocking /\ mcpu = "poll"
           /\ master.pc = "jmp_x" /\ Sampled = kWireBitsPerByte
           /\ master.wait <= kCyclesPerUs - 6 /\ master.wait >= kCyclesPerUs - 7
           /\ Heard = kWireBitsPerByte
<1>1. ~Over BY DEF Inv, CoupledEnd, Prelude, Pulse
<1>2. ~Starting
  BY DEF Inv, CoupledStart, BeforeByte, IsIdle, IsReady, Prelude
<1>3. Clocking BY <1>1, <1>2 DEF Clocking, Over
<1>4. master.pc = "jmp_x" /\ CoupledHigh
  BY <1>3 DEF Inv, CoupledClock, IsIdle, CoupledLow, CoupledNext, Prelude
<1>5. Heard = Sampled /\ Behind(5) /\ Heard = kWireBitsPerByte
  BY <1>4, Phases DEF CoupledHigh, Prelude
<1>6. master.wait \in Nat BY Scalars DEF Inv
<1>7. master.wait <= kCyclesPerUs - 6 /\ master.wait >= kCyclesPerUs - 7
  BY <1>5, <1>6, Numbers DEF Behind, Risen
<1>8. mcpu = "poll" BY <1>1 DEF Inv, TimerHolds, UnderWay
<1> QED BY <1>1, <1>3, <1>4, <1>5, <1>7, <1>8

(* How long the byte has taken, after a tick. *)
LEMMA TimerTicks ==
    ASSUME Inv, Tick
    PROVE  TimerHolds'
<1>1. /\ Sampled \in Nat /\ master.wait \in Nat /\ timer \in Nat
  BY Scalars DEF Inv
<1>2. mcpu = "recover" => (Over /\ waits)'
  BY StaysOver, TheRest DEF Inv, TimerHolds
<1>3. ASSUME mcpu = "poll"
      PROVE  LET total == timer' + master'.wait
             IN  /\ Starting' /\ master'.pc = "pull" => total < kCyclesPerUs
                 /\ master'.pc = "set_x" => total >= kCyclesPerUs /\ total < 2 * kCyclesPerUs
                 /\ master'.pc \in {"out", "in", "jmp_x"} => total >= 2 * kCyclesPerUs
                 /\ master'.pc = "out"   => total < Took(Sampled') + 3 * kCyclesPerUs
                 /\ master'.pc = "in"    => total < Took(Sampled') + 5 * kCyclesPerUs
                 /\ master'.pc = "jmp_x" => total < Took(Sampled') + 2 * kCyclesPerUs
                 /\ master'.pc = "out_y" => total < Took(Sampled') + 3 * kCyclesPerUs
                 /\ master'.pc = "jmp_y" => total < Took(Sampled') + 4 * kCyclesPerUs
                 /\ master'.pc = "push" /\ ~waits' => total < Took(Sampled') + 5 * kCyclesPerUs
  <2>1. timer' = timer + 1 /\ waits' = waits /\ UnderWay /\ UnderWay' BY <1>3, TheRest DEF UnderWay
  <2>2. PICK t \in Nat : t = Took(Sampled) BY <1>1, TookBits
  <2>3. Took(Sampled + 1) = t + 4 * kCyclesPerUs /\ (Sampled = 0 => t = 0)
    BY <1>1, <2>2, TookBits
  <2>4. LET total == timer + master.wait
        IN  /\ Starting /\ master.pc = "pull" => total < kCyclesPerUs
            /\ master.pc = "set_x" => total >= kCyclesPerUs /\ total < 2 * kCyclesPerUs
            /\ master.pc \in {"out", "in", "jmp_x"} => total >= 2 * kCyclesPerUs
            /\ master.pc = "out"   => total < t + 3 * kCyclesPerUs
            /\ master.pc = "in"    => total < t + 5 * kCyclesPerUs
            /\ master.pc = "jmp_x" => total < t + 2 * kCyclesPerUs
            /\ master.pc = "out_y" => total < t + 3 * kCyclesPerUs
            /\ master.pc = "jmp_y" => total < t + 4 * kCyclesPerUs
            /\ master.pc = "push" /\ ~waits => total < t + 5 * kCyclesPerUs
    BY <1>3, <2>2 DEF Inv, TimerHolds
  <2>5. MasterMoves BY MasterTicks
  <2>6. master'.pc = "pull" => (Starting' <=> master'.tx # <<>>)
    BY <2>1 DEF Starting
  <2>7. CASE master.wait # 0
    <3>1. master'.pc = master.pc /\ master'.wait = master.wait - 1 /\ Sampled' = Sampled
          /\ master'.tx = master.tx
      BY <2>5, <2>7 DEF MasterMoves
    <3>2. timer' + master'.wait = timer + master.wait BY <3>1, <2>1, <1>1, <2>7
    <3>3. Starting' /\ master'.pc = "pull" => Starting
      BY <3>1, <2>1, <2>6, Phases
    <3> QED BY <3>1, <3>2, <3>3, <2>1, <2>2, <2>4
  <2>8. CASE master.wait = 0 /\ master.pc \in {"pull", "set_x"}
    <3>1. Sampled = 0 /\ Sampled' = 0 /\ t = 0 /\ master'.wait = kCyclesPerUs - 1
      BY <2>3, <2>5, <2>8, Phases DEF MasterMoves
    <3>2. Took(Sampled') = 0 BY <3>1, TookBits
    <3>3. \/ master.pc = "pull" /\ master.tx = <<>> /\ master'.pc = "pull" /\ master'.tx = <<>>
          \/ master.pc = "pull" /\ master.tx # <<>> /\ master'.pc = "set_x"
          \/ master.pc = "set_x" /\ master'.pc = "out"
      BY <2>5, <2>8 DEF MasterMoves
    <3>4. master.pc = "pull" /\ master.tx # <<>> => Starting BY <2>1, Phases
    <3> QED BY <3>1, <3>2, <3>3, <3>4, <2>1, <2>4, <2>6, <2>8, <1>1, Numbers
  <2>9. CASE master.wait = 0 /\ master.pc \in {"out", "in", "jmp_x"}
    <3>1. \/ master.pc = "out" /\ master'.pc = "in" /\ Sampled' = Sampled /\ master'.wait = 2 * kCyclesPerUs - 1
          \/ master.pc = "in" /\ master'.pc = "jmp_x" /\ Sampled' = Sampled + 1 /\ master'.wait = kCyclesPerUs - 1
          \/ master.pc = "jmp_x" /\ master'.pc \in {"out", "out_y"} /\ Sampled' = Sampled
             /\ master'.wait = kCyclesPerUs - 1
      BY <2>5, <2>9 DEF MasterMoves
    <3> QED BY <3>1, <2>1, <2>2, <2>3, <2>4, <2>9, <1>1, Numbers
  <2>10. CASE master.wait = 0 /\ master.pc \in {"out_y", "jmp_y", "wait_ack", "push"}
    <3>1. \/ master.pc = "out_y" /\ master'.pc = "jmp_y" /\ Sampled' = Sampled /\ master'.wait = kCyclesPerUs - 1
          \/ master.pc = "jmp_y" /\ waits /\ master'.pc = "wait_ack"
          \/ master.pc = "jmp_y" /\ ~waits /\ master'.pc = "push" /\ Sampled' = Sampled
             /\ master'.wait = kCyclesPerUs - 1
          \/ master.pc = "wait_ack" /\ master'.pc = "wait_ack"
          \/ master.pc = "wait_ack" /\ master'.pc = "push"
          \/ master.pc = "push" /\ master'.pc = "pull" /\ master'.tx = <<>>
      BY <2>5, <2>10 DEF MasterMoves
    <3>2. master.pc = "wait_ack" => waits
      BY DEF Inv, MasterHolds, MasterAt, Flag
    <3> QED BY <3>1, <3>2, <2>1, <2>2, <2>4, <2>6, <2>10, <1>1, Numbers
  <2> QED BY <2>7, <2>8, <2>9, <2>10, Scalars DEF Inv
<1> QED BY <1>2, <1>3, TheRest DEF TimerHolds

(* What the CPUs know, after a tick. *)
LEMMA CpuLateTicks ==
    ASSUME Inv, Tick
    PROVE  CpuHolds' /\ LateHolds'
<1>1. IsLast' = IsLast BY TheRest DEF IsLast
<1>2. CpuHolds' BY <1>1, TheRest DEF Inv, CpuHolds
<1>3. UnderWay /\ ~IsOver' => ~IsOver BY StaysOver DEF Over
<1>4. LateHolds' BY <1>3, TheRest DEF Inv, LateHolds
<1> QED BY <1>2, <1>4

Answered == IF IsIdle(device) THEN kReleasedByte ELSE loaded

(* The device does not fall idle in the middle of a byte. *)
LEMMA SameIdle ==
    ASSUME Inv, Tick, UnderWay, ~IsOver, ~IsOver'
    PROVE  /\ IsIdle(device)' <=> IsIdle(device)
           /\ Answered' = Answered
<1>1. IsIdle(device) => IsIdle(device)'
  BY DeviceTicks, Phases DEF DeviceMoves, IsIdle
<1>2. ASSUME IsIdle(device)', ~IsIdle(device) PROVE FALSE
  <2>1. device.pc = "push" /\ device'.pc = "pull"
    BY <1>2, DeviceTicks, Phases DEF DeviceMoves, IsIdle
  <2>2. master.pc = "jmp_x" /\ Sampled = kWireBitsPerByte /\ master.wait # 0
    BY <2>1, SeesPush, Scalars, Numbers DEF Inv
  <2>3. Sampled' = kWireBitsPerByte BY <2>2, MasterTicks DEF MasterMoves
  <2> QED BY <2>1, <2>3, NextOver DEF Partial, Prelude
<1> QED BY <1>1, <1>2, TheRest DEF Answered

(* What the master samples at the end of the low half. *)
LEMMA SampledBit ==
    ASSUME Inv, UnderWay, ~IsOver, master.pc = "in", master.wait = 0
    PROVE  data = Answered[Sampled + 1]
<1>1. /\ Sampled \in Nat /\ Heard \in Nat /\ Sampled < kWireBitsPerByte /\ loaded \in Bits
  BY Scalars, Phases DEF Inv, Typed
<1>2. Clocking BY NowOver DEF Clocking, Starting
<1>3. data = 1 - device.pull_data BY DEF data
<1>4. kReleasedByte[Sampled + 1] = 1
  BY <1>1, ReleasedIsByte, Numbers
<1>5. CASE IsIdle(device)
  <2>1. device.pull_data = 0 BY <1>5 DEF IsIdle, Inv, DeviceHolds, DeviceAt, Prelude
  <2> QED BY <1>3, <1>4, <1>5, <2>1 DEF Answered
<1>6. CASE late
  <2>1. loaded = kReleasedByte BY <1>6 DEF Inv, LateHolds
  <2>2. device.pull_data = 0 BY <2>1 DEF Inv, DeviceHolds, DeviceAt
  <2> QED BY <1>3, <1>4, <2>1, <2>2 DEF Answered
<1>7. CASE ~IsIdle(device) /\ ~late
  <2>1. CoupledLow BY <1>2, <1>7 DEF Inv, CoupledClock
  <2>2. Fallen = 2 * kCyclesPerUs - 1 BY Numbers DEF Fallen
  <2>3. device.pc = "wait_high" /\ Heard = Sampled
    BY <2>1, <2>2, <1>7, Numbers DEF CoupledLow, AsMany
  <2>4. device.pull_data = 1 - loaded[Sampled + 1]
    BY <2>3 DEF Inv, DeviceHolds, DeviceAt, Heard
  <2>5. loaded[Sampled + 1] \in {0, 1}
    <3>1. Sampled + 1 \in 1 .. kWireBitsPerByte BY <1>1, Numbers
    <3> QED BY <3>1, <1>1 DEF Bits, Bit
  <2> QED BY <1>3, <1>7, <2>4, <2>5 DEF Answered
<1> QED BY <1>5, <1>6, <1>7

(* What the bits of a byte are when another one is sampled. *)
LEMMA SampledBits ==
    ASSUME Inv, Tick, UnderWay, ~IsOver, master.isr = SubSeq(Answered, 1, Sampled)
    PROVE  master.pc # "push" => master'.isr = SubSeq(Answered, 1, Sampled')
<1>1. /\ Sampled \in Nat /\ Answered \in Bits
  BY Scalars, ReleasedIsByte DEF Inv, Typed, Answered
<1>2. MasterGoes(master, master', data, ack, Flag) BY MasterTicks
<1>3. CASE master.pc = "in" /\ master.wait = 0
  <2>1. master'.isr = Append(master.isr, data) /\ Sampled' = Sampled + 1
    BY <1>2, <1>3, MasterTicks DEF MasterGoes, MasterMoves
  <2>2. data = Answered[Sampled + 1] BY <1>3, SampledBit
  <2>3. Sampled < kWireBitsPerByte BY <1>3, Phases
  <2>4. Answered \in Seq(Bit) /\ Len(Answered) = kWireBitsPerByte BY <1>1, AByte
  <2>5. Sampled \in 0 .. Len(Answered) - 1 BY <1>1, <2>3, <2>4, Numbers
  <2>6. Append(SubSeq(Answered, 1, Sampled), Answered[Sampled + 1]) = SubSeq(Answered, 1, Sampled + 1)
    BY <2>4, <2>5, Grown
  <2> QED BY <2>1, <2>2, <2>6
<1>4. CASE ~(master.pc = "in" /\ master.wait = 0) /\ master.pc # "push"
  <2>1. master'.isr = master.isr BY <1>2, <1>4 DEF MasterGoes
  <2>2. Sampled' = Sampled BY <2>1 DEF Sampled
  <2> QED BY <2>1, <2>2
<1> QED BY <1>3, <1>4

(* What it heard. *)
LEMMA HeardBits ==
    ASSUME Inv, Tick, Clocking, device.isr = SubSeq(sent, 1, Heard), device.pc # "push",
           device.pc = "in" => Heard + 1 = Sampled
    PROVE  device'.isr = SubSeq(sent, 1, Heard')
<1>1. /\ Heard \in Nat /\ sent \in Bits BY Scalars DEF Inv, Typed
<1>2. DeviceGoes(device, device', master.clk, master.cmd) BY DeviceTicks
<1>3. CASE device.pc = "in"
  <2>1. device'.isr = Append(device.isr, master.cmd) /\ Heard' = Heard + 1
    BY <1>2, <1>3, DeviceTicks, Phases DEF DeviceGoes, DeviceMoves
  <2>2. master.pc = "jmp_x"
    BY <1>3 DEF Inv, CoupledClock, IsIdle, CoupledLow, CoupledNext, Prelude
  <2>3. master.cmd = sent[Heard + 1]
    BY <1>3, <2>2 DEF Inv, MasterHolds, MasterAt, Sampled
  <2>4. Heard < kWireBitsPerByte BY <1>3, Phases
  <2>5. sent \in Seq(Bit) /\ Len(sent) = kWireBitsPerByte BY <1>1, AByte
  <2>6. Heard \in 0 .. Len(sent) - 1 BY <1>1, <2>4, <2>5, Numbers
  <2>7. Append(SubSeq(sent, 1, Heard), sent[Heard + 1]) = SubSeq(sent, 1, Heard + 1)
    BY <2>5, <2>6, Grown
  <2> QED BY <2>1, <2>3, <2>7
<1>4. CASE device.pc # "in"
  <2>1. device'.isr = device.isr BY <1>2, <1>4 DEF DeviceGoes
  <2>2. Heard' = Heard BY <2>1 DEF Heard
  <2> QED BY <2>1, <2>2
<1> QED BY <1>3, <1>4

(* A device that heard nothing holds nothing. *)
LEMMA HeardNothing ==
    ASSUME Inv, Tick, Heard' = 0
    PROVE  device'.isr = SubSeq(sent, 1, Heard')
<1>1. device'.isr \in Seq(Bit) BY DeviceTicks DEF DeviceSm
<1>2. Len(device'.isr) = 0 BY DEF Heard
<1>3. device'.isr = <<>> BY <1>1, <1>2
<1>4. SubSeq(sent, 1, 0) = <<>> BY AByte DEF Inv, Typed
<1> QED BY <1>3, <1>4

(* The bits on both sides, after a tick. *)
LEMMA ContentTicks ==
    ASSUME Inv, Tick
    PROVE  Content'
<1> SUFFICES ASSUME Clocking'
             PROVE  /\ master'.isr = SubSeq(Answered', 1, Sampled')
                    /\ ~late /\ ~IsIdle(device)' => device'.isr = SubSeq(sent, 1, Heard')
                    /\ Partial' /\ (Heard' = Sampled' \/ (master'.pc = "jmp_x" /\ Heard' + 1 = Sampled'
                                       /\ device'.pc \in {"out", "wait_high", "in"}))
                         => device'.isr = SubSeq(sent, 1, Heard')
  BY TheRest DEF Content, Answered
<1>1. UnderWay /\ ~Starting' /\ ~IsOver' BY TheRest DEF Clocking
<1>2. ~IsOver BY <1>1, StaysOver DEF Over
<1>3. Answered' = Answered /\ (IsIdle(device)' <=> IsIdle(device)) BY <1>1, <1>2, SameIdle
<1>4. Heard \in Nat /\ Sampled \in Nat BY Scalars DEF Inv
<1>5. CASE Starting
  <2>1. master'.pc = "in" /\ Sampled' = 0 /\ master.pc = "out"
        /\ (IsIdle(device)' \/ CoupledLow')
    BY <1>1, <1>5, FirstEdge
  <2>2. master'.isr = <<>>
    <3>1. master' \in MasterSm BY MasterTicks
    <3>2. master'.isr \in Seq(Bit) BY <3>1 DEF MasterSm
    <3>3. Len(master'.isr) = 0 BY <2>1 DEF Sampled
    <3> QED BY <3>2, <3>3
  <2>3. SubSeq(Answered, 1, 0) = <<>>
    BY AByte, ReleasedIsByte DEF Inv, Typed, Answered
  <2>4. Heard' = 0
    <3>1. CASE IsIdle(device)
      BY <3>1, DeviceTicks, Phases DEF IsIdle, DeviceMoves, Prelude
    <3>2. CASE ~IsIdle(device)
      <4>1. BeforeByte BY <3>2, <1>5 DEF Inv, CoupledStart
      <4>2. Heard = 0 /\ device.pc \notin {"in", "push"}
        BY <4>1, Phases DEF BeforeByte, IsReady, Prelude, Pulse
      <4> QED BY <4>2, DeviceTicks DEF DeviceMoves
    <3> QED BY <3>1, <3>2
  <2> QED BY <1>3, <2>1, <2>2, <2>3, <2>4, HeardNothing
<1>6. CASE ~Starting
  <2>1. Clocking BY <1>1, <1>2, <1>6 DEF Clocking
  <2>2. /\ master.isr = SubSeq(Answered, 1, Sampled)
        /\ ~late /\ ~IsIdle(device) => device.isr = SubSeq(sent, 1, Heard)
        /\ Partial /\ (Heard = Sampled \/ (master.pc = "jmp_x" /\ Heard + 1 = Sampled
                             /\ device.pc \in {"out", "wait_high", "in"}))
             => device.isr = SubSeq(sent, 1, Heard)
    BY <2>1 DEF Inv, Content, Answered
  <2>3. master'.isr = SubSeq(Answered', 1, Sampled')
    <3>1. master.pc # "push" BY <2>1 DEF Inv, CoupledClock
    <3> QED BY <1>1, <1>2, <1>3, <2>2, <3>1, SampledBits
  <2>4. device.pc # "push"
    <3>1. ASSUME device.pc = "push" PROVE FALSE
      <4>1. ~IsIdle(device) /\ IsIdle(device)'
        BY <3>1, DeviceTicks, Phases DEF DeviceMoves, IsIdle
      <4> QED BY <4>1, <1>3
    <3> QED BY <3>1
  <2>5. device.pc = "in" => master.pc = "jmp_x" /\ CoupledHigh
    BY <2>1 DEF Inv, CoupledClock, IsIdle, CoupledLow, CoupledNext, Prelude
  <2>6. ASSUME ~late, ~IsIdle(device)' PROVE device'.isr = SubSeq(sent, 1, Heard')
    <3>1. device.isr = SubSeq(sent, 1, Heard) BY <2>6, <2>2, <1>3
    <3>2. device.pc = "in" => Heard + 1 = Sampled
      BY <2>5, <2>6 DEF CoupledHigh, OneLess, Prelude
    <3> QED BY <2>1, <2>4, <3>1, <3>2, HeardBits
  <2>7. ASSUME Partial', Heard' = Sampled' \/ (master'.pc = "jmp_x" /\ Heard' + 1 = Sampled'
                                       /\ device'.pc \in {"out", "wait_high", "in"})
        PROVE  device'.isr = SubSeq(sent, 1, Heard')
    <3>1. CASE Heard' = 0 BY <3>1, HeardNothing
    <3>2. CASE Heard' # 0 /\ device.pc = "in"
      <4>1. Heard' = Heard + 1 /\ device'.pc = "jmp_y"
        BY <3>2, DeviceTicks, Phases DEF DeviceMoves
      <4>2. Sampled' = Sampled BY <2>5, <3>2, MasterTicks DEF MasterMoves
      <4>3. Heard + 1 = Sampled BY <2>7, <4>1, <4>2
      <4>4. Partial BY <3>2 DEF Partial, Prelude, Pulse, IsReady
      <4>5. device.isr = SubSeq(sent, 1, Heard) BY <2>2, <2>5, <3>2, <4>3, <4>4
      <4> QED BY <2>1, <2>4, <4>3, <4>5, HeardBits
    <3>3. CASE Heard' # 0 /\ device.pc # "in"
      <4>1. Heard' = Heard /\ Heard # 0 BY <3>3, <2>4, DeviceTicks DEF DeviceMoves
      <4>2. Partial
        BY <4>1, Phases DEF Partial, IsReady
      <4>3. ~IsIdle(device) BY <4>2 DEF Partial, IsIdle, Prelude
      <4>4. Heard = Sampled \/ (master.pc = "jmp_x" /\ Heard + 1 = Sampled
                                  /\ device.pc \in {"out", "wait_high", "in"})
        <5>1. CASE master.pc = "in" /\ master.wait = 0
          <6>1. Sampled' = Sampled + 1 BY <5>1, MasterTicks DEF MasterMoves
          <6>2. CoupledLow BY <2>1, <4>3, <5>1 DEF Inv, CoupledClock
          <6>3. Heard <= Sampled
            BY <6>2, <4>1, <1>4, Phases DEF CoupledLow, AsMany
          <6> QED BY <2>7, <4>1, <6>1, <6>3, <1>4
        <5>2. CASE ~(master.pc = "in" /\ master.wait = 0)
          <6>1. Sampled' = Sampled /\ (master'.pc = "jmp_x" => master.pc = "jmp_x")
            BY <5>2, <2>1, MasterTicks DEF MasterMoves, Inv, CoupledClock
          <6>2. ASSUME master.pc = "jmp_x", device'.pc \in {"out", "wait_high", "in"}
                PROVE  device.pc \in {"out", "wait_high", "in"}
            BY <6>2, DeviceTicks DEF DeviceMoves
          <6> QED BY <2>7, <4>1, <6>1, <6>2
        <5> QED BY <5>1, <5>2
      <4>5. device.isr = SubSeq(sent, 1, Heard) BY <2>2, <4>2, <4>4
      <4> QED BY <2>1, <2>4, <3>3, <4>5, HeardBits
    <3> QED BY <3>1, <3>2, <3>3
  <2> QED BY <2>3, <2>6, <2>7
<1> QED BY <1>5, <1>6

(* The last tick of a byte of which a device that listens hears. *)
LEMMA JustHeard ==
    ASSUME Inv, Tick, UnderWay, ~Over, Over', Partial' \/ device.pc = "push"
    PROVE  /\ mcpu = "poll" /\ master.pc = "jmp_x" /\ master'.pc = "jmp_x"
           /\ Sampled = kWireBitsPerByte /\ master.wait >= 1
<1>1. mcpu = "poll" BY DEF Inv, TimerHolds, UnderWay
<1>2. CASE device.pc = "push"
  <2>1. /\ master.pc = "jmp_x" /\ Sampled = kWireBitsPerByte /\ master.wait \in Nat /\ master.wait >= 1
    BY <1>2, SeesPush, Scalars, Numbers DEF Inv
  <2>2. master'.pc = "jmp_x" BY <2>1, MasterTicks DEF MasterMoves
  <2> QED BY <1>1, <2>1, <2>2
<1>3. CASE Partial' /\ device.pc # "push"
  <2>1. device'.pc = "wait_low" /\ Heard' # 0
    BY <1>3, JustOver DEF Partial, IsReady
  <2>2. device.pc \in {"jmp_y", "wait_low"}
    <3>1. device.pc = "set_y" => Heard' = 0 BY DeviceTicks, Phases DEF DeviceMoves, Prelude
    <3> QED BY <2>1, <3>1, DeviceTicks, Phases DEF DeviceMoves
  <2>3. ~Starting
    <3>1. ASSUME Starting PROVE FALSE
      <4>1. ~IsIdle(device) BY <2>2 DEF IsIdle
      <4>2. device.pc = "wait_low" /\ Heard = 0
        BY <3>1, <4>1, <2>2 DEF Inv, CoupledStart, BeforeByte, IsReady, Prelude
      <4> QED BY <4>2, <2>1, DeviceTicks, Phases DEF DeviceMoves
    <3> QED BY <3>1
  <2>4. Clocking /\ ~IsOver BY <2>3 DEF Clocking, Over
  <2>5. Sampled' = kWireBitsPerByte /\ master'.pc \in {"jmp_x", "out_y"} BY JustOver
  <2>6. CASE device.pc = "wait_low"
    <3>1. master.pc # "in" BY <2>1, <2>6, DeviceTicks DEF DeviceMoves
    <3>2. Sampled = kWireBitsPerByte
      BY <2>5, <3>1, Phases, MasterTicks, Numbers DEF MasterMoves
    <3>3. IsOver BY <2>6, <3>2, NowOver
    <3> QED BY <2>4, <3>3
  <2>7. CASE device.pc = "jmp_y"
    <3>1. master.pc = "jmp_x" /\ CoupledHigh
      BY <2>4, <2>7 DEF Inv, CoupledClock, IsIdle, CoupledLow, CoupledNext, Prelude
    <3>2. Behind(2) BY <2>7, <3>1 DEF CoupledHigh, Prelude
    <3>3. master.wait >= 1 BY <3>2, Scalars, Numbers DEF Inv, Behind, Risen
    <3>4. master'.pc = "jmp_x" /\ Sampled' = Sampled
      BY <3>1, <3>3, MasterTicks DEF MasterMoves
    <3> QED BY <1>1, <2>5, <3>1, <3>3, <3>4
  <2> QED BY <2>2, <2>6, <2>7
<1> QED BY <1>2, <1>3

(* It has not heard anything before that. *)
LEMMA HeardIsOver ==
    ASSUME Inv, Tick, UnderWay, device.pc = "push"
    PROVE  ~Over /\ Over' /\ device'.rx # <<>>
<1>1. /\ ~Over /\ master.pc = "jmp_x" /\ Sampled = kWireBitsPerByte /\ master.wait # 0
  BY SeesPush, Scalars, Numbers DEF Inv
<1>2. Sampled' = kWireBitsPerByte BY <1>1, MasterTicks DEF MasterMoves
<1>3. device'.pc = "pull" /\ device'.rx = <<device.isr>> BY DeviceTicks, Phases DEF DeviceMoves
<1>4. IsOver' BY <1>2, <1>3, NextOver DEF Partial, Prelude
<1> QED BY <1>1, <1>3, <1>4, TheRest DEF Over

(* An emulator in its loop, after a tick. *)
LEMMA ListenTicks ==
    ASSUME Inv, Tick
    PROVE  ListenHolds'
<1> SUFFICES ASSUME ecpu \in {"listen", "print"}
             PROVE  /\ ~IsIdle(device)' => loaded = kReleasedByte
                    /\ ~Pending' /\ device'.pc # "ack_high"
                    /\ ~UnderWay => ~Partial'
                    /\ ecpu = "listen" /\ (device'.rx # <<>> \/ (Over' /\ Partial')) =>
                          /\ mcpu = "poll" /\ Over'
                          /\ timer' < Took(kWireBitsPerByte) + 2 * kCyclesPerUs + lag'["emulator"]
  BY TheRest DEF ListenHolds
<1>1. /\ ~IsIdle(device) => loaded = kReleasedByte
      /\ ~Pending /\ device.pc # "ack_high"
      /\ ~UnderWay => ~Partial
      /\ ecpu = "listen" /\ (device.rx # <<>> \/ (Over /\ Partial)) =>
            /\ mcpu = "poll" /\ Over
            /\ timer < Took(kWireBitsPerByte) + 2 * kCyclesPerUs + lag["emulator"]
  BY DEF Inv, ListenHolds
<1>2. ~IsIdle(device)' => ~IsIdle(device) BY DeviceTicks, Phases DEF DeviceMoves, IsIdle
<1>3. ~Pending' /\ device.pc # "ack_low" BY <1>1, PendingTicks
<1>4. device'.pc # "ack_high" BY <1>1, <1>3, DeviceTicks DEF DeviceMoves
<1>5. ASSUME ~UnderWay PROVE ~Partial'
  <2>1. master.pc = "pull" BY <1>5, Phases
  <2>2. device.pc \in Prelude \/ IsReady
    BY <1>1, <1>3, <1>5 DEF Partial, Pulse
  <2>3. device'.pc \in Prelude \/ IsReady'
    BY <2>1, <2>2, <1>1, DeviceTicks, PendingTicks, Phases, Scalars DEF Inv, DeviceMoves, Prelude, IsReady
  <2> QED BY <2>3 DEF Partial
<1>6. ASSUME ecpu = "listen", device'.rx # <<>> \/ (Over' /\ Partial')
      PROVE  /\ mcpu = "poll" /\ Over'
             /\ timer' < Took(kWireBitsPerByte) + 2 * kCyclesPerUs + lag'["emulator"]
  <2>1. /\ timer \in Nat /\ Took(kWireBitsPerByte) \in Nat /\ master.wait \in Nat
        /\ lag["emulator"] \in Nat /\ lag'["emulator"] \in Nat
    BY Scalars, TookBits, Numbers, TheRest, TimesAssumption, SMTT(30) DEF Inv, Typed
  <2>2. CASE device.rx # <<>> \/ (Over /\ Partial)
    <3>1. /\ mcpu = "poll" /\ Over
          /\ timer < Took(kWireBitsPerByte) + 2 * kCyclesPerUs + lag["emulator"]
      BY <1>1, <1>6, <2>2
    <3>2. EmulatorCan BY <1>6, <3>1 DEF EmulatorCan, att_is_high
    <3>3. lag'["emulator"] = lag["emulator"] + 1 /\ timer' = timer + 1 BY <3>1, <3>2, TheRest
    <3> QED BY <2>1, <3>1, <3>3, StaysOver, Numbers
  <2>3. CASE device.rx = <<>> /\ ~(Over /\ Partial)
    <3>1. UnderWay /\ ~Over /\ Over' /\ (Partial' \/ device.pc = "push")
      <4>1. CASE device'.rx # <<>>
        <5>1. device.pc = "push" BY <4>1, <2>3, DeviceTicks DEF DeviceMoves
        <5>2. Partial BY <5>1 DEF Partial, Prelude, Pulse, IsReady
        <5>3. UnderWay BY <1>1, <5>2
        <5> QED BY <5>1, <5>3, HeardIsOver
      <4>2. CASE Over' /\ Partial'
        <5>1. UnderWay BY <4>2, TheRest DEF Over
        <5>2. ASSUME Over PROVE FALSE
          <6>1. device.pc \in Prelude \/ IsReady
            BY <5>2, <2>3, <1>1, <1>3 DEF Inv, CoupledEnd, Partial, Pulse
          <6>2. master.pc # "in"
            BY <5>2, NowOver, Phases, Numbers, Scalars DEF Over, Inv
          <6>3. device'.pc \in Prelude \/ IsReady'
            BY <6>1, <6>2, <1>1, <1>3, DeviceTicks, PendingTicks, Phases, Scalars DEF Inv, DeviceMoves, Prelude, IsReady
          <6> QED BY <4>2, <6>3 DEF Partial
        <5> QED BY <4>2, <5>1, <5>2
      <4> QED BY <1>6, <4>1, <4>2
    <3>2. /\ mcpu = "poll" /\ master.pc = "jmp_x" /\ Sampled = kWireBitsPerByte /\ master.wait >= 1
      BY <3>1, JustHeard
    <3>3. timer + master.wait < Took(kWireBitsPerByte) + 2 * kCyclesPerUs
      BY <3>2 DEF Inv, TimerHolds
    <3>4. timer' = timer + 1 BY <3>2, TheRest
    <3> QED BY <2>1, <3>1, <3>2, <3>3, <3>4, Numbers
  <2> QED BY <2>2, <2>3
<1> QED BY <1>1, <1>2, <1>3, <1>4, <1>5, <1>6

(* An emulator that serves, after a tick. *)
LEMMA ServeTicks ==
    ASSUME Inv, Tick
    PROVE  ServeHolds'
<1>1. /\ master.wait \in Nat /\ device.wait \in Nat /\ delay \in Nat
  BY Scalars DEF Inv
<1>2. ASSUME ecpu = "answer" PROVE IsIdle(device)' /\ device'.rx = <<>>
  <2>1. IsIdle(device) /\ device.rx = <<>> BY <1>2 DEF Inv, ServeHolds
  <2> QED BY <2>1, DeviceTicks, Phases DEF DeviceMoves, IsIdle
<1>3. ASSUME device.pc = "push" PROVE mcpu # "idle" => UnderWay
  <2>1. mcpu # "wait"
    BY <1>3 DEF Inv, CoupledIdle, BeforeByte, IsReady, Prelude
  <2> QED BY <2>1 DEF Inv, Typed, UnderWay
<1>4. ASSUME UnderWay, device.pc = "push"
      PROVE  Over' /\ BeforePush' /\ ToPoll' <= 4 * kCyclesPerUs - 7
  <2>1. /\ master.pc = "jmp_x" /\ master.wait <= kCyclesPerUs - 6 /\ master.wait # 0
    BY <1>4, <1>1, SeesPush, Numbers
  <2>2. master'.pc = "jmp_x" /\ master'.wait = master.wait - 1
    BY <2>1, MasterTicks DEF MasterMoves
  <2>3. ToPoll' = master.wait - 1 + 3 * kCyclesPerUs BY <2>2 DEF ToPoll
  <2> QED BY <2>1, <2>2, <2>3, <1>1, <1>4, HeardIsOver, Numbers DEF BeforePush
<1>5. ASSUME HasHeard, mcpu # "idle", ecpu \in {"serve", "answer"}
      PROVE  /\ Over /\ Over' /\ (waits => BeforePush /\ BeforePush') /\ device.pc # "ack_high"
  <2>1. Over /\ (waits => BeforePush) BY <1>5 DEF Inv, ServeHolds
  <2>2. device.pc = "pull"
    BY <1>5 DEF Inv, ServeHolds, HasHeard, DeviceHolds, DeviceAt, IsIdle
  <2> QED BY <2>1, <2>2, StaysOver, ToPollTicks
<1>6. ASSUME mcpu # "idle", ecpu \in {"serve", "answer"}, HasHeard'
      PROVE  Over' /\ (waits => BeforePush')
  <2>1. CASE HasHeard BY <2>1, <1>5, <1>6
  <2>2. CASE ~HasHeard
    <3>1. ecpu = "serve" /\ device.rx = <<>> /\ device'.rx # <<>>
      BY <2>2, <1>6, TheRest DEF HasHeard
    <3>2. device.pc = "push" BY <3>1, DeviceTicks DEF DeviceMoves
    <3> QED BY <3>2, <1>3, <1>4, <1>6
  <2> QED BY <2>1, <2>2
<1>7. ASSUME Over', waits, ~BeforePush'
      PROVE  ecpu = "serve"
  <2>1. CASE ~Over
    <3>1. UnderWay BY <1>7, TheRest DEF Over
    <3> QED BY <3>1, <2>1, <1>7, JustOver DEF BeforePush
  <2>2. CASE Over /\ ~BeforePush BY <2>2, <1>7 DEF Inv, ServeHolds
  <2>3. CASE Over /\ BeforePush
    <3>1. device.pc = "ack_high" BY <2>3, <1>7, ToPollTicks
    <3>2. ecpu \notin {"listen", "print"} BY <3>1 DEF Inv, ListenHolds
    <3>3. ecpu # "answer" BY <3>1 DEF Inv, ServeHolds, IsIdle
    <3> QED BY <3>2, <3>3 DEF Inv, Typed
  <2> QED BY <2>1, <2>2, <2>3
<1>8. ASSUME ecpu = "answer", reply.should_ack, UnderWay, waits
      PROVE  delay' + 2 * kCyclesPerUs + 3 >= ToPoll'
  <2>1. HasHeard /\ mcpu # "idle" BY <1>8 DEF HasHeard, UnderWay
  <2>2. Over /\ BeforePush /\ BeforePush' BY <2>1, <1>5, <1>8
  <2>3. ToPoll \in Nat /\ (ToPoll' = ToPoll - 1 \/ (ToPoll = 0 /\ ToPoll' = kCyclesPerUs - 1))
    BY <2>2, <1>8, ToPollTicks
  <2>4. delay + 2 * kCyclesPerUs + 3 >= ToPoll BY <1>8 DEF Inv, ServeHolds
  <2>5. delay' \in Nat /\ delay' >= delay - 1 BY <1>1, TheRest
  <2> QED BY <2>3, <2>4, <2>5, <1>1, Numbers
<1>9. ASSUME device'.rx # <<>>, UnderWay, waits, ecpu \in {"listen", "serve"}
      PROVE  ToPoll' <= 4 * kCyclesPerUs - 7
  <2>1. CASE device.rx # <<>>
    <3>1. HasHeard /\ mcpu # "idle" BY <2>1, <1>9 DEF HasHeard, UnderWay
    <3>2. Over /\ BeforePush
      BY <3>1, <2>1, <1>9 DEF Inv, ServeHolds, ListenHolds
    <3>3. device.pc = "pull" BY <2>1 DEF Inv, DeviceHolds, DeviceAt
    <3>4. BeforePush' /\ ToPoll \in Nat
          /\ (ToPoll' = ToPoll - 1 \/ (ToPoll = 0 /\ ToPoll' = kCyclesPerUs - 1))
      BY <3>2, <3>3, <1>9, ToPollTicks
    <3>5. ToPoll <= 4 * kCyclesPerUs - 7 BY <2>1, <1>9 DEF Inv, ServeHolds
    <3> QED BY <3>4, <3>5, Numbers
  <2>2. CASE device.rx = <<>>
    <3>1. device.pc = "push" BY <2>2, <1>9, DeviceTicks DEF DeviceMoves
    <3> QED BY <3>1, <1>4, <1>9
  <2> QED BY <2>1, <2>2
<1> QED BY <1>2, <1>6, <1>7, <1>8, <1>9, TheRest DEF ServeHolds

(* A tick keeps the invariant. *)
LEMMA InvTicks ==
    ASSUME Inv, Tick
    PROVE  Inv'
BY TypedTicks, MasterTicks, DeviceTicks, CoupledIdleTicks, CoupledStartTicks, CoupledClockTicks,
   CoupledEndTicks, ContentTicks, TimerTicks, CpuLateTicks, ListenTicks, ServeTicks DEF Inv

-----------------------------------------------------------------------------
(* What a step leaves of the two programs. *)
LEMMA SameDevice ==
    ASSUME device'.pc = device.pc, device'.wait = device.wait, device'.x = device.x,
           device'.y = device.y, device'.osr = device.osr, device'.isr = device.isr,
           device'.tx = device.tx
    PROVE  /\ Heard' = Heard /\ (Pending' <=> Pending) /\ (IsReady' <=> IsReady)
           /\ (BeforeByte' <=> BeforeByte) /\ (Partial' <=> Partial)
           /\ (IsIdle(device)' <=> IsIdle(device)) /\ (IsShifting(device)' <=> IsShifting(device))
<1>1. Heard' = Heard BY DEF Heard
<1>2. Pending' <=> Pending BY DEF Pending
<1>3. IsReady' <=> IsReady BY <1>1 DEF IsReady
<1>4. BeforeByte' <=> BeforeByte BY <1>2, <1>3 DEF BeforeByte
<1>5. Partial' <=> Partial BY <1>3 DEF Partial
<1>6. IsIdle(device)' <=> IsIdle(device) BY DEF IsIdle
<1>7. IsShifting(device)' <=> IsShifting(device) BY DEF IsShifting
<1> QED BY <1>1, <1>2, <1>3, <1>4, <1>5, <1>6, <1>7

(* ... and of the bits. *)
LEMMA SameMaster ==
    ASSUME master' = master, waits' = waits
    PROVE  /\ Sampled' = Sampled /\ Flag' = Flag /\ Risen' = Risen /\ Fallen' = Fallen
           /\ ToPoll' = ToPoll /\ (BeforePush' <=> BeforePush)
BY DEF Sampled, Flag, Risen, Fallen, ToPoll, BeforePush

(* The master's CPU: ATT falls on an idle bus. *)
LEMMA StartFrameKeeps ==
    ASSUME Inv, StartFrame
    PROVE  Inv'
<1>1. /\ mcpu = "idle" /\ ecpu \in {"listen", "print"} /\ mcpu' = "wait" /\ index' = 0
      /\ timer' = kAttSetupUs * kCyclesPerUs
      /\ lag' = [lag EXCEPT !["master"] = 0]
      /\ master' = master /\ device' = device /\ sent' = sent /\ waits' = waits
      /\ ecpu' = ecpu /\ reply' = reply /\ delay' = delay /\ ack_delay_us' = ack_delay_us
      /\ loaded' = loaded /\ late' = late
  BY DEF StartFrame, ecpuVars, Inv, Typed
<1>2. ~UnderWay /\ ~UnderWay' BY <1>1 DEF UnderWay
<1>3. /\ Heard' = Heard /\ (Pending' <=> Pending) /\ (IsReady' <=> IsReady)
      /\ (BeforeByte' <=> BeforeByte) /\ (Partial' <=> Partial)
      /\ (IsIdle(device)' <=> IsIdle(device))
  BY <1>1, SameDevice
<1>4. Typed'
  <2>1. timer' \in Nat BY <1>1, Numbers, TimesAssumption
  <2>2. index' \in 0 .. FrameLen - 1 BY <1>1, FrameLenAssumption
  <2>3. lag' \in [{"master", "emulator"} -> 0 .. kLagCycles]
    BY <1>1, TimesAssumption, Numbers DEF Inv, Typed
  <2> QED BY <1>1, <2>1, <2>2, <2>3 DEF Inv, Typed
<1>5. MasterHolds'
  BY <1>1, <1>2, SameMaster DEF Inv, MasterHolds, MasterFifos
<1>6. DeviceHolds' BY <1>1 DEF Inv, DeviceHolds
<1>7. CoupledIdle'
  <2>1. ~Pending /\ device.pc # "ack_high" /\ ~Partial BY <1>1, <1>2 DEF Inv, ListenHolds
  <2>2. device.pc # "ack_low" BY <2>1 DEF Pending
  <2>3. BeforeByte BY <2>1, <2>2 DEF BeforeByte, Partial, Pulse
  <2> QED BY <1>1, <1>2, <1>3, <2>1, <2>3 DEF Inv, CoupledIdle
<1>8. CoupledStart' /\ CoupledClock' /\ CoupledEnd' /\ Content' /\ TimerHolds' /\ LateHolds'
  BY <1>1, <1>2 DEF CoupledStart, Starting, CoupledClock, Clocking, CoupledEnd, Over, Content,
     TimerHolds, LateHolds
<1>9. CpuHolds' BY <1>1, <1>2 DEF CpuHolds
<1>10. ListenHolds'
  BY <1>1, <1>2, <1>3 DEF Inv, ListenHolds, Over
<1>11. ServeHolds' BY <1>1, <1>2 DEF ServeHolds, Over
<1> QED BY <1>4, <1>5, <1>6, <1>7, <1>8, <1>9, <1>10, <1>11 DEF Inv

(* A CPU that acts is late no more. *)
LEMMA AwakensLag ==
    ASSUME Typed, NEW cpu \in {"master", "emulator"}
    PROVE  /\ [lag EXCEPT ![cpu] = 0] \in [{"master", "emulator"} -> 0 .. kLagCycles]
           /\ kLagCycles \in Nat
BY TimesAssumption, Numbers DEF Typed

(* A byte is handed over: the device owes no ACK and hears nothing yet. *)
LEMMA PutByteKeeps ==
    ASSUME Inv, PutByte
    PROVE  Inv'
<1>1. /\ mcpu = "wait" /\ timer = 0 /\ mcpu' = "poll" /\ timer' = 0 /\ late' = FALSE
      /\ sent' \in Bytes /\ waits' = ~IsLast
      /\ master' = put(master, sent' \o <<IF waits' THEN 1 ELSE 0>>)
      /\ lag' = [lag EXCEPT !["master"] = 0]
      /\ device' = device /\ index' = index /\ ecpu' = ecpu /\ reply' = reply /\ delay' = delay
      /\ ack_delay_us' = ack_delay_us /\ loaded' = loaded
  BY DEF PutByte
<1>2. ~UnderWay /\ UnderWay' BY <1>1 DEF UnderWay
<1>3. /\ Heard' = Heard /\ (Pending' <=> Pending) /\ (IsReady' <=> IsReady)
      /\ (BeforeByte' <=> BeforeByte) /\ (Partial' <=> Partial)
      /\ (IsIdle(device)' <=> IsIdle(device))
  BY <1>1, SameDevice
<1>4. sent' \in Bits /\ waits' \in BOOLEAN /\ Flag' \in Bit
      /\ Flag' = (IF waits' THEN 1 ELSE 0)
  BY <1>1, BytesAssumption DEF Flag, Bit, IsLast
<1>5. PICK w : w = OutWord(sent', Flag') OBVIOUS
<1>6. w \in Seq(Bit) BY <1>4, <1>5, AnOutWord
<1>7. /\ master \in MasterSm /\ master.pc = "pull" /\ master.tx = <<>> /\ master.rx = <<>>
      /\ master.isr = <<>> /\ master.clk = 1 /\ master.wait < kCyclesPerUs /\ master.wait \in Nat
  BY <1>2, Scalars DEF Inv, Typed, MasterHolds, MasterFifos, MasterAt
<1>8. master' = [master EXCEPT !.tx = <<w>>]
  <2>1. w = sent' \o <<IF waits' THEN 1 ELSE 0>> BY <1>4, <1>5 DEF OutWord
  <2>2. Len(master.tx) = 0 /\ Append(master.tx, w) = <<w>> BY <1>7
  <2>3. master' = put(master, w) BY <1>1, <2>1
  <2>4. put(master, w) = [master EXCEPT !.tx = Append(master.tx, w)]
    BY <2>2 DEF put, kFifoDepth
  <2> QED BY <2>2, <2>3, <2>4
<1>9. <<w>> \in Seq(Seq(Bit)) BY <1>6
<1>10. master' \in MasterSm BY <1>7, <1>8, <1>9 DEF MasterSm
<1>11. /\ master'.pc = "pull" /\ master'.tx = <<w>> /\ master'.rx = <<>> /\ master'.isr = <<>>
       /\ master'.clk = 1 /\ master'.wait = master.wait
  BY <1>7, <1>8 DEF MasterSm
<1>12. Sampled' = 0 BY <1>11 DEF Sampled
<1>13. <<w>> # <<>> OBVIOUS
<1>14. Starting' /\ ~IsOver'
  BY <1>2, <1>11, <1>12, <1>13, Numbers DEF Starting, IsOver, HasAllBits, has_byte, Sampled
<1>15. BeforeByte /\ (device.pc = "ack_high" => device.wait < master.wait) /\ ecpu # "answer"
  BY <1>1 DEF Inv, CoupledIdle, CpuHolds
<1>16. ecpu \in {"listen", "serve"} => device.rx = <<>>
  BY <1>1, <1>2 DEF Inv, ServeHolds, ListenHolds, HasHeard, Over
<1>17. Typed'
  <2>1. lag' \in [{"master", "emulator"} -> 0 .. kLagCycles] BY <1>1, AwakensLag DEF Inv
  <2> QED BY <1>1, <1>4, <1>10, <2>1 DEF Inv, Typed
<1>18. MasterHolds'
  <2>1. MasterAt(master', sent', Flag') BY <1>7, <1>11 DEF MasterAt
  <2>2. Word' = w BY <1>5 DEF Word
  <2> QED BY <1>2, <1>11, <2>1, <2>2 DEF MasterHolds, MasterFifos
<1>19. DeviceHolds' BY <1>1 DEF Inv, DeviceHolds
<1>20. CoupledIdle' BY <1>1, <1>2 DEF CoupledIdle
<1>21. CoupledStart'
  <2>1. InTime'
    BY <1>1, <1>3, <1>11, <1>15 DEF InTime, BeforeByte, Prelude
  <2> QED BY <1>1, <1>3, <1>15, <2>1 DEF CoupledStart
<1>22. CoupledClock' /\ CoupledEnd' /\ Content'
  BY <1>14 DEF CoupledClock, Clocking, CoupledEnd, Over, Content
<1>23. TimerHolds'
  BY <1>1, <1>7, <1>11, Numbers DEF TimerHolds
<1>24. CpuHolds'
  <2>1. IsLast' = IsLast BY <1>1 DEF IsLast
  <2> QED BY <1>1, <2>1 DEF Inv, CpuHolds
<1>25. LateHolds' BY <1>1 DEF LateHolds
<1>26. ListenHolds'
  BY <1>1, <1>2, <1>3, <1>14, <1>16 DEF Inv, ListenHolds, Over
<1>27. ServeHolds'
  BY <1>1, <1>14, <1>15, <1>16 DEF ServeHolds, HasHeard, Over
<1> QED BY <1>17, <1>18, <1>19, <1>20, <1>21, <1>22, <1>23, <1>24, <1>25, <1>26, <1>27 DEF Inv

(* When a byte can be taken, it is over. *)
LEMMA GetsOver ==
    ASSUME Inv, has_byte(master)
    PROVE  /\ UnderWay /\ Over /\ ~BeforePush
           /\ master.pc = "pull" /\ master.tx = <<>> /\ Len(master.rx) = 1
<1>1. master.pc = "pull" BY DEF Inv, MasterHolds, MasterAt, has_byte
<1>2. UnderWay BY DEF Inv, MasterHolds, MasterFifos, has_byte
<1>3. master.tx = <<>> /\ Len(master.rx) = 1
  BY <1>1, <1>2 DEF Inv, MasterHolds, MasterFifos, has_byte
<1>4. ~Starting BY <1>1, <1>3 DEF Starting
<1>5. ~Clocking BY <1>1 DEF Inv, CoupledClock
<1>6. Over BY <1>2, <1>4, <1>5 DEF Clocking, Over
<1> QED BY <1>1, <1>2, <1>3, <1>6 DEF BeforePush

(* The byte is taken: it is over. *)
LEMMA GetByteKeeps ==
    ASSUME Inv, GetByte
    PROVE  Inv'
<1>1. /\ mcpu = "poll" /\ has_byte(master) /\ master' = dropped_byte(master)
      /\ IF IsLast
         THEN mcpu' = "idle" /\ index' = 0 /\ timer' = 0
         ELSE mcpu' = "wait" /\ index' = index + 1 /\ timer' = kByteGapUs * kCyclesPerUs
      /\ lag' = [lag EXCEPT !["master"] = 0]
      /\ device' = device /\ sent' = sent /\ waits' = waits
      /\ ecpu' = ecpu /\ reply' = reply /\ delay' = delay
      /\ ack_delay_us' = ack_delay_us /\ loaded' = loaded /\ late' = late
  BY DEF GetByte, ecpuVars
<1>2. ~UnderWay' BY <1>1 DEF UnderWay
<1>3. /\ Heard' = Heard /\ (Pending' <=> Pending) /\ (IsReady' <=> IsReady)
      /\ (BeforeByte' <=> BeforeByte) /\ (Partial' <=> Partial)
      /\ (IsIdle(device)' <=> IsIdle(device))
  BY <1>1, SameDevice
<1>4. /\ UnderWay /\ Over /\ ~BeforePush
      /\ master.pc = "pull" /\ master.tx = <<>> /\ Len(master.rx) = 1
  BY <1>1, GetsOver
<1>5. waits <=> ~IsLast BY <1>4 DEF Inv, Typed, CpuHolds
<1>6. ecpu \in {"serve", "answer"} /\ (waits => ecpu = "serve")
  <2>1. waits => ecpu = "serve" BY <1>4 DEF Inv, ServeHolds
  <2>2. ~waits => index > 0
    <3>1. index \in 0 .. FrameLen - 1 BY DEF Inv, Typed
    <3> QED BY <1>5, <3>1, FrameLenAssumption DEF IsLast
  <2>3. index > 0 => ecpu \in {"serve", "answer"} BY <1>1 DEF Inv, CpuHolds
  <2> QED BY <2>1, <2>2, <2>3
<1>7. /\ master \in MasterSm /\ master.isr = <<>> /\ master.clk = 1
      /\ master.wait < kCyclesPerUs /\ master.wait \in Nat
  BY <1>4, Scalars DEF Inv, Typed, MasterHolds, MasterAt
<1>8. Tail(master.rx) = <<>>
  <2>1. master.rx \in Seq(Bits) BY <1>7 DEF MasterSm
  <2>2. master.rx # <<>> BY <1>4
  <2>3. Len(Tail(master.rx)) = 0 /\ Tail(master.rx) \in Seq(Bits) BY <2>1, <2>2, <1>4, HeadTailProperties
  <2>4. PICK u : u = Tail(master.rx) OBVIOUS
  <2>5. u \in Seq(Bits) /\ Len(u) = 0 BY <2>3, <2>4
  <2>6. u = <<>> BY <2>5
  <2> QED BY <2>4, <2>6
<1>9. master' = [master EXCEPT !.rx = <<>>] BY <1>1, <1>8 DEF dropped_byte
<1>10. <<>> \in Seq(Bits) OBVIOUS
<1>11. master' \in MasterSm BY <1>7, <1>9, <1>10 DEF MasterSm
<1>12. /\ master'.pc = "pull" /\ master'.tx = <<>> /\ master'.rx = <<>> /\ master'.isr = <<>>
       /\ master'.clk = 1 /\ master'.wait = master.wait
  BY <1>4, <1>7, <1>9 DEF MasterSm
<1>13. Typed'
  <2>1. lag' \in [{"master", "emulator"} -> 0 .. kLagCycles] BY <1>1, AwakensLag DEF Inv
  <2>2. index' \in 0 .. FrameLen - 1 BY <1>1, FrameLenAssumption DEF IsLast, Inv, Typed
  <2>3. timer' \in Nat BY <1>1, TimesAssumption, Numbers
  <2>4. mcpu' \in {"idle", "wait", "poll", "recover"} BY <1>1
  <2> QED BY <1>1, <1>11, <2>1, <2>2, <2>3, <2>4 DEF Inv, Typed
<1>14. MasterHolds'
  <2>1. MasterAt(master', sent', Flag') BY <1>7, <1>12 DEF MasterAt
  <2> QED BY <1>2, <1>12, <2>1 DEF MasterHolds, MasterFifos
<1>15. DeviceHolds' BY <1>1 DEF Inv, DeviceHolds
<1>16. CoupledIdle'
  <2>1. device.pc \in Prelude \cup Pulse \cup {"wait_low"} BY <1>4 DEF Inv, CoupledEnd
  <2>2. ASSUME waits PROVE BeforeByte /\ (device.pc = "ack_high" => device.wait < master.wait)
    <3>1. ~Pending BY <2>2, <1>4 DEF Inv, CoupledEnd
    <3>2. device.pc \in {"ack_high", "set_y"} \/ IsReady BY <2>2, <1>4 DEF Inv, CoupledEnd
    <3>3. device.pc = "ack_high" => device.wait < master.wait
      BY <2>2, <1>4 DEF Inv, CoupledEnd
    <3> QED BY <3>1, <3>2, <3>3 DEF BeforeByte, Prelude
  <2> QED BY <1>1, <1>3, <1>5, <1>12, <2>1, <2>2 DEF CoupledIdle
<1>17. CoupledStart' /\ CoupledClock' /\ CoupledEnd' /\ Content' /\ TimerHolds' /\ LateHolds'
  <2>1. mcpu' # "poll" /\ mcpu' # "recover" BY <1>1
  <2> QED BY <1>2, <2>1 DEF CoupledStart, Starting, CoupledClock, Clocking, CoupledEnd, Over, Content,
     TimerHolds, LateHolds
<1>18. CpuHolds' BY <1>1, <1>2, <1>5, <1>6 DEF CpuHolds
<1>19. ListenHolds' BY <1>1, <1>6 DEF ListenHolds
<1>20. ServeHolds'
  <2>1. ecpu = "answer" => IsIdle(device) /\ device.rx = <<>> BY DEF Inv, ServeHolds
  <2>2. mcpu' # "idle" => ~HasHeard
    BY <1>1, <1>4, <1>5, <1>6 DEF Inv, ServeHolds
  <2>3. HasHeard' <=> HasHeard BY <1>1 DEF HasHeard
  <2> QED BY <1>1, <1>2, <1>3, <2>1, <2>2, <2>3 DEF ServeHolds, Over
<1> QED BY <1>13, <1>14, <1>15, <1>16, <1>17, <1>18, <1>19, <1>20 DEF Inv

(* The budget: bits of four, and what is left of it for an ACK. *)
LEMMA Budget ==
    /\ kByteBudgetUs * kCyclesPerUs = Took(kWireBitsPerByte) + kAckTimeoutUs * kCyclesPerUs
    /\ kAckTimeoutUs * kCyclesPerUs \in Nat
    /\ kAckTimeoutUs * kCyclesPerUs >= 5 * kCyclesPerUs
    /\ kLagCycles \in Nat /\ kLagCycles + 2 * kCyclesPerUs <= kAckTimeoutUs * kCyclesPerUs
<1>1. PICK k \in Nat, t \in Nat, n \in Nat : k = kCyclesPerUs /\ t = kAckTimeoutUs /\ n = kWireBitsPerByte
  BY Numbers, TimesAssumption
<1>2. t >= 5 BY <1>1, TimesAssumption
<1>3. (4 * n + t) * k = 4 * n * k + t * k BY <1>1
<1>4. t * k \in Nat /\ t * k >= 5 * k
  <2>1. PICK u \in Nat : t = u + 5
    <3>1. t - 5 \in Nat /\ t = (t - 5) + 5 BY <1>2
    <3> QED BY <3>1
  <2>2. u * k \in Nat OBVIOUS
  <2>3. (u + 5) * k = u * k + 5 * k OBVIOUS
  <2> QED BY <2>1, <2>2, <2>3
<1>5. (t - 2) * k = t * k - 2 * k OBVIOUS
<1>6. kLagCycles \in 0 .. (t - 2) * k BY <1>1, TimesAssumption
<1>7. kLagCycles \in Nat /\ kLagCycles + 2 * k <= t * k
  <2>1. t * k \in Int /\ 2 * k \in Int BY <1>4
  <2> QED BY <1>5, <1>6, <2>1
<1> QED BY <1>1, <1>3, <1>4, <1>7 DEF kByteBudgetUs, Took

(* Fewer bits take less. *)
LEMMA TookLess ==
    ASSUME NEW s \in Nat, s < kWireBitsPerByte
    PROVE  Took(s) + 4 * kCyclesPerUs <= Took(kWireBitsPerByte) /\ Took(s) \in Nat
<1>1. PICK k \in Nat, n \in Nat : k = kCyclesPerUs /\ n = kWireBitsPerByte BY Numbers
<1>2. PICK u \in Nat : n = s + 1 + u
  <2>1. n - s - 1 \in Nat /\ n = s + 1 + (n - s - 1) BY <1>1
  <2> QED BY <2>1
<1>3. 4 * (s + 1 + u) * k = 4 * s * k + 4 * k + 4 * u * k OBVIOUS
<1>4. 4 * u * k \in Nat /\ 4 * s * k \in Nat OBVIOUS
<1> QED BY <1>1, <1>2, <1>3, <1>4 DEF Took

(* A byte is given up only for want of an ACK: the budget is longer than a  *)
(* byte that waits for none.                                                *)
LEMMA GivesUpOver ==
    ASSUME Inv, TimeOut
    PROVE  /\ Over /\ waits /\ master.pc \in {"wait_ack", "push"}
           /\ ecpu = "listen" => device.rx = <<>> /\ ~Partial
<1>1. /\ Sampled \in Nat /\ master.wait \in Nat /\ timer \in Nat
      /\ master.pc \in {"pull", "set_x", "out", "in", "jmp_x", "out_y", "jmp_y", "wait_ack", "push"}
  BY Scalars DEF Inv
<1>2. mcpu = "poll" /\ ~has_byte(master) /\ UnderWay BY DEF TimeOut, UnderWay
<1>3. PICK t \in Nat, b \in Nat :
        /\ t = Took(kWireBitsPerByte) /\ b = kAckTimeoutUs * kCyclesPerUs
        /\ kByteBudgetUs * kCyclesPerUs = t + b /\ b >= 5 * kCyclesPerUs
        /\ kLagCycles \in Nat /\ kLagCycles + 2 * kCyclesPerUs <= b
  BY Budget, TookBits, Numbers
<1>4. timer > t + b BY <1>3 DEF TimeOut, MayGiveUp
<1>5. Sampled < kWireBitsPerByte => Took(Sampled) \in Nat /\ Took(Sampled) + 4 * kCyclesPerUs <= t
  BY <1>1, <1>3, TookLess
<1>6. master.pc # "pull"
  <2>1. ASSUME master.pc = "pull" PROVE FALSE
    <3>1. master.tx # <<>>
      <4>1. Len(<<>>) = 0 OBVIOUS
      <4>2. <<Word>> # <<>> OBVIOUS
      <4>3. \/ master.tx = <<Word>> /\ master.rx = <<>>
            \/ master.tx = <<>> /\ Len(master.rx) = 1
        BY <2>1, <1>2 DEF Inv, MasterHolds, MasterFifos
      <4>4. master.rx = <<>> BY <1>2 DEF has_byte
      <4>5. Len(master.rx) # 1 BY <4>1, <4>4
      <4> QED BY <4>2, <4>3, <4>5
    <3>2. Starting BY <3>1, <2>1, <1>2 DEF Starting
    <3>3. timer + master.wait < kCyclesPerUs BY <3>2, <2>1, <1>2 DEF Inv, TimerHolds
    <3> QED BY <3>3, <1>1, <1>3, <1>4, Numbers
  <2> QED BY <2>1
<1>7. master.pc # "set_x"
  <2>1. ASSUME master.pc = "set_x" PROVE FALSE
    <3>1. timer + master.wait < 2 * kCyclesPerUs BY <2>1, <1>2 DEF Inv, TimerHolds
    <3> QED BY <3>1, <1>1, <1>3, <1>4, Numbers
  <2> QED BY <2>1
<1>8. master.pc \notin {"out", "in"}
  <2>1. ASSUME master.pc \in {"out", "in"} PROVE FALSE
    <3>1. timer + master.wait < Took(Sampled) + 3 * kCyclesPerUs
          \/ timer + master.wait < Took(Sampled) + 5 * kCyclesPerUs
      BY <2>1, <1>2 DEF Inv, TimerHolds
    <3>2. Sampled < kWireBitsPerByte BY <2>1, Phases
    <3> QED BY <3>1, <3>2, <1>1, <1>3, <1>4, <1>5, Numbers
  <2> QED BY <2>1
<1>9. master.pc # "jmp_x"
  <2>1. ASSUME master.pc = "jmp_x" PROVE FALSE
    <3>1. timer + master.wait < Took(Sampled) + 2 * kCyclesPerUs
      BY <2>1, <1>2 DEF Inv, TimerHolds
    <3>2. Took(Sampled) <= t /\ Took(Sampled) \in Nat
      BY <2>1, <1>1, <1>3, <1>5, Phases, Numbers
    <3> QED BY <3>1, <3>2, <1>1, <1>3, <1>4, Numbers
  <2> QED BY <2>1
<1>10. master.pc \notin {"out_y", "jmp_y"} /\ (master.pc = "push" => waits)
  <2>1. ASSUME master.pc \in {"out_y", "jmp_y"} \/ (master.pc = "push" /\ ~waits) PROVE FALSE
    <3>1. Sampled = kWireBitsPerByte BY <2>1, Phases
    <3>2. \/ timer + master.wait < t + 3 * kCyclesPerUs
          \/ timer + master.wait < t + 4 * kCyclesPerUs
          \/ timer + master.wait < t + 5 * kCyclesPerUs
      BY <2>1, <3>1, <1>2, <1>3 DEF Inv, TimerHolds
    <3> QED BY <3>2, <1>1, <1>3, <1>4, Numbers
  <2> QED BY <2>1
<1>11. master.pc \in {"wait_ack", "push"} BY <1>1, <1>6, <1>7, <1>8, <1>9, <1>10
<1>12. waits
  <2>1. master.pc = "wait_ack" => waits BY DEF Inv, MasterHolds, MasterAt, Flag
  <2> QED BY <2>1, <1>10, <1>11
<1>13. Over
  <2>1. ~Starting BY <1>11 DEF Starting
  <2>2. ~Clocking BY <1>11 DEF Inv, CoupledClock
  <2> QED BY <1>2, <2>1, <2>2 DEF Clocking, Over
<1>14. ASSUME ecpu = "listen", device.rx # <<>> \/ Partial PROVE FALSE
  <2>1. timer < t + 2 * kCyclesPerUs + lag["emulator"]
    BY <1>3, <1>13, <1>14 DEF Inv, ListenHolds
  <2>2. lag["emulator"] \in Nat /\ lag["emulator"] <= kLagCycles
    BY <1>3 DEF Inv, Typed
  <2> QED BY <2>1, <2>2, <1>1, <1>3, <1>4, Numbers
<1> QED BY <1>11, <1>12, <1>13, <1>14

(* The budget ends: only a byte that is over and waits for ACK. *)
LEMMA TimeOutKeeps ==
    ASSUME Inv, TimeOut
    PROVE  Inv'
<1>1. /\ mcpu = "poll" /\ mcpu' = "recover" /\ timer' = 0
      /\ lag' = [lag EXCEPT !["master"] = 0]
      /\ master' = master /\ device' = device /\ index' = index /\ sent' = sent /\ waits' = waits
      /\ ecpu' = ecpu /\ reply' = reply /\ delay' = delay
      /\ ack_delay_us' = ack_delay_us /\ loaded' = loaded /\ late' = late
  BY DEF TimeOut, ecpuVars
<1>2. UnderWay /\ UnderWay' BY <1>1 DEF UnderWay
<1>3. /\ Heard' = Heard /\ (Pending' <=> Pending) /\ (IsReady' <=> IsReady)
      /\ (BeforeByte' <=> BeforeByte) /\ (Partial' <=> Partial)
      /\ (IsIdle(device)' <=> IsIdle(device)) /\ (IsShifting(device)' <=> IsShifting(device))
  BY <1>1, SameDevice
<1>4. /\ Sampled' = Sampled /\ Flag' = Flag /\ Risen' = Risen /\ Fallen' = Fallen
      /\ ToPoll' = ToPoll /\ (BeforePush' <=> BeforePush)
  BY <1>1, SameMaster
<1>5. /\ Over /\ waits /\ master.pc \in {"wait_ack", "push"}
      /\ ecpu = "listen" => device.rx = <<>> /\ ~Partial
  BY GivesUpOver
<1>6. (IsOver' <=> IsOver) /\ Over' /\ ~Starting' /\ ~Clocking'
  BY <1>1, <1>2, <1>3, <1>5 DEF IsOver, Over, Starting, Clocking
<1>7. Typed'
  <2>1. lag' \in [{"master", "emulator"} -> 0 .. kLagCycles] BY <1>1, AwakensLag DEF Inv
  <2> QED BY <1>1, <2>1 DEF Inv, Typed
<1>8. MasterHolds'
  <2>1. Word' = Word BY <1>1, <1>4 DEF Word
  <2> QED BY <1>1, <1>2, <1>4, <2>1 DEF Inv, MasterHolds, MasterFifos
<1>9. DeviceHolds' BY <1>1 DEF Inv, DeviceHolds
<1>10. CoupledIdle' BY <1>1, <1>2 DEF CoupledIdle
<1>11. CoupledStart' /\ CoupledClock' /\ Content'
  BY <1>6 DEF CoupledStart, CoupledClock, Content
<1>12. CoupledEnd'
  <2>1. CoupledEnd /\ Over BY <1>5 DEF Inv
  <2> QED BY <1>1, <1>3, <1>4, <2>1 DEF CoupledEnd
<1>13. TimerHolds' BY <1>1, <1>5, <1>6 DEF TimerHolds
<1>14. CpuHolds'
  <2>1. IsLast' = IsLast BY <1>1 DEF IsLast
  <2> QED BY <1>1, <1>2, <2>1 DEF Inv, CpuHolds
<1>15. LateHolds' BY <1>1, <1>2, <1>6 DEF Inv, LateHolds, Over
<1>16. ListenHolds' BY <1>1, <1>2, <1>3, <1>5 DEF Inv, ListenHolds
<1>17. ServeHolds'
  <2>1. HasHeard' <=> HasHeard BY <1>1 DEF HasHeard
  <2> QED BY <1>1, <1>2, <1>3, <1>4, <1>5, <1>6, <2>1 DEF Inv, ServeHolds
<1> QED BY <1>7, <1>8, <1>9, <1>10, <1>11, <1>12, <1>13, <1>14, <1>15, <1>16, <1>17 DEF Inv

(* The program goes back to `pull`, and CLK is high. *)
LEMMA RecoverKeeps ==
    ASSUME Inv, Recover
    PROVE  Inv'
<1>1. /\ mcpu = "recover" /\ mcpu' = "idle" /\ index' = 0 /\ timer' = timer
      /\ master' = recover(master)
      /\ lag' = [lag EXCEPT !["master"] = 0]
      /\ device' = device /\ sent' = sent /\ waits' = waits
      /\ ecpu' = ecpu /\ reply' = reply /\ delay' = delay
      /\ ack_delay_us' = ack_delay_us /\ loaded' = loaded /\ late' = late
  BY DEF Recover, ecpuVars
<1>2. UnderWay /\ ~UnderWay' BY <1>1 DEF UnderWay
<1>3. /\ Heard' = Heard /\ (Pending' <=> Pending) /\ (IsReady' <=> IsReady)
      /\ (BeforeByte' <=> BeforeByte) /\ (Partial' <=> Partial)
      /\ (IsIdle(device)' <=> IsIdle(device))
  BY <1>1, SameDevice
<1>4. Over /\ waits /\ IsOver BY <1>1 DEF Inv, TimerHolds, Over
<1>5. /\ master \in MasterSm /\ master.wait \in Nat BY Scalars DEF Inv, Typed
<1>6. master.clk = 1
  <2>1. master.pc # "in" BY <1>4, <1>2, NowOver, Phases, Numbers, Scalars DEF Inv
  <2> QED BY <2>1 DEF Inv, MasterHolds, MasterAt
<1>7. PICK w \in Nat : w = master.wait % kCyclesPerUs /\ w < kCyclesPerUs
  BY <1>5, Numbers
<1>8. master' = [master EXCEPT !.tx = <<>>, !.rx = <<>>, !.isr = <<>>, !.wait = w, !.pc = "pull"]
  BY <1>1, <1>7 DEF recover
<1>9. w \in 0 .. 2 * kCyclesPerUs - 1 BY <1>7, Numbers
<1>10. master' \in MasterSm
  <2>1. <<>> \in Seq(Bit) /\ <<>> \in Seq(Bits) /\ <<>> \in Seq(Seq(Bit)) OBVIOUS
  <2>2. PICK a : a = [master EXCEPT !.tx = <<>>, !.rx = <<>>, !.isr = <<>>] OBVIOUS
  <2>3. a \in MasterSm BY <2>1, <2>2, <1>5 DEF MasterSm
  <2>4. master' = [a EXCEPT !.wait = w, !.pc = "pull"] BY <2>2, <1>8, <1>5 DEF MasterSm
  <2> QED BY <2>3, <2>4, <1>9 DEF MasterSm
<1>11. /\ master'.pc = "pull" /\ master'.tx = <<>> /\ master'.rx = <<>> /\ master'.isr = <<>>
       /\ master'.clk = 1 /\ master'.wait = w
  BY <1>5, <1>6, <1>8 DEF MasterSm
<1>12. Typed'
  <2>1. lag' \in [{"master", "emulator"} -> 0 .. kLagCycles] BY <1>1, AwakensLag DEF Inv
  <2>2. index' \in 0 .. FrameLen - 1 BY <1>1, FrameLenAssumption
  <2> QED BY <1>1, <1>10, <2>1, <2>2 DEF Inv, Typed
<1>13. MasterHolds'
  <2>1. MasterAt(master', sent', Flag') BY <1>7, <1>11 DEF MasterAt
  <2> QED BY <1>2, <1>11, <2>1 DEF MasterHolds, MasterFifos
<1>14. DeviceHolds' BY <1>1 DEF Inv, DeviceHolds
<1>15. CoupledIdle'
  <2>1. device.pc \in Prelude \cup Pulse \cup {"wait_low"} BY <1>4 DEF Inv, CoupledEnd
  <2> QED BY <1>1, <2>1 DEF CoupledIdle
<1>16. CoupledStart' /\ CoupledClock' /\ CoupledEnd' /\ Content' /\ TimerHolds' /\ LateHolds'
  BY <1>1, <1>2 DEF CoupledStart, Starting, CoupledClock, Clocking, CoupledEnd, Over, Content,
     TimerHolds, LateHolds
<1>17. CpuHolds' BY <1>1, <1>2 DEF CpuHolds
<1>18. ListenHolds'
  <2>1. ecpu = "listen" => device.rx = <<>> /\ ~Partial
    BY <1>1, <1>4 DEF Inv, ListenHolds
  <2>2. ecpu = "print" => ~Partial
    <3>1. ASSUME ecpu = "print", Partial PROVE FALSE
      <4>1. device.pc = "wait_low" /\ Heard # 0
        BY <3>1, <1>4 DEF Inv, CoupledEnd, Partial, IsReady
      <4>2. late BY <4>1, <1>4 DEF Inv, CoupledEnd
      <4> QED BY <3>1, <4>2, <1>2 DEF Inv, LateHolds
    <3> QED BY <3>1
  <2> QED BY <1>1, <1>2, <1>3, <2>1, <2>2 DEF Inv, ListenHolds, Over
<1>19. ServeHolds'
  BY <1>1, <1>2, <1>3 DEF Inv, ServeHolds, Over
<1> QED BY <1>12, <1>13, <1>14, <1>15, <1>16, <1>17, <1>18, <1>19 DEF Inv

(* A device that is restarted stands at `pull` with the frame start's word. *)
LEMMA RestartIs ==
    ASSUME device \in DeviceSm, device' = device_restart(device)
    PROVE  /\ device' \in DeviceSm /\ DeviceAt(device', kReleasedByte)
           /\ device'.pc = "pull" /\ device'.wait = 0 /\ device'.rx = <<>> /\ device'.isr = <<>>
           /\ device'.tx = <<word_for(kReleasedByte, FALSE)>>
           /\ ~Pending' /\ BeforeByte' /\ ~Partial' /\ ~IsIdle(device)' /\ ~IsShifting(device)'
<1>1. PICK w : w = word_for(kReleasedByte, FALSE) OBVIOUS
<1>2. w \in Seq(Bit) /\ w[1] = 0 BY <1>1, ADeviceWord, ReleasedIsByte
<1>3. <<w>> \in Seq(Seq(Bit)) /\ <<>> \in Seq(Bit) /\ <<>> \in Seq(Bits) BY <1>2
<1>4. device' = [device EXCEPT !.pc = "pull", !.wait = 0, !.isr = <<>>, !.rx = <<>>,
                    !.tx = <<w>>, !.pull_data = 0, !.pull_ack = 0]
  BY <1>1 DEF device_restart
<1>5. PICK a : a = [device EXCEPT !.isr = <<>>, !.rx = <<>>, !.tx = <<w>>] OBVIOUS
<1>6. a \in DeviceSm BY <1>3, <1>5 DEF DeviceSm
<1>7. device' = [a EXCEPT !.pc = "pull", !.wait = 0, !.pull_data = 0, !.pull_ack = 0]
  BY <1>4, <1>5 DEF DeviceSm
<1>8. 0 \in 0 .. kAckPulseCycles - 1 BY Numbers DEF kAckPulseCycles
<1>9. device' \in DeviceSm BY <1>6, <1>7, <1>8 DEF DeviceSm, Bit
<1>10. /\ device'.pc = "pull" /\ device'.wait = 0 /\ device'.isr = <<>> /\ device'.rx = <<>>
       /\ device'.tx = <<w>> /\ device'.pull_data = 0 /\ device'.pull_ack = 0
  BY <1>4 DEF DeviceSm
<1>11. <<w>> # <<>> /\ Head(<<w>>) = w /\ Len(<<>>) = 0 OBVIOUS
<1>12. DeviceAt(device', kReleasedByte)
  <2>1. \E acks \in BOOLEAN : device'.tx = <<word_for(kReleasedByte, acks)>>
    <3>1. device'.tx = <<word_for(kReleasedByte, FALSE)>> BY <1>1, <1>10
    <3> QED BY <3>1
  <2>2. Len(device'.rx) <= 1 BY <1>10, <1>11
  <2> QED BY <1>10, <2>1, <2>2 DEF DeviceAt, Prelude, Pulse
<1>13. ~Pending' BY <1>2, <1>10, <1>11 DEF Pending
<1>14. BeforeByte' BY <1>10, <1>13 DEF BeforeByte, Prelude
<1>15. ~Partial' BY <1>10 DEF Partial, Prelude
<1>16. ~IsIdle(device)' /\ ~IsShifting(device)' BY <1>10, <1>11 DEF IsIdle, IsShifting
<1> QED BY <1>1, <1>9, <1>10, <1>12, <1>13, <1>14, <1>15, <1>16

-----------------------------------------------------------------------------
(* The emulator's CPU: a line is printed while ATT is high. *)
LEMMA PrintLineKeeps ==
    ASSUME Inv, PrintLine
    PROVE  Inv'
<1>1. /\ mcpu = "idle" /\ ecpu = "listen" /\ ecpu' = "print" /\ ack_delay_us' \in AckDelays
      /\ master' = master /\ device' = device /\ mcpu' = mcpu /\ index' = index /\ sent' = sent
      /\ waits' = waits /\ timer' = timer /\ reply' = reply /\ delay' = delay
      /\ loaded' = loaded /\ late' = late /\ lag' = lag
  BY DEF PrintLine, mcpuVars, att_is_high
<1>2. ~UnderWay /\ ~UnderWay' BY <1>1 DEF UnderWay
<1>3. /\ Heard' = Heard /\ (Pending' <=> Pending) /\ (IsReady' <=> IsReady)
      /\ (BeforeByte' <=> BeforeByte) /\ (Partial' <=> Partial)
      /\ (IsIdle(device)' <=> IsIdle(device))
  BY <1>1, SameDevice
<1>4. Typed' BY <1>1 DEF Inv, Typed
<1>5. MasterHolds' BY <1>1, <1>2, SameMaster DEF Inv, MasterHolds, MasterFifos
<1>6. DeviceHolds' BY <1>1 DEF Inv, DeviceHolds
<1>7. CoupledIdle' BY <1>1, <1>2, <1>3 DEF Inv, CoupledIdle
<1>8. CoupledStart' /\ CoupledClock' /\ CoupledEnd' /\ Content' /\ TimerHolds' /\ LateHolds'
  BY <1>1, <1>2 DEF CoupledStart, Starting, CoupledClock, Clocking, CoupledEnd, Over, Content,
     TimerHolds, LateHolds
<1>9. CpuHolds' BY <1>1, <1>2 DEF Inv, CpuHolds
<1>10. ListenHolds' BY <1>1, <1>2, <1>3 DEF Inv, ListenHolds
<1>11. ServeHolds' BY <1>1, <1>2 DEF ServeHolds, Over
<1> QED BY <1>4, <1>5, <1>6, <1>7, <1>8, <1>9, <1>10, <1>11 DEF Inv

(* A byte at the top of the loop is one that is over, or that went by while *)
(* the emulator printed.                                                    *)
LEMMA PrintedNotPartial ==
    ASSUME Inv, ecpu = "print", UnderWay, Over
    PROVE  ~Partial
<1>1. ASSUME Partial PROVE FALSE
  <2>1. device.pc = "wait_low" /\ Heard # 0 BY <1>1 DEF Inv, CoupledEnd, Partial, IsReady
  <2>2. late BY <2>1 DEF Inv, CoupledEnd
  <2> QED BY <2>2 DEF Inv, LateHolds
<1> QED BY <1>1

(* It returns, and drops what was clocked meanwhile. *)
LEMMA PrintedKeeps ==
    ASSUME Inv, Printed
    PROVE  Inv'
<1>1. /\ ecpu = "print" /\ ecpu' = "listen"
      /\ lag' = [lag EXCEPT !["emulator"] = 0]
      /\ master' = master /\ mcpu' = mcpu /\ index' = index /\ sent' = sent
      /\ waits' = waits /\ timer' = timer /\ reply' = reply /\ delay' = delay
      /\ ack_delay_us' = ack_delay_us
  BY DEF Printed, mcpuVars
<1>2. UnderWay' <=> UnderWay BY <1>1 DEF UnderWay
<1>3. /\ Sampled' = Sampled /\ Flag' = Flag /\ Risen' = Risen /\ Fallen' = Fallen
      /\ ToPoll' = ToPoll /\ (BeforePush' <=> BeforePush) /\ (Starting' <=> Starting)
      /\ Word' = Word /\ (IsLast' <=> IsLast)
  <2>1. /\ Sampled' = Sampled /\ Flag' = Flag /\ Risen' = Risen /\ Fallen' = Fallen
        /\ ToPoll' = ToPoll /\ (BeforePush' <=> BeforePush)
    BY <1>1, SameMaster
  <2> QED BY <1>1, <1>2, <2>1 DEF Starting, Word, IsLast
<1>4. MasterHolds' BY <1>1, <1>2, <1>3 DEF Inv, MasterHolds, MasterFifos
<1>5. lag' \in [{"master", "emulator"} -> 0 .. kLagCycles] BY <1>1, AwakensLag DEF Inv
<1>6. CpuHolds' BY <1>1, <1>2, <1>3 DEF Inv, CpuHolds
<1>7. Over /\ waits => BeforePush BY <1>1 DEF Inv, ServeHolds
<1>8. CASE ~has_byte(device)
  <2>1. device' = device /\ loaded' = loaded /\ late' = late /\ device.rx = <<>>
    BY <1>8 DEF Printed, has_byte
  <2>2. /\ Heard' = Heard /\ (Pending' <=> Pending) /\ (IsReady' <=> IsReady)
        /\ (BeforeByte' <=> BeforeByte) /\ (Partial' <=> Partial)
        /\ (IsIdle(device)' <=> IsIdle(device)) /\ (IsShifting(device)' <=> IsShifting(device))
    BY <2>1, SameDevice
  <2>3. (IsOver' <=> IsOver) /\ (Over' <=> Over) /\ (Clocking' <=> Clocking)
    BY <1>1, <1>2, <1>3, <2>1, <2>2 DEF IsOver, Over, Clocking
  <2>4. Typed' BY <1>1, <1>5, <2>1 DEF Inv, Typed
  <2>5. DeviceHolds' BY <2>1 DEF Inv, DeviceHolds
  <2>6. CoupledIdle' BY <1>1, <1>2, <2>1, <2>2 DEF Inv, CoupledIdle
  <2>7. CoupledStart' BY <1>1, <1>3, <2>1, <2>2 DEF Inv, CoupledStart, InTime
  <2>8. CoupledClock'
    BY <1>1, <1>3, <2>1, <2>2, <2>3 DEF Inv, CoupledClock, CoupledLow, CoupledHigh, CoupledNext,
       AsMany, OneLess, Behind
  <2>9. CoupledEnd' BY <1>1, <1>3, <2>1, <2>2, <2>3 DEF Inv, CoupledEnd
  <2>10. Content' BY <1>1, <1>3, <2>1, <2>2, <2>3 DEF Inv, Content
  <2>11. TimerHolds' BY <1>1, <1>3, <2>3 DEF Inv, TimerHolds
  <2>12. LateHolds' BY <1>1, <1>2, <2>1, <2>3 DEF Inv, LateHolds
  <2>13. ListenHolds'
    <3>1. Over => ~Partial BY <1>1, PrintedNotPartial DEF Over
    <3> QED BY <1>1, <1>2, <2>1, <2>2, <2>3, <3>1 DEF Inv, ListenHolds
  <2>14. ServeHolds' BY <1>1, <1>3, <1>7, <2>1, <2>3 DEF ServeHolds
  <2> QED BY <1>4, <1>6, <2>4, <2>5, <2>6, <2>7, <2>8, <2>9, <2>10, <2>11, <2>12, <2>13, <2>14 DEF Inv
<1>9. CASE has_byte(device)
  <2>1. device' = device_restart(device) /\ loaded' = kReleasedByte /\ late' = (mcpu # "idle")
        /\ device.rx # <<>>
    BY <1>9 DEF Printed, Restarted, att_is_high, has_byte
  <2>2. /\ device' \in DeviceSm /\ DeviceAt(device', kReleasedByte)
        /\ device'.pc = "pull" /\ device'.wait = 0 /\ device'.rx = <<>>
        /\ ~Pending' /\ BeforeByte' /\ ~Partial' /\ ~IsIdle(device)' /\ ~IsShifting(device)'
    BY <2>1, RestartIs DEF Inv, Typed
  <2>3. device.pc = "pull" /\ IsIdle(device)
    BY <2>1 DEF Inv, DeviceHolds, DeviceAt, IsIdle
  <2>4. ~IsShifting(device) BY <2>3 DEF IsShifting
  <2>5. (IsOver' <=> IsOver) /\ (Over' <=> Over) /\ (Clocking' <=> Clocking)
    BY <1>1, <1>2, <1>3, <2>2, <2>4 DEF IsOver, Over, Clocking
  <2>6. UnderWay => late' BY <2>1 DEF UnderWay
  <2>7. Typed'
    <3>1. loaded' \in Bits /\ late' \in BOOLEAN BY <2>1, ReleasedIsByte
    <3> QED BY <1>1, <1>5, <2>2, <3>1 DEF Inv, Typed
  <2>8. DeviceHolds' BY <2>1, <2>2 DEF DeviceHolds
  <2>9. CoupledIdle' BY <2>2 DEF CoupledIdle, Prelude
  <2>10. CoupledStart' BY <1>3, <2>2, <2>6 DEF CoupledStart, Starting
  <2>11. CoupledClock'
    <3>1. Clocking => master.pc \in {"in", "jmp_x", "out"} /\ UnderWay
      BY DEF Inv, CoupledClock, Clocking
    <3> QED BY <1>1, <2>2, <2>5, <2>6, <3>1 DEF CoupledClock, CoupledLow, CoupledHigh, CoupledNext, Prelude
  <2>12. CoupledEnd' BY <1>1, <1>3, <1>7, <2>2, <2>5 DEF CoupledEnd, Prelude
  <2>13. Content'
    <3>1. Clocking => master.isr = SubSeq(kReleasedByte, 1, Sampled) /\ UnderWay
      BY <2>3 DEF Inv, Content, Clocking
    <3> QED BY <1>1, <1>3, <2>1, <2>2, <2>5, <2>6, <3>1 DEF Content
  <2>14. TimerHolds' BY <1>1, <1>3, <2>5 DEF Inv, TimerHolds
  <2>15. LateHolds'
    <3>1. UnderWay => index = 0
      <4>1. mcpu # "idle" /\ index > 0 => ecpu \in {"serve", "answer"} BY DEF Inv, CpuHolds
      <4>2. index \in Nat BY FrameLenAssumption DEF Inv, Typed
      <4> QED BY <1>1, <4>1, <4>2 DEF UnderWay
    <3> QED BY <1>1, <1>2, <2>1, <3>1 DEF LateHolds
  <2>16. ListenHolds' BY <2>1, <2>2 DEF ListenHolds
  <2>17. ServeHolds' BY <1>1, <1>3, <1>7, <2>2, <2>5 DEF ServeHolds
  <2> QED BY <1>4, <1>6, <2>7, <2>8, <2>9, <2>10, <2>11, <2>12, <2>13, <2>14, <2>15, <2>16, <2>17 DEF Inv
<1> QED BY <1>8, <1>9

(* It sees ATT low: what it heard is over, and in time. *)
LEMMA SelectSeenKeeps ==
    ASSUME Inv, SelectSeen
    PROVE  Inv'
<1>1. /\ mcpu # "idle" /\ ecpu = "listen" /\ ecpu' = "serve"
      /\ lag' = [lag EXCEPT !["emulator"] = 0]
      /\ master' = master /\ device' = device /\ mcpu' = mcpu /\ index' = index /\ sent' = sent
      /\ waits' = waits /\ timer' = timer /\ reply' = reply /\ delay' = delay
      /\ ack_delay_us' = ack_delay_us /\ loaded' = loaded /\ late' = late
  BY DEF SelectSeen, mcpuVars, att_is_high
<1>2. UnderWay' <=> UnderWay BY <1>1 DEF UnderWay
<1>3. /\ Sampled' = Sampled /\ Flag' = Flag /\ Risen' = Risen /\ Fallen' = Fallen
      /\ ToPoll' = ToPoll /\ (BeforePush' <=> BeforePush) /\ (Starting' <=> Starting)
      /\ Word' = Word /\ (IsLast' <=> IsLast)
  <2>1. /\ Sampled' = Sampled /\ Flag' = Flag /\ Risen' = Risen /\ Fallen' = Fallen
        /\ ToPoll' = ToPoll /\ (BeforePush' <=> BeforePush)
    BY <1>1, SameMaster
  <2> QED BY <1>1, <1>2, <2>1 DEF Starting, Word, IsLast
<1>4. /\ Heard' = Heard /\ (Pending' <=> Pending) /\ (IsReady' <=> IsReady)
      /\ (BeforeByte' <=> BeforeByte) /\ (Partial' <=> Partial)
      /\ (IsIdle(device)' <=> IsIdle(device)) /\ (IsShifting(device)' <=> IsShifting(device))
  BY <1>1, SameDevice
<1>5. (IsOver' <=> IsOver) /\ (Over' <=> Over) /\ (Clocking' <=> Clocking)
  BY <1>1, <1>2, <1>3, <1>4 DEF IsOver, Over, Clocking
<1>6. Typed'
  <2>1. lag' \in [{"master", "emulator"} -> 0 .. kLagCycles] BY <1>1, AwakensLag DEF Inv
  <2> QED BY <1>1, <2>1 DEF Inv, Typed
<1>7. MasterHolds' BY <1>1, <1>2, <1>3 DEF Inv, MasterHolds, MasterFifos
<1>8. DeviceHolds' BY <1>1 DEF Inv, DeviceHolds
<1>9. CoupledIdle' BY <1>1, <1>2, <1>4 DEF Inv, CoupledIdle
<1>10. CoupledStart' BY <1>1, <1>3, <1>4 DEF Inv, CoupledStart, InTime
<1>11. CoupledClock'
  BY <1>1, <1>3, <1>4, <1>5 DEF Inv, CoupledClock, CoupledLow, CoupledHigh, CoupledNext,
     AsMany, OneLess, Behind
<1>12. CoupledEnd' BY <1>1, <1>3, <1>4, <1>5 DEF Inv, CoupledEnd
<1>13. Content' BY <1>1, <1>3, <1>4, <1>5 DEF Inv, Content
<1>14. TimerHolds' BY <1>1, <1>3, <1>5 DEF Inv, TimerHolds
<1>15. CpuHolds' BY <1>1, <1>2, <1>3 DEF Inv, CpuHolds
<1>16. LateHolds' BY <1>1, <1>2, <1>5 DEF Inv, LateHolds
<1>17. ListenHolds' BY <1>1 DEF ListenHolds
<1>18. ServeHolds'
  <2>1. device.rx # <<>> => Over BY <1>1 DEF Inv, ListenHolds
  <2>2. Over /\ waits => BeforePush BY <1>1 DEF Inv, ServeHolds
  <2>3. device.rx # <<>> /\ UnderWay /\ waits => ToPoll <= 4 * kCyclesPerUs - 7
    BY <1>1 DEF Inv, ServeHolds
  <2> QED BY <1>1, <1>2, <1>3, <1>5, <2>1, <2>2, <2>3 DEF ServeHolds, HasHeard
<1> QED BY <1>6, <1>7, <1>8, <1>9, <1>10, <1>11, <1>12, <1>13, <1>14, <1>15, <1>16, <1>17, <1>18 DEF Inv

(* The shortest delay lets the master get to its poll. *)
LEMMA DelaysEnough ==
    ASSUME Inv, NEW d \in AckDelay
    PROVE  d \in Nat /\ d + 2 * kCyclesPerUs + 3 >= 4 * kCyclesPerUs - 7
<1>1. PICK k \in Nat : k = kCyclesPerUs /\ k >= 8 BY Numbers
<1>2. PICK u \in Nat : u = ack_delay_us /\ (u >= 3 \/ (u = 2 /\ k <= 11))
  BY <1>1, AckDelaysAssumption DEF Inv, Typed
<1>3. PICK v \in Nat : u = v + 2
  <2>1. u - 2 \in Nat /\ u = (u - 2) + 2 BY <1>2
  <2> QED BY <2>1
<1>4. (u - 1) * k = v * k + k
  <2>1. u - 1 = v + 1 BY <1>3
  <2>2. (v + 1) * k = v * k + k OBVIOUS
  <2> QED BY <2>1, <2>2
<1>5. v * k \in Nat OBVIOUS
<1>6. d \in Int /\ d >= v * k + k + 1
  <2>1. d \in (u - 1) * k + 1 .. u * k BY <1>1, <1>2 DEF AckDelay
  <2>2. u * k \in Int /\ (u - 1) * k \in Int OBVIOUS
  <2> QED BY <2>1, <2>2, <1>4, <1>5
<1>7. CASE u = 2 /\ k <= 11
  BY <1>1, <1>5, <1>6, <1>7
<1>8. CASE u >= 3
  <2>1. PICK x \in Nat : v = x + 1
    <3>1. v - 1 \in Nat /\ v = (v - 1) + 1 BY <1>3, <1>8
    <3> QED BY <3>1
  <2>2. (x + 1) * k = x * k + k OBVIOUS
  <2>3. x * k \in Nat OBVIOUS
  <2> QED BY <1>1, <1>6, <2>1, <2>2, <2>3
<1> QED BY <1>2, <1>7, <1>8

(* It takes a byte: the ACK will come when the master polls. *)
LEMMA TakeByteKeeps ==
    ASSUME Inv, TakeByte
    PROVE  Inv'
<1>1. /\ ecpu = "serve" /\ has_byte(device) /\ ecpu' = "answer"
      /\ device' = dropped_byte(device)
      /\ reply' \in [next : Bytes, should_ack : BOOLEAN]
      /\ delay' \in (IF reply'.should_ack THEN AckDelay ELSE {0})
      /\ lag' = [lag EXCEPT !["emulator"] = 0]
      /\ master' = master /\ mcpu' = mcpu /\ index' = index /\ sent' = sent
      /\ waits' = waits /\ timer' = timer
      /\ ack_delay_us' = ack_delay_us /\ loaded' = loaded /\ late' = late
  BY DEF TakeByte, mcpuVars
<1>2. UnderWay' <=> UnderWay BY <1>1 DEF UnderWay
<1>3. /\ Sampled' = Sampled /\ Flag' = Flag /\ Risen' = Risen /\ Fallen' = Fallen
      /\ ToPoll' = ToPoll /\ (BeforePush' <=> BeforePush) /\ (Starting' <=> Starting)
      /\ Word' = Word /\ (IsLast' <=> IsLast)
  <2>1. /\ Sampled' = Sampled /\ Flag' = Flag /\ Risen' = Risen /\ Fallen' = Fallen
        /\ ToPoll' = ToPoll /\ (BeforePush' <=> BeforePush)
    BY <1>1, SameMaster
  <2> QED BY <1>1, <1>2, <2>1 DEF Starting, Word, IsLast
<1>4. device.rx # <<>> /\ device.pc = "pull" /\ device.tx = <<>> /\ Len(device.rx) <= 1
      /\ device \in DeviceSm /\ IsIdle(device)
  BY <1>1 DEF Inv, DeviceHolds, DeviceAt, has_byte, Typed, IsIdle
<1>5. Tail(device.rx) = <<>>
  <2>1. device.rx \in Seq(Bits) BY <1>4 DEF DeviceSm
  <2>2. Len(device.rx) = 1
    <3>1. PICK r : r = device.rx OBVIOUS
    <3>2. r \in Seq(Bits) /\ r # <<>> /\ Len(r) <= 1 BY <1>4, <2>1, <3>1
    <3>3. Len(r) \in Nat /\ (Len(r) = 0 => r = <<>>) BY <3>2, EmptySeq
    <3>4. Len(r) = 1 BY <3>2, <3>3
    <3> QED BY <3>1, <3>4
  <2>3. Len(Tail(device.rx)) = 0 /\ Tail(device.rx) \in Seq(Bits)
    BY <1>4, <2>1, <2>2, HeadTailProperties
  <2>4. PICK u : u = Tail(device.rx) OBVIOUS
  <2>5. u \in Seq(Bits) /\ Len(u) = 0 BY <2>3, <2>4
  <2>6. u = <<>> BY <2>5
  <2> QED BY <2>4, <2>6
<1>6. device' = [device EXCEPT !.rx = <<>>] BY <1>1, <1>5 DEF dropped_byte
<1>7. <<>> \in Seq(Bits) OBVIOUS
<1>8. device' \in DeviceSm BY <1>4, <1>6, <1>7 DEF DeviceSm
<1>9. /\ device'.pc = device.pc /\ device'.wait = device.wait /\ device'.x = device.x
      /\ device'.y = device.y /\ device'.osr = device.osr /\ device'.isr = device.isr
      /\ device'.tx = device.tx /\ device'.rx = <<>>
      /\ device'.pull_data = device.pull_data /\ device'.pull_ack = device.pull_ack
  BY <1>4, <1>6 DEF DeviceSm
<1>10. /\ Heard' = Heard /\ (Pending' <=> Pending) /\ (IsReady' <=> IsReady)
       /\ (BeforeByte' <=> BeforeByte) /\ (Partial' <=> Partial)
       /\ (IsIdle(device)' <=> IsIdle(device)) /\ (IsShifting(device)' <=> IsShifting(device))
  BY <1>9, SameDevice
<1>11. (IsOver' <=> IsOver) /\ (Over' <=> Over) /\ (Clocking' <=> Clocking)
  BY <1>1, <1>2, <1>3, <1>9, <1>10 DEF IsOver, Over, Clocking
<1>12. Typed'
  <2>1. lag' \in [{"master", "emulator"} -> 0 .. kLagCycles] BY <1>1, AwakensLag DEF Inv
  <2>2. delay' \in Nat BY <1>1, DelaysEnough
  <2>3. reply' \in [next : Bits, should_ack : BOOLEAN] BY <1>1, BytesAssumption
  <2> QED BY <1>1, <1>8, <2>1, <2>2, <2>3 DEF Inv, Typed
<1>13. MasterHolds' BY <1>1, <1>2, <1>3 DEF Inv, MasterHolds, MasterFifos
<1>14. DeviceHolds'
  <2>1. Len(<<>>) = 0 OBVIOUS
  <2>2. DeviceAt(device, loaded) BY DEF Inv, DeviceHolds
  <2>3. DeviceAt(device', loaded) BY <1>4, <1>9, <2>1, <2>2 DEF DeviceAt, Prelude, Pulse
  <2> QED BY <1>1, <2>3 DEF DeviceHolds
<1>15. CoupledIdle' BY <1>1, <1>2, <1>9, <1>10 DEF Inv, CoupledIdle
<1>16. CoupledStart' BY <1>1, <1>3, <1>9, <1>10 DEF Inv, CoupledStart, InTime
<1>17. CoupledClock'
  BY <1>1, <1>3, <1>9, <1>10, <1>11 DEF Inv, CoupledClock, CoupledLow, CoupledHigh, CoupledNext,
     AsMany, OneLess, Behind
<1>18. CoupledEnd' BY <1>1, <1>3, <1>9, <1>10, <1>11 DEF Inv, CoupledEnd
<1>19. Content' BY <1>1, <1>3, <1>9, <1>10, <1>11 DEF Inv, Content
<1>20. TimerHolds' BY <1>1, <1>3, <1>11 DEF Inv, TimerHolds
<1>21. mcpu # "idle" => Over /\ (waits => BeforePush)
  BY <1>1, <1>4 DEF Inv, ServeHolds, HasHeard
<1>22. CpuHolds' BY <1>1, <1>2, <1>3, <1>21 DEF Inv, CpuHolds, Over, UnderWay
<1>23. LateHolds' BY <1>1, <1>2, <1>11 DEF Inv, LateHolds
<1>24. ListenHolds' BY <1>1 DEF ListenHolds
<1>25. ServeHolds'
  <2>1. Over => mcpu # "idle" BY DEF Over, UnderWay
  <2>2. ASSUME reply'.should_ack, UnderWay, waits
        PROVE  delay' + 2 * kCyclesPerUs + 3 >= ToPoll
    <3>1. ToPoll <= 4 * kCyclesPerUs - 7 BY <1>1, <1>4, <2>2 DEF Inv, ServeHolds
    <3>2. ToPoll \in Nat BY Scalars, Numbers DEF Inv, ToPoll
    <3>3. delay' \in Nat /\ delay' + 2 * kCyclesPerUs + 3 >= 4 * kCyclesPerUs - 7
      BY <1>1, <2>2, DelaysEnough
    <3>4. PICK e : e = delay' OBVIOUS
    <3>5. PICK p : p = ToPoll OBVIOUS
    <3>6. e \in Nat /\ p \in Nat /\ e + 2 * kCyclesPerUs + 3 >= 4 * kCyclesPerUs - 7 /\ p <= 4 * kCyclesPerUs - 7
      BY <3>1, <3>2, <3>3, <3>4, <3>5
    <3>7. e + 2 * kCyclesPerUs + 3 >= p BY <3>6, Numbers
    <3> QED BY <3>4, <3>5, <3>7
  <2> QED BY <1>1, <1>2, <1>3, <1>4, <1>9, <1>10, <1>11, <1>21, <2>1, <2>2 DEF ServeHolds
<1> QED BY <1>12, <1>13, <1>14, <1>15, <1>16, <1>17, <1>18, <1>19, <1>20, <1>22, <1>23, <1>24, <1>25 DEF Inv

(* An answer leaves the device at `pull` with its word. *)
LEMMA AnswerIs ==
    ASSUME device \in DeviceSm, IsIdle(device), device.rx = <<>>,
           DeviceAt(device, loaded),
           NEW byte \in Bits, NEW acks \in BOOLEAN,
           device' = device_answer(device, byte, acks)
    PROVE  /\ device' \in DeviceSm /\ DeviceAt(device', byte)
           /\ device'.pc = "pull" /\ device'.wait = 0 /\ device'.rx = <<>> /\ device'.isr = <<>>
           /\ device'.tx = <<word_for(byte, acks)>> /\ device'.x = device.x
           /\ (Pending' <=> acks) /\ (BeforeByte' <=> ~acks)
           /\ ~Partial' /\ ~IsIdle(device)' /\ ~IsShifting(device)'
<1>1. PICK w : w = word_for(byte, acks) OBVIOUS
<1>2. w \in Seq(Bit) /\ w[1] = (IF acks THEN 1 ELSE 0) BY <1>1, ADeviceWord
<1>3. <<w>> \in Seq(Seq(Bit)) BY <1>2
<1>4. device.pc = "pull" /\ device.tx = <<>> BY DEF IsIdle
<1>5. device' = [device EXCEPT !.tx = <<w>>]
  <2>1. Len(device.tx) = 0 /\ Append(device.tx, w) = <<w>> BY <1>4
  <2>2. put(device, w) = [device EXCEPT !.tx = Append(device.tx, w)]
    BY <2>1 DEF put, kFifoDepth
  <2> QED BY <1>1, <2>1, <2>2 DEF device_answer
<1>6. device' \in DeviceSm BY <1>3, <1>5 DEF DeviceSm
<1>7. /\ device'.pc = "pull" /\ device'.tx = <<w>> /\ device'.wait = device.wait
      /\ device'.rx = <<>> /\ device'.isr = device.isr /\ device'.x = device.x
      /\ device'.pull_data = device.pull_data /\ device'.pull_ack = device.pull_ack
  BY <1>4, <1>5 DEF DeviceSm
<1>8. device.wait = 0 /\ device.isr = <<>> /\ device.pull_data = 0 /\ device.pull_ack = 0
  BY <1>4 DEF DeviceAt, Prelude
<1>9. <<w>> # <<>> /\ Head(<<w>>) = w /\ Len(<<>>) = 0 OBVIOUS
<1>10. DeviceAt(device', byte)
  <2>1. \E a \in BOOLEAN : device'.tx = <<word_for(byte, a)>>
    <3>1. device'.tx = <<word_for(byte, acks)>> BY <1>1, <1>7
    <3> QED BY <3>1
  <2>2. Len(device'.rx) <= 1 BY <1>7, <1>9
  <2> QED BY <1>7, <1>8, <2>1, <2>2 DEF DeviceAt, Prelude, Pulse
<1>11. Pending' <=> acks BY <1>2, <1>7, <1>9 DEF Pending
<1>12. BeforeByte' <=> ~acks BY <1>7, <1>11 DEF BeforeByte, Prelude
<1>13. ~Partial' BY <1>7 DEF Partial, Prelude
<1>14. ~IsIdle(device)' /\ ~IsShifting(device)' BY <1>7, <1>9 DEF IsIdle, IsShifting
<1> QED BY <1>1, <1>6, <1>7, <1>8, <1>10, <1>11, <1>12, <1>13, <1>14

(* A byte that is over does not start. *)
LEMMA OverIsNotStarting ==
    ASSUME Inv, Over
    PROVE  ~Starting
BY NowOver, Phases, Numbers DEF Over, Starting

(* It answers: nothing is being clocked. *)
LEMMA AnswerByteKeeps ==
    ASSUME Inv, AnswerByte
    PROVE  Inv'
<1>1. /\ ecpu = "answer" /\ delay = 0 /\ ecpu' = "serve"
      /\ device' = device_answer(device, reply.next, reply.should_ack)
      /\ loaded' = reply.next /\ reply' = NoReply
      /\ lag' = [lag EXCEPT !["emulator"] = 0]
      /\ master' = master /\ mcpu' = mcpu /\ index' = index /\ sent' = sent
      /\ waits' = waits /\ timer' = timer /\ delay' = delay
      /\ ack_delay_us' = ack_delay_us /\ late' = late
  BY DEF AnswerByte, mcpuVars
<1>2. UnderWay' <=> UnderWay BY <1>1 DEF UnderWay
<1>3. /\ Sampled' = Sampled /\ Flag' = Flag /\ Risen' = Risen /\ Fallen' = Fallen
      /\ ToPoll' = ToPoll /\ (BeforePush' <=> BeforePush) /\ (Starting' <=> Starting)
      /\ Word' = Word /\ (IsLast' <=> IsLast)
  <2>1. /\ Sampled' = Sampled /\ Flag' = Flag /\ Risen' = Risen /\ Fallen' = Fallen
        /\ ToPoll' = ToPoll /\ (BeforePush' <=> BeforePush)
    BY <1>1, SameMaster
  <2> QED BY <1>1, <1>2, <2>1 DEF Starting, Word, IsLast
<1>4. IsIdle(device) /\ device.rx = <<>> BY <1>1 DEF Inv, ServeHolds
<1>5. reply.next \in Bits /\ reply.should_ack \in BOOLEAN BY DEF Inv, Typed
<1>6. /\ device' \in DeviceSm /\ DeviceAt(device', loaded')
      /\ device'.pc = "pull" /\ device'.wait = 0 /\ device'.rx = <<>>
      /\ (Pending' <=> reply.should_ack) /\ (BeforeByte' <=> ~reply.should_ack)
      /\ ~Partial' /\ ~IsIdle(device)' /\ ~IsShifting(device)'
  BY <1>1, <1>4, <1>5, AnswerIs DEF Inv, Typed, DeviceHolds
<1>7. ~IsShifting(device) BY <1>4 DEF IsIdle, IsShifting
<1>8. (IsOver' <=> IsOver) /\ (Over' <=> Over) /\ (Clocking' <=> Clocking)
  BY <1>1, <1>2, <1>3, <1>6, <1>7 DEF IsOver, Over, Clocking
<1>9. mcpu # "idle" => Over /\ (waits => BeforePush)
  BY <1>1 DEF Inv, ServeHolds, HasHeard
<1>10. mcpu # "wait" BY <1>1 DEF Inv, CpuHolds
<1>11. UnderWay => Over BY <1>9 DEF UnderWay
<1>12. Typed'
  <2>1. lag' \in [{"master", "emulator"} -> 0 .. kLagCycles] BY <1>1, AwakensLag DEF Inv
  <2>2. reply' \in [next : Bits, should_ack : BOOLEAN] BY <1>1, ReleasedIsByte DEF NoReply
  <2> QED BY <1>1, <1>5, <1>6, <2>1, <2>2 DEF Inv, Typed
<1>13. MasterHolds' BY <1>1, <1>2, <1>3 DEF Inv, MasterHolds, MasterFifos
<1>14. DeviceHolds' BY <1>6 DEF DeviceHolds
<1>15. CoupledIdle' BY <1>1, <1>6, <1>10 DEF CoupledIdle, Prelude
<1>16. CoupledStart'
  <2>1. Starting => Over BY <1>11 DEF Starting
  <2>2. ~Starting BY <2>1, OverIsNotStarting
  <2> QED BY <1>3, <2>2 DEF CoupledStart
<1>17. ~Clocking' BY <1>8, <1>11 DEF Clocking, Over
<1>18. CoupledClock' /\ Content' BY <1>17 DEF CoupledClock, Content
<1>19. CoupledEnd'
  <2>1. reply.should_ack /\ UnderWay /\ waits => 2 * kCyclesPerUs + 3 >= ToPoll
    BY <1>1, Numbers DEF Inv, ServeHolds
  <2>2. Over => UnderWay /\ mcpu # "idle" BY DEF Over, UnderWay
  <2>3. ToPoll \in Int BY Scalars, Numbers DEF Inv, ToPoll
  <2>4. Over' /\ waits' /\ Pending' => BeforePush' /\ ToPoll' <= 2 * kCyclesPerUs + 3
    BY <1>1, <1>3, <1>6, <1>8, <1>9, <2>1, <2>2, <2>3, Numbers
  <2>5. Over' /\ waits' => BeforePush'
    BY <1>1, <1>3, <1>8, <1>9, <2>2
  <2> QED BY <1>6, <2>4, <2>5 DEF CoupledEnd, Prelude
<1>20. TimerHolds' BY <1>1, <1>3, <1>8 DEF Inv, TimerHolds
<1>21. CpuHolds' BY <1>1, <1>2, <1>3 DEF Inv, CpuHolds
<1>22. LateHolds' BY <1>1, <1>2, <1>8, <1>11 DEF Inv, LateHolds, Over
<1>23. ListenHolds' BY <1>1 DEF ListenHolds
<1>24. ServeHolds' BY <1>1, <1>6 DEF ServeHolds, HasHeard
<1> QED BY <1>12, <1>13, <1>14, <1>15, <1>16, <1>18, <1>19, <1>20, <1>21, <1>22, <1>23, <1>24 DEF Inv

(* It sees ATT high, and starts over. *)
LEMMA DeselectedKeeps ==
    ASSUME Inv, Deselected
    PROVE  Inv'
<1>1. /\ mcpu = "idle" /\ ecpu' = "listen" /\ reply' = NoReply /\ delay' = 0
      /\ device' = device_restart(device) /\ loaded' = kReleasedByte /\ late' = FALSE
      /\ lag' = [lag EXCEPT !["emulator"] = 0]
      /\ master' = master /\ mcpu' = mcpu /\ index' = index /\ sent' = sent
      /\ waits' = waits /\ timer' = timer /\ ack_delay_us' = ack_delay_us
  BY DEF Deselected, Restarted, att_is_high, mcpuVars
<1>2. ~UnderWay /\ ~UnderWay' BY <1>1 DEF UnderWay
<1>3. /\ device' \in DeviceSm /\ DeviceAt(device', kReleasedByte)
      /\ device'.pc = "pull" /\ device'.wait = 0 /\ device'.rx = <<>>
      /\ ~Pending' /\ BeforeByte' /\ ~Partial' /\ ~IsIdle(device)'
  BY <1>1, RestartIs DEF Inv, Typed
<1>4. Typed'
  <2>1. lag' \in [{"master", "emulator"} -> 0 .. kLagCycles] BY <1>1, AwakensLag DEF Inv
  <2>2. reply' \in [next : Bits, should_ack : BOOLEAN] BY <1>1, ReleasedIsByte DEF NoReply
  <2>3. loaded' \in Bits /\ late' \in BOOLEAN /\ delay' \in Nat BY <1>1, ReleasedIsByte
  <2> QED BY <1>1, <1>3, <2>1, <2>2, <2>3 DEF Inv, Typed
<1>5. MasterHolds' BY <1>1, <1>2, SameMaster DEF Inv, MasterHolds, MasterFifos
<1>6. DeviceHolds' BY <1>1, <1>3 DEF DeviceHolds
<1>7. CoupledIdle' BY <1>1, <1>3 DEF CoupledIdle, Prelude
<1>8. CoupledStart' /\ CoupledClock' /\ CoupledEnd' /\ Content' /\ TimerHolds' /\ LateHolds'
  BY <1>1, <1>2 DEF CoupledStart, Starting, CoupledClock, Clocking, CoupledEnd, Over, Content,
     TimerHolds, LateHolds
<1>9. CpuHolds' BY <1>1, <1>2 DEF Inv, CpuHolds
<1>10. ListenHolds' BY <1>1, <1>2, <1>3 DEF ListenHolds, Over
<1>11. ServeHolds' BY <1>1, <1>2 DEF ServeHolds, Over
<1> QED BY <1>4, <1>5, <1>6, <1>7, <1>8, <1>9, <1>10, <1>11 DEF Inv

-----------------------------------------------------------------------------
(* The invariant holds at boot, ... *)
LEMMA Boots ==
    ASSUME Init
    PROVE  Inv
<1>1. /\ master = MasterAtBoot /\ device = DeviceAtBoot
      /\ mcpu = "idle" /\ index = 0 /\ timer = 0
      /\ sent = kReleasedByte /\ waits = FALSE
      /\ ecpu = "listen" /\ reply = NoReply /\ delay = 0
      /\ ack_delay_us \in AckDelays
      /\ loaded = kReleasedByte /\ late = FALSE
      /\ lag = [cpu \in {"master", "emulator"} |-> 0]
  BY DEF Init
<1>2. ~UnderWay BY <1>1 DEF UnderWay
<1>3. <<>> \in Seq(Bit) /\ <<>> \in Seq(Seq(Bit)) /\ <<>> \in Seq(Bits) /\ Len(<<>>) = 0 OBVIOUS
<1>4. PICK w : w = word_for(kReleasedByte, FALSE) OBVIOUS
<1>5. w \in Seq(Bit) /\ w[1] = 0 BY <1>4, ADeviceWord, ReleasedIsByte
<1>6. <<w>> \in Seq(Seq(Bit)) /\ <<w>> # <<>> /\ Head(<<w>>) = w BY <1>5
<1>7. /\ 0 \in 0 .. 2 * kCyclesPerUs - 1 /\ 0 \in 0 .. kWireBitsPerByte - 1
      /\ 0 \in Bit /\ 1 \in Bit
  BY Numbers DEF Bit
<1>8. master \in MasterSm
  BY <1>1, <1>3, <1>7 DEF MasterSm, MasterAtBoot
<1>9. device = [pc |-> "pull", wait |-> 0, x |-> 0, y |-> 0, osr |-> <<>>, isr |-> <<>>,
                tx |-> <<w>>, rx |-> <<>>, pull_data |-> 0, pull_ack |-> 0]
  BY <1>1, <1>4 DEF DeviceAtBoot
<1>10. device \in DeviceSm
  BY <1>3, <1>6, <1>7, <1>9 DEF DeviceSm, kAckPulseCycles
<1>11. /\ device.pc = "pull" /\ device.wait = 0 /\ device.isr = <<>> /\ device.rx = <<>>
       /\ device.tx = <<w>> /\ device.pull_data = 0 /\ device.pull_ack = 0
  BY <1>9
<1>12. /\ master.pc = "pull" /\ master.wait = 0 /\ master.isr = <<>> /\ master.rx = <<>>
       /\ master.tx = <<>> /\ master.clk = 1
  BY <1>1 DEF MasterAtBoot
<1>13. ~Pending /\ ~Partial /\ ~IsIdle(device)
  BY <1>5, <1>6, <1>11 DEF Pending, Partial, Prelude, IsIdle
<1>14. Typed
  <2>1. kReleasedByte \in Bits BY ReleasedIsByte
  <2>2. reply \in [next : Bits, should_ack : BOOLEAN] BY <1>1, <2>1 DEF NoReply
  <2>3. lag \in [{"master", "emulator"} -> 0 .. kLagCycles]
    BY <1>1, TimesAssumption, Numbers
  <2>4. 0 \in 0 .. FrameLen - 1 BY FrameLenAssumption
  <2> QED BY <1>1, <1>8, <1>10, <2>1, <2>2, <2>3, <2>4 DEF Typed
<1>15. MasterHolds BY <1>2, <1>12, Numbers DEF MasterHolds, MasterAt, MasterFifos
<1>16. DeviceHolds
  <2>1. \E a \in BOOLEAN : device.tx = <<word_for(kReleasedByte, a)>> BY <1>4, <1>11
  <2>2. Len(device.rx) <= 1 BY <1>3, <1>11
  <2>3. DeviceAt(device, kReleasedByte)
    BY <1>11, <2>1, <2>2 DEF DeviceAt, Prelude, Pulse
  <2> QED BY <1>1, <2>3 DEF DeviceHolds
<1>17. CoupledIdle BY <1>1, <1>11 DEF CoupledIdle, Prelude
<1>18. CoupledStart /\ CoupledClock /\ CoupledEnd /\ Content /\ TimerHolds /\ LateHolds
  BY <1>1, <1>2 DEF CoupledStart, Starting, CoupledClock, Clocking, CoupledEnd, Over, Content,
     TimerHolds, LateHolds
<1>19. CpuHolds BY <1>1, <1>2 DEF CpuHolds
<1>20. ListenHolds BY <1>1, <1>2, <1>11, <1>13 DEF ListenHolds, Over
<1>21. ServeHolds BY <1>1, <1>2 DEF ServeHolds, Over
<1> QED BY <1>14, <1>15, <1>16, <1>17, <1>18, <1>19, <1>20, <1>21 DEF Inv

(* ... a step of nobody keeps it, ... *)
LEMMA StutterKeeps ==
    ASSUME Inv, UNCHANGED vars
    PROVE  Inv'
<1>1. /\ master' = master /\ device' = device /\ mcpu' = mcpu /\ index' = index /\ sent' = sent
      /\ waits' = waits /\ timer' = timer /\ ecpu' = ecpu /\ reply' = reply /\ delay' = delay
      /\ ack_delay_us' = ack_delay_us /\ loaded' = loaded /\ late' = late /\ lag' = lag
  BY DEF vars, mcpuVars, ecpuVars
<1>2. UnderWay' <=> UnderWay BY <1>1 DEF UnderWay
<1>3. /\ Sampled' = Sampled /\ Flag' = Flag /\ Risen' = Risen /\ Fallen' = Fallen
      /\ ToPoll' = ToPoll /\ (BeforePush' <=> BeforePush) /\ (Starting' <=> Starting)
      /\ Word' = Word /\ (IsLast' <=> IsLast)
  <2>1. /\ Sampled' = Sampled /\ Flag' = Flag /\ Risen' = Risen /\ Fallen' = Fallen
        /\ ToPoll' = ToPoll /\ (BeforePush' <=> BeforePush)
    BY <1>1, SameMaster
  <2> QED BY <1>1, <1>2, <2>1 DEF Starting, Word, IsLast
<1>4. /\ Heard' = Heard /\ (Pending' <=> Pending) /\ (IsReady' <=> IsReady)
      /\ (BeforeByte' <=> BeforeByte) /\ (Partial' <=> Partial)
      /\ (IsIdle(device)' <=> IsIdle(device)) /\ (IsShifting(device)' <=> IsShifting(device))
  BY <1>1, SameDevice
<1>5. (IsOver' <=> IsOver) /\ (Over' <=> Over) /\ (Clocking' <=> Clocking)
  BY <1>1, <1>2, <1>3, <1>4 DEF IsOver, Over, Clocking
<1>6. Typed' BY <1>1 DEF Inv, Typed
<1>7. MasterHolds' BY <1>1, <1>2, <1>3 DEF Inv, MasterHolds, MasterFifos
<1>8. DeviceHolds' BY <1>1 DEF Inv, DeviceHolds
<1>9. CoupledIdle' BY <1>1, <1>2, <1>4 DEF Inv, CoupledIdle
<1>10. CoupledStart' BY <1>1, <1>3, <1>4 DEF Inv, CoupledStart, InTime
<1>11. CoupledClock'
  BY <1>1, <1>3, <1>4, <1>5 DEF Inv, CoupledClock, CoupledLow, CoupledHigh, CoupledNext,
     AsMany, OneLess, Behind
<1>12. CoupledEnd' BY <1>1, <1>3, <1>4, <1>5 DEF Inv, CoupledEnd
<1>13. Content' BY <1>1, <1>3, <1>4, <1>5 DEF Inv, Content
<1>14. TimerHolds' BY <1>1, <1>3, <1>5 DEF Inv, TimerHolds
<1>15. CpuHolds' BY <1>1, <1>2, <1>3 DEF Inv, CpuHolds
<1>16. LateHolds' BY <1>1, <1>2, <1>5 DEF Inv, LateHolds
<1>17. ListenHolds' BY <1>1, <1>2, <1>4, <1>5 DEF Inv, ListenHolds
<1>18. ServeHolds' BY <1>1, <1>2, <1>3, <1>4, <1>5 DEF Inv, ServeHolds, HasHeard
<1> QED BY <1>6, <1>7, <1>8, <1>9, <1>10, <1>11, <1>12, <1>13, <1>14, <1>15, <1>16, <1>17, <1>18 DEF Inv

(* ... and so does every other. *)
LEMMA StepKeeps ==
    ASSUME Inv, [Next]_vars
    PROVE  Inv'
BY StartFrameKeeps, PutByteKeeps, GetByteKeeps, TimeOutKeeps, RecoverKeeps,
   PrintLineKeeps, PrintedKeeps, SelectSeenKeeps, TakeByteKeeps, AnswerByteKeeps, DeselectedKeeps,
   InvTicks, StutterKeeps
   DEF Next, MasterCpu, EmulatorCpu

(* However late the two CPUs are, and whatever their clocks' phases, the two *)
(* programs and the two loops stay coupled, byte after byte and frame after *)
(* frame (Inv): so many bits of a byte sampled by the one are so many heard *)
(* by the other, the device follows every edge within the half bit, no ACK  *)
(* falls between two looks of the master, and none is left over for the     *)
(* next byte.                                                               *)
THEOREM BitsStayCoupled == Spec => []Inv
<1>1. Init => Inv BY Boots
<1>2. Inv /\ [Next]_vars => Inv' BY StepKeeps
<1> QED BY <1>1, <1>2, PTL DEF Spec

-----------------------------------------------------------------------------
(* An ACK is on its way, being given, or seen. *)
LEMMA AckedMeans ==
    ASSUME DeviceHolds
    PROVE  IsAcked <=> \/ master.pc = "push" \/ has_byte(master)
                       \/ Pending \/ device.pc = "ack_high"
BY DEF DeviceHolds, DeviceAt, IsAcked, Pending, Pulse

(* What a word and a byte are not. *)
LEMMA NotNothing ==
    ASSUME NEW byte \in Bits
    PROVE  byte # <<>>
BY AByte, Numbers

(* A deaf device waits for an edge that does not come. *)
LEMMA DeafMeans ==
    ASSUME Inv
    PROVE  IsDeaf <=> Partial /\ device.pc = "wait_low" /\ WirePc # "clock"
BY NowOver DEF IsDeaf, WirePc

(* The two programs boot as the wire does. *)
LEMMA WireBoots ==
    ASSUME Init
    PROVE  Wire!Init
<1>1. Inv BY Boots
<1>2. ~UnderWay /\ sent = kReleasedByte /\ waits = FALSE /\ loaded = kReleasedByte
  BY DEF Init, UnderWay
<1>3. device.pc = "pull" /\ device.tx # <<>> /\ device.rx = <<>>
  <2>1. device = DeviceAtBoot BY DEF Init
  <2>2. PICK w : w = word_for(kReleasedByte, FALSE) OBVIOUS
  <2>3. <<w>> # <<>> OBVIOUS
  <2> QED BY <2>1, <2>2, <2>3 DEF DeviceAtBoot
<1>4. ~IsIdle(device) /\ ~IsDeaf BY <1>3 DEF IsIdle, IsDeaf, IsShifting
<1> QED BY <1>2, <1>3, <1>4 DEF Wire!Init, WirePc, WireIn, WireAck, WireTx, WireLate

(* What of the two programs the bytes depend on. *)
LEMMA SameWire ==
    ASSUME master' = master, device' = device, UnderWay' <=> UnderWay,
           sent' = sent, waits' = waits, loaded' = loaded, late' = late
    PROVE  UNCHANGED Wire!vars
<1>1. IsOver' <=> IsOver BY DEF IsOver, HasAllBits, has_byte, IsShifting
<1>2. IsAcked' <=> IsAcked BY DEF IsAcked, has_byte
<1>3. IsDeaf' <=> IsDeaf BY <1>1 DEF IsDeaf, IsShifting
<1>4. WirePc' = WirePc BY <1>1 DEF WirePc
<1>5. WireIn' = WireIn BY <1>4 DEF WireIn, has_byte
<1>6. WireAck' = WireAck BY <1>2, <1>4 DEF WireAck
<1>7. WireTx' = WireTx BY <1>3 DEF WireTx, IsIdle
<1>8. WireLate' = WireLate BY <1>4 DEF WireLate
<1> QED BY <1>4, <1>5, <1>6, <1>7, <1>8 DEF Wire!vars

(* ATT is no part of a byte. *)
LEMMA StartFrameIs ==
    ASSUME Inv, StartFrame
    PROVE  UNCHANGED Wire!vars
<1>1. /\ master' = master /\ device' = device /\ sent' = sent /\ waits' = waits
      /\ loaded' = loaded /\ late' = late /\ mcpu = "idle" /\ mcpu' = "wait"
  BY DEF StartFrame, ecpuVars
<1>2. UnderWay' <=> UnderWay BY <1>1 DEF UnderWay
<1> QED BY <1>1, <1>2, SameWire

(* Nor is giving up, until the recovery. *)
LEMMA TimeOutIs ==
    ASSUME Inv, TimeOut
    PROVE  UNCHANGED Wire!vars
<1>1. /\ master' = master /\ device' = device /\ sent' = sent /\ waits' = waits
      /\ loaded' = loaded /\ late' = late /\ mcpu = "poll" /\ mcpu' = "recover"
  BY DEF TimeOut, ecpuVars
<1>2. UnderWay' <=> UnderWay BY <1>1 DEF UnderWay
<1> QED BY <1>1, <1>2, SameWire

(* Nor is the emulator's loop. *)
LEMMA LoopIs ==
    ASSUME Inv, PrintLine \/ SelectSeen \/ (Printed /\ ~has_byte(device)) \/ UNCHANGED vars
    PROVE  UNCHANGED Wire!vars
<1>1. /\ master' = master /\ device' = device /\ sent' = sent /\ waits' = waits
      /\ loaded' = loaded /\ late' = late /\ mcpu' = mcpu
  BY DEF PrintLine, SelectSeen, Printed, mcpuVars, ecpuVars, vars
<1>2. UnderWay' <=> UnderWay BY <1>1 DEF UnderWay
<1> QED BY <1>1, <1>2, SameWire

(* Handing a byte over begins it. *)
LEMMA PutByteIs ==
    ASSUME Inv, PutByte
    PROVE  Wire!Begin
<1>1. /\ mcpu = "wait" /\ mcpu' = "poll" /\ late' = FALSE
      /\ sent' \in Bytes /\ waits' = ~IsLast
      /\ master' = put(master, sent' \o <<IF waits' THEN 1 ELSE 0>>)
      /\ device' = device /\ loaded' = loaded
  BY DEF PutByte
<1>2. ~UnderWay /\ UnderWay' BY <1>1 DEF UnderWay
<1>3. /\ master \in MasterSm /\ master.pc = "pull" /\ master.tx = <<>> /\ master.isr = <<>>
  BY <1>2 DEF Inv, Typed, MasterHolds, MasterFifos, MasterAt
<1>4. PICK w : w = sent' \o <<IF waits' THEN 1 ELSE 0>> OBVIOUS
<1>5. master'.pc = "pull" /\ master'.tx # <<>> /\ master'.isr = <<>>
  <2>1. Len(master.tx) = 0 /\ Append(master.tx, w) = <<w>> /\ <<w>> # <<>> BY <1>3
  <2>2. put(master, w) = [master EXCEPT !.tx = Append(master.tx, w)]
    BY <2>1 DEF put, kFifoDepth
  <2>3. master' = [master EXCEPT !.tx = <<w>>] BY <1>1, <1>4, <2>1, <2>2
  <2> QED BY <1>3, <2>1, <2>3 DEF MasterSm
<1>6. Inv' BY PutByteKeeps
<1>7. ~IsOver'
  <2>1. (UnderWay => (IsOver <=>
             /\ Sampled = kWireBitsPerByte \/ (master.pc = "pull" /\ master.tx = <<>>)
             /\ Partial => device.pc = "wait_low"))'
    BY <1>6, NowOver, PTL
  <2>2. Sampled' = 0 BY <1>5 DEF Sampled
  <2> QED BY <1>2, <1>5, <2>1, <2>2, Numbers
<1>8. WirePc = "idle" /\ WirePc' = "clock" BY <1>2, <1>7 DEF WirePc
<1>9. sent' \in Bits /\ waits' \in BOOLEAN BY <1>1, BytesAssumption DEF IsLast
<1>10. WireIn' = WireIn /\ WireAck' = WireAck BY <1>8 DEF WireIn, WireAck
<1>11. WireTx' = WireTx
  <2>1. ~IsDeaf
    <3>1. BeforeByte BY <1>1 DEF Inv, CoupledIdle
    <3>2. device.pc = "wait_low" => ~Partial BY <3>1 DEF BeforeByte, Prelude, Partial
    <3> QED BY <3>2, DeafMeans
  <2>2. ~IsDeaf' BY <1>2, <1>7 DEF IsDeaf
  <2> QED BY <1>1, <2>1, <2>2 DEF WireTx, IsIdle
<1>12. WireLate' = WireLate BY <1>1, <1>8 DEF WireLate
<1> QED BY <1>1, <1>8, <1>9, <1>10, <1>11, <1>12 DEF Wire!Begin

(* The end of a byte that is over, taken or given up. *)
LEMMA EndIs ==
    ASSUME Inv, IsOver, UnderWay, ~UnderWay',
           device' = device, loaded' = loaded, late' = late
    PROVE  /\ WirePc = "over" /\ WirePc' = "idle" /\ WireAck' = FALSE /\ WireIn' = kReleasedByte
           /\ WireTx' = WireTx /\ WireLate' = WireLate
<1>1. WirePc = "over" /\ WirePc' = "idle" BY DEF WirePc
<1>2. IsDeaf' <=> IsDeaf BY DEF IsDeaf, IsShifting
<1> QED BY <1>1, <1>2 DEF WireAck, WireIn, WireTx, WireLate, IsIdle

(* Taking it completes it: if it waits, it has been acknowledged. *)
LEMMA GetByteIs ==
    ASSUME Inv, GetByte
    PROVE  Wire!Complete
<1>1. /\ has_byte(master) /\ device' = device /\ sent' = sent /\ waits' = waits
      /\ loaded' = loaded /\ late' = late /\ mcpu' \in {"idle", "wait"}
  BY DEF GetByte, ecpuVars
<1>2. ~UnderWay' BY <1>1 DEF UnderWay
<1>3. UnderWay /\ IsOver BY <1>1, GetsOver DEF Over
<1>4. /\ WirePc = "over" /\ WirePc' = "idle" /\ WireAck' = FALSE /\ WireIn' = kReleasedByte
      /\ WireTx' = WireTx /\ WireLate' = WireLate
  BY <1>1, <1>2, <1>3, EndIs
<1>5. waits => WireAck BY <1>1, <1>4 DEF WireAck, IsAcked
<1> QED BY <1>1, <1>4, <1>5 DEF Wire!Complete

(* The recovery gives it up. *)
LEMMA RecoverIs ==
    ASSUME Inv, Recover
    PROVE  Wire!GiveUp
<1>1. /\ mcpu = "recover" /\ mcpu' = "idle" /\ device' = device /\ sent' = sent
      /\ waits' = waits /\ loaded' = loaded /\ late' = late
  BY DEF Recover, ecpuVars
<1>2. UnderWay /\ ~UnderWay' BY <1>1 DEF UnderWay
<1>3. IsOver /\ waits BY <1>1 DEF Inv, TimerHolds, Over
<1>4. /\ WirePc = "over" /\ WirePc' = "idle" /\ WireAck' = FALSE /\ WireIn' = kReleasedByte
      /\ WireTx' = WireTx /\ WireLate' = WireLate
  BY <1>1, <1>2, <1>3, EndIs
<1> QED BY <1>1, <1>3, <1>4 DEF Wire!GiveUp

(* The emulator takes what was heard. *)
LEMMA TakeByteIs ==
    ASSUME Inv, TakeByte
    PROVE  Wire!Take
<1>1. /\ has_byte(device) /\ device' = dropped_byte(device)
      /\ master' = master /\ mcpu' = mcpu /\ sent' = sent /\ waits' = waits
      /\ loaded' = loaded /\ late' = late
  BY DEF TakeByte, mcpuVars
<1>2. UnderWay' <=> UnderWay BY <1>1 DEF UnderWay
<1>3. /\ device'.pc = device.pc /\ device'.wait = device.wait /\ device'.x = device.x
      /\ device'.y = device.y /\ device'.osr = device.osr /\ device'.isr = device.isr
      /\ device'.tx = device.tx /\ device'.rx = Tail(device.rx)
  BY <1>1 DEF dropped_byte, Inv, Typed, DeviceSm
<1>4. /\ (IsIdle(device)' <=> IsIdle(device)) /\ (IsShifting(device)' <=> IsShifting(device))
  BY <1>3, SameDevice
<1>5. IsOver' <=> IsOver BY <1>1, <1>3, <1>4 DEF IsOver
<1>6. IsAcked' <=> IsAcked BY <1>1, <1>3 DEF IsAcked
<1>7. IsDeaf' <=> IsDeaf BY <1>2, <1>3, <1>4, <1>5 DEF IsDeaf
<1>8. WirePc' = WirePc BY <1>2, <1>5 DEF WirePc
<1>9. WireIn' = WireIn BY <1>1, <1>8 DEF WireIn
<1>10. WireAck' = WireAck BY <1>1, <1>6, <1>8 DEF WireAck
<1>11. WireTx' = WireTx BY <1>1, <1>4, <1>7 DEF WireTx
<1>12. WireLate' = WireLate BY <1>1, <1>8 DEF WireLate
<1> QED BY <1>1, <1>3, <1>8, <1>9, <1>10, <1>11, <1>12 DEF Wire!Take, has_byte

(* It answers, and its ACK counts if the byte waits for one. *)
LEMMA AnswerByteIs ==
    ASSUME Inv, AnswerByte
    PROVE  Wire!Answer
<1>1. /\ ecpu = "answer" /\ device' = device_answer(device, reply.next, reply.should_ack)
      /\ loaded' = reply.next /\ master' = master /\ mcpu' = mcpu /\ sent' = sent
      /\ waits' = waits /\ late' = late
  BY DEF AnswerByte, mcpuVars
<1>2. UnderWay' <=> UnderWay BY <1>1 DEF UnderWay
<1>3. IsIdle(device) /\ device.rx = <<>> BY <1>1 DEF Inv, ServeHolds
<1>4. reply.next \in Bits /\ reply.should_ack \in BOOLEAN BY DEF Inv, Typed
<1>5. /\ device'.pc = "pull" /\ device'.rx = <<>>
      /\ ~IsIdle(device)' /\ ~IsShifting(device)'
  BY <1>1, <1>3, <1>4, AnswerIs DEF Inv, Typed, DeviceHolds
<1>6. ~IsShifting(device) BY <1>3 DEF IsIdle, IsShifting
<1>7. IsOver' <=> IsOver BY <1>1, <1>5, <1>6 DEF IsOver
<1>8. UnderWay => IsOver
  <2>1. mcpu # "idle" => Over BY <1>1 DEF Inv, ServeHolds, HasHeard
  <2> QED BY <2>1 DEF Over, UnderWay
<1>9. WirePc' = WirePc /\ WirePc # "clock" BY <1>2, <1>7, <1>8 DEF WirePc
<1>10. WireTx = <<>> BY <1>3 DEF WireTx
<1>11. WireTx' = loaded' BY <1>5 DEF WireTx, IsDeaf
<1>12. WireIn' = WireIn BY <1>1, <1>9 DEF WireIn
<1>13. WireAck' \in {FALSE, WirePc = "over" /\ waits} BY <1>1, <1>9 DEF WireAck
<1>14. WireLate' = WireLate BY <1>1, <1>9 DEF WireLate
<1> QED BY <1>1, <1>3, <1>4, <1>5, <1>9, <1>10, <1>11, <1>12, <1>13, <1>14 DEF Wire!Answer

(* A restart outside a byte that the device hears. *)
LEMMA RestartsAre ==
    ASSUME Inv, Restarted, master' = master, mcpu' = mcpu, sent' = sent, waits' = waits,
           ~UnderWay \/ IsIdle(device)
    PROVE  Wire!Restart
<1>1. /\ device' = device_restart(device) /\ loaded' = kReleasedByte /\ late' = (mcpu # "idle")
  BY DEF Restarted, att_is_high
<1>2. UnderWay' <=> UnderWay BY DEF UnderWay
<1>3. /\ device'.pc = "pull" /\ device'.rx = <<>>
      /\ ~Pending' /\ ~IsIdle(device)' /\ ~IsShifting(device)' /\ DeviceAt(device', kReleasedByte)
  BY <1>1, RestartIs DEF Inv, Typed
<1>4. IsIdle(device) => ~IsShifting(device) /\ ~Pending /\ device.pc = "pull"
  BY DEF IsIdle, IsShifting, Pending
<1>5. UnderWay => (IsOver' <=> IsOver) BY <1>3, <1>4 DEF IsOver
<1>6. WirePc' = WirePc BY <1>2, <1>5 DEF WirePc
<1>7. WirePc # "clock" \/ WireTx = <<>> BY DEF WirePc, WireTx
<1>8. WireTx' = kReleasedByte BY <1>1, <1>3 DEF WireTx, IsDeaf
<1>9. WireIn' = WireIn BY <1>6 DEF WireIn
<1>10. WireAck' = WireAck
  <2>1. DeviceHolds BY DEF Inv
  <2>2. DeviceHolds' BY <1>1, <1>3 DEF DeviceHolds
  <2>3. IsAcked' <=> master'.pc = "push" \/ has_byte(master')
    <3>1. (IsAcked <=> \/ master.pc = "push" \/ has_byte(master)
                       \/ Pending \/ device.pc = "ack_high")'
      BY <2>2, AckedMeans, PTL
    <3> QED BY <3>1, <1>3
  <2>4. UnderWay => (IsAcked <=> master.pc = "push" \/ has_byte(master))
    BY <2>1, <1>4, AckedMeans
  <2> QED BY <1>6, <2>3, <2>4 DEF WireAck, WirePc
<1>11. WireLate' = (WirePc = "clock") BY <1>1, <1>2, <1>6 DEF WireLate, WirePc, UnderWay
<1> QED BY <1>3, <1>6, <1>7, <1>8, <1>9, <1>10, <1>11 DEF Wire!Restart

(* A byte clocked while it printed is dropped by a restart ... *)
LEMMA PrintedIs ==
    ASSUME Inv, Printed, has_byte(device)
    PROVE  Wire!Restart
<1>1. /\ Restarted /\ master' = master /\ mcpu' = mcpu /\ sent' = sent /\ waits' = waits
  BY DEF Printed, mcpuVars
<1>2. IsIdle(device) BY DEF Inv, DeviceHolds, DeviceAt, has_byte, IsIdle
<1> QED BY <1>1, <1>2, RestartsAre

(* ... and so is what a frame left when ATT rises. *)
LEMMA DeselectedIs ==
    ASSUME Inv, Deselected
    PROVE  Wire!Restart
<1>1. /\ Restarted /\ master' = master /\ mcpu' = mcpu /\ sent' = sent /\ waits' = waits
      /\ mcpu = "idle"
  BY DEF Deselected, mcpuVars, att_is_high
<1>2. ~UnderWay BY <1>1 DEF UnderWay
<1> QED BY <1>1, <1>2, RestartsAre

(* A device that hears no edge stays idle, deaf, or neither. *)
LEMMA QuietTicks ==
    ASSUME Inv, Tick, device.pc \in Prelude \cup Pulse \cup {"wait_low"}, master.pc # "in"
    PROVE  /\ device'.rx = device.rx
           /\ IsIdle(device)' <=> IsIdle(device)
           /\ (Partial /\ device.pc = "wait_low")' <=> (Partial /\ device.pc = "wait_low")
           /\ device'.pc # "push"
<1>1. /\ DeviceMoves /\ DeviceGoes(device, device', master.clk, master.cmd) BY DeviceTicks
<1>2. device.pc \in {"pull", "out_x", "jmp_x", "set_y", "ack_low", "ack_high", "wait_low"}
  BY DEF Prelude, Pulse
<1>3. device'.rx = device.rx BY <1>1, <1>2 DEF DeviceMoves
<1>4. IsIdle(device)' <=> IsIdle(device) BY <1>1, <1>2 DEF DeviceMoves, IsIdle
<1>5. device'.pc = "wait_low" <=> device.pc \in {"wait_low", "set_y"}
  BY <1>1, <1>2 DEF DeviceMoves
<1>6. Heard' = Heard BY <1>1, <1>2 DEF DeviceMoves
<1>7. device.pc = "set_y" => Heard = 0 BY Phases DEF Prelude
<1>8. device.pc = "wait_low" => (Partial <=> Heard # 0) BY DEF Partial, IsReady, Prelude, Pulse
<1>9. device'.pc = "wait_low" => (Partial' <=> Heard' # 0) BY DEF Partial, IsReady, Prelude, Pulse
<1>10. device'.pc # "push" BY <1>1, <1>2 DEF DeviceMoves
<1> QED BY <1>3, <1>4, <1>5, <1>6, <1>7, <1>8, <1>9, <1>10

(* DeafMeans after a tick. *)
LEMMA DeafNext ==
    ASSUME Inv, Tick
    PROVE  IsDeaf' <=> (Partial /\ device.pc = "wait_low" /\ WirePc # "clock")'
<1>1. Inv' BY InvTicks
<1> QED BY <1>1, DeafMeans, PTL

(* AckedMeans after a tick. *)
LEMMA AckedNext ==
    ASSUME Inv, Tick
    PROVE  IsAcked' <=> \/ master'.pc = "push" \/ has_byte(master')
                        \/ Pending' \/ device'.pc = "ack_high"
<1>1. DeviceHolds' BY DeviceTicks
<1>2. (IsAcked <=> \/ master.pc = "push" \/ has_byte(master)
                   \/ Pending \/ device.pc = "ack_high")'
  BY <1>1, AckedMeans, PTL
<1> QED BY <1>2

(* Between bytes a tick changes nothing of the wire. *)
LEMMA TickBetween ==
    ASSUME Inv, Tick, ~UnderWay
    PROVE  UNCHANGED Wire!vars
<1>1. /\ sent' = sent /\ waits' = waits /\ loaded' = loaded /\ late' = late /\ UnderWay' = UnderWay
  BY TheRest
<1>2. WirePc = "idle" /\ WirePc' = "idle" BY <1>1 DEF WirePc
<1>3. master.pc = "pull" BY Phases
<1>4. device.pc \in Prelude \cup Pulse \cup {"wait_low"} BY DEF Inv, CoupledIdle
<1>5. /\ device'.rx = device.rx /\ (IsIdle(device)' <=> IsIdle(device))
      /\ ((Partial /\ device.pc = "wait_low")' <=> (Partial /\ device.pc = "wait_low"))
  BY <1>3, <1>4, QuietTicks
<1>6. IsDeaf' <=> IsDeaf BY <1>2, <1>5, DeafMeans, DeafNext
<1>7. WireTx' = WireTx BY <1>1, <1>5, <1>6 DEF WireTx
<1> QED BY <1>1, <1>2, <1>5, <1>7 DEF Wire!vars, WireIn, WireAck, WireLate

(* What the master got stays, and so does an ACK. *)
LEMMA GotStays ==
    ASSUME Inv, Tick, Over
    PROVE  WireIn' = WireIn
<1>1. Over' /\ WirePc = "over" /\ WirePc' = "over" BY StaysOver, TheRest DEF WirePc, Over
<1>2. MasterGoes(master, master', data, ack, Flag) BY MasterTicks
<1>3. master.pc # "in" /\ (master.pc = "pull" => has_byte(master))
  <2>1. master.pc # "in" BY NowOver, Phases, Numbers DEF Over
  <2>2. ASSUME master.pc = "pull" PROVE has_byte(master)
    <3>1. master.tx = <<>> BY <2>2, NowOver, Phases, Numbers DEF Over
    <3>2. Len(master.rx) = 1
      <4>1. <<Word>> # <<>> OBVIOUS
      <4> QED BY <2>2, <3>1, <4>1 DEF Inv, MasterHolds, MasterFifos, Over
    <3> QED BY <3>2 DEF has_byte
  <2> QED BY <2>1, <2>2
<1>4. CASE master.pc = "pull"
  <2>1. master'.rx = master.rx BY <1>2, <1>4 DEF MasterGoes
  <2> QED BY <1>1, <1>3, <1>4, <2>1 DEF WireIn, has_byte
<1>5. CASE master.pc # "pull" /\ ~(master.pc = "push" /\ master.wait = 0)
  <2>1. master'.rx = master.rx /\ master'.isr = master.isr
    BY <1>2, <1>3, <1>5 DEF MasterGoes
  <2> QED BY <1>1, <2>1 DEF WireIn, has_byte
<1>6. CASE master.pc = "push" /\ master.wait = 0
  <2>1. master'.rx = <<master.isr>> BY <1>2, <1>6 DEF MasterGoes
  <2>2. master.rx = <<>> BY <1>6 DEF Inv, MasterHolds, MasterAt
  <2>3. <<master.isr>> # <<>> /\ Head(<<master.isr>>) = master.isr OBVIOUS
  <2> QED BY <1>1, <2>1, <2>2, <2>3 DEF WireIn, has_byte
<1> QED BY <1>4, <1>5, <1>6

(* An ACK owed or given is not lost: the master sees it before it ends. *)
LEMMA AckStays ==
    ASSUME Inv, Tick, Over, waits
    PROVE  IsAcked' <=> IsAcked
<1>1. IsAcked <=> \/ master.pc = "push" \/ has_byte(master) \/ Pending \/ device.pc = "ack_high"
  BY AckedMeans DEF Inv
<1>2. /\ master.wait \in Nat /\ device.wait \in Nat /\ ToPoll \in Nat
      /\ (master.pc = "wait_ack" => ToPoll = master.wait)
      /\ (master.pc \in {"jmp_x", "out_y", "jmp_y"} => ToPoll >= 1)
  BY Scalars, Numbers DEF Inv, ToPoll
<1>3. MasterMoves /\ DeviceMoves /\ DeviceGoes(device, device', master.clk, master.cmd)
  BY MasterTicks, DeviceTicks
<1>4. Over' BY StaysOver
<1>5. CASE ~BeforePush
  <2>1. master.pc = "push" \/ (master.pc = "pull" /\ has_byte(master))
    <3>1. master.pc \in {"pull", "push"}
      <4>1. master.pc \notin {"set_x", "out", "in"} BY NowOver, Phases, Numbers DEF Over
      <4> QED BY <4>1, <1>5, Scalars DEF BeforePush, Inv
    <3>2. ASSUME master.pc = "pull" PROVE has_byte(master)
      <4>1. master.tx = <<>> BY <3>2, NowOver, Phases, Numbers DEF Over
      <4>2. <<Word>> # <<>> OBVIOUS
      <4>3. Len(master.rx) = 1
        BY <3>2, <4>1, <4>2 DEF Inv, MasterHolds, MasterFifos, Over
      <4> QED BY <4>3 DEF has_byte
    <3> QED BY <3>1, <3>2
  <2>2. master'.pc = "push" \/ has_byte(master')
    <3>1. <<master.isr>> # <<>> OBVIOUS
    <3> QED BY <1>3, <2>1, <3>1 DEF MasterMoves, has_byte
  <2> QED BY <1>1, <2>1, <2>2, AckedNext
<1>6. CASE BeforePush
  <2>1. master.pc # "push" /\ ~has_byte(master)
    BY <1>6 DEF BeforePush, Inv, MasterHolds, MasterAt, has_byte
  <2>2. ~has_byte(master')
    BY <1>3, <1>6, <2>1 DEF MasterMoves, BeforePush, has_byte
  <2>3. IsAcked <=> Pending \/ device.pc = "ack_high" BY <1>1, <2>1
  <2>4. IsAcked' <=> master'.pc = "push" \/ Pending' \/ device'.pc = "ack_high"
    BY <2>2, AckedNext
  <2>5. ASSUME Pending PROVE Pending' \/ device'.pc = "ack_high"
    BY <2>5, <1>3, PendingTicks DEF DeviceMoves
  <2>6. ASSUME device.pc = "ack_high"
        PROVE  master'.pc = "push" \/ device'.pc = "ack_high"
    <3>1. device.wait >= ToPoll
      <4>1. master.pc \notin {"push", "pull"} BY <1>6 DEF BeforePush
      <4> QED BY <2>6, <4>1 DEF Inv, CoupledEnd
    <3>2. CASE device.wait = 0
      <4>1. ToPoll = 0 BY <1>2, <3>1, <3>2
      <4>2. master.pc = "wait_ack" /\ master.wait = 0 BY <1>2, <1>6, <4>1 DEF BeforePush
      <4> QED BY <1>3, <2>6, <4>2 DEF MasterMoves
    <3>3. CASE device.wait # 0
      BY <1>3, <3>3 DEF DeviceMoves
    <3> QED BY <3>2, <3>3
  <2>7. master'.pc = "push" => device.pc = "ack_high"
    BY <1>3, <1>6 DEF MasterMoves, BeforePush
  <2>8. Pending' => Pending BY PendingTicks
  <2>9. device'.pc = "ack_high" => device.pc = "ack_high" \/ Pending
    BY <1>3, PendingTicks DEF DeviceMoves
  <2> QED BY <2>3, <2>4, <2>5, <2>6, <2>7, <2>8, <2>9
<1> QED BY <1>5, <1>6

(* After the last bit, neither. *)
LEMMA TickOver ==
    ASSUME Inv, Tick, Over
    PROVE  UNCHANGED Wire!vars
<1>1. /\ sent' = sent /\ waits' = waits /\ loaded' = loaded /\ late' = late /\ UnderWay' = UnderWay
  BY TheRest
<1>2. WirePc = "over" /\ WirePc' = "over" BY <1>1, StaysOver DEF WirePc, Over
<1>3. master.pc # "in" BY NowOver, Phases, Numbers DEF Over
<1>4. device.pc \in Prelude \cup Pulse \cup {"wait_low"} BY DEF Inv, CoupledEnd
<1>5. /\ device'.rx = device.rx /\ (IsIdle(device)' <=> IsIdle(device))
      /\ ((Partial /\ device.pc = "wait_low")' <=> (Partial /\ device.pc = "wait_low"))
  BY <1>3, <1>4, QuietTicks
<1>6. IsDeaf' <=> IsDeaf BY <1>2, <1>5, DeafMeans, DeafNext
<1>7. WireTx' = WireTx BY <1>1, <1>5, <1>6 DEF WireTx
<1>8. WireIn' = WireIn BY GotStays
<1>9. WireAck' = WireAck BY <1>1, <1>2, AckStays DEF WireAck
<1> QED BY <1>1, <1>2, <1>5, <1>7, <1>8, <1>9 DEF Wire!vars, WireLate

(* Nor before it. *)
LEMMA TickClocks ==
    ASSUME Inv, Tick, UnderWay, ~IsOver, ~IsOver'
    PROVE  UNCHANGED Wire!vars
<1>1. /\ sent' = sent /\ waits' = waits /\ loaded' = loaded /\ late' = late /\ UnderWay' = UnderWay
  BY TheRest
<1>2. WirePc = "clock" /\ WirePc' = "clock" BY <1>1 DEF WirePc
<1>3. device.pc # "push"
  BY HeardIsOver DEF Over
<1>4. device'.rx = device.rx BY <1>3, DeviceTicks DEF DeviceMoves
<1>5. IsIdle(device)' <=> IsIdle(device) BY SameIdle
<1>6. ~IsDeaf /\ ~IsDeaf' BY <1>2, DeafMeans, DeafNext
<1>7. WireTx' = WireTx BY <1>1, <1>5, <1>6 DEF WireTx
<1> QED BY <1>1, <1>2, <1>4, <1>7 DEF Wire!vars, WireIn, WireAck, WireLate

(* The last bit: the master has the device's byte ... *)
LEMMA MasterHas ==
    ASSUME Inv, Tick, UnderWay, ~Over, Over'
    PROVE  master'.isr = Answered /\ master'.rx = <<>>
<1>1. ~IsOver /\ Clocking BY WasClocking
<1>2. master'.pc \in {"jmp_x", "out_y"} /\ Sampled' = kWireBitsPerByte BY JustOver
<1>3. master'.rx = <<>> BY <1>2, MasterTicks DEF MasterHolds, MasterAt
<1>4. master.isr = SubSeq(Answered, 1, Sampled) BY <1>1 DEF Inv, Content, Answered
<1>5. master.pc # "push" BY <1>1 DEF Inv, CoupledClock
<1>6. master'.isr = SubSeq(Answered, 1, Sampled') BY <1>1, <1>4, <1>5, SampledBits
<1>7. Answered \in Bits BY ReleasedIsByte DEF Answered, Inv, Typed
<1> QED BY <1>2, <1>3, <1>6, <1>7, AByte

(* ... and the device the master's, unless it was restarted under it. *)
LEMMA DeviceHas ==
    ASSUME Inv, UnderWay, device.pc = "push"
    PROVE  device.isr = sent
<1>1. Clocking /\ Sampled = kWireBitsPerByte /\ Heard = kWireBitsPerByte BY SeesPush
<1>2. Partial BY DEF Partial, Prelude, Pulse, IsReady
<1>3. device.isr = SubSeq(sent, 1, kWireBitsPerByte) BY <1>1, <1>2 DEF Inv, Content
<1>4. sent \in Bits BY DEF Inv, Typed
<1> QED BY <1>3, <1>4, AByte

(* A byte gets over without the device only if it was restarted under it. *)
LEMMA OrLate ==
    ASSUME Inv, Tick, UnderWay, ~Over, Over', ~IsIdle(device), device.pc # "push"
    PROVE  late
<1>1. ~IsOver /\ Clocking BY WasClocking
<1>2. /\ Sampled' = kWireBitsPerByte /\ device'.pc \in Prelude \cup {"wait_low"}
      /\ master'.pc \in {"jmp_x", "out_y"}
  BY JustOver
<1>3. MasterMoves /\ DeviceMoves BY MasterTicks, DeviceTicks
<1>4. Sampled \in Nat /\ Heard \in Nat BY Scalars DEF Inv
<1>5. ASSUME ~late PROVE FALSE
  <2>1. CASE master.pc = "in" /\ CoupledLow
    <3>1. device.pc \in {"wait_low", "out", "wait_high"} BY <1>5, <2>1 DEF CoupledLow
    <3>2. device'.pc \in {"out", "wait_high"} BY <1>3, <2>1, <3>1 DEF DeviceMoves
    <3> QED BY <1>2, <3>2 DEF Prelude
  <2>2. CASE master.pc = "jmp_x" /\ CoupledHigh
    <3>1. Sampled = kWireBitsPerByte BY <1>2, <1>3, <2>2 DEF MasterMoves
    <3>2. device.pc \in {"wait_high", "in", "mov", "release"} \/
          (device.pc \in {"jmp_y", "wait_low"} /\ Heard = kWireBitsPerByte)
      BY <1>5, <2>2, <3>1 DEF CoupledHigh, AsMany
    <3>3. device.pc # "wait_low" BY <3>2, <1>4, Phases, Numbers
    <3>4. device'.pc \in {"wait_high", "in", "jmp_y", "mov", "release", "push"}
      BY <1>3, <1>4, <3>2, <3>3, Numbers DEF DeviceMoves
    <3> QED BY <1>2, <3>4 DEF Prelude
  <2>3. CASE master.pc = "out"
    BY <1>2, <1>3, <2>3 DEF MasterMoves
  <2> QED BY <1>1, <2>1, <2>2, <2>3 DEF Inv, CoupledClock, IsIdle
<1> QED BY <1>5 DEF Inv, Typed

(* The tick that ends the byte exchanges it whole, in both directions. *)
LEMMA TickClock ==
    ASSUME Inv, Tick, UnderWay, ~IsOver, IsOver'
    PROVE  Wire!Clock
<1>1. /\ sent' = sent /\ waits' = waits /\ loaded' = loaded /\ late' = late /\ UnderWay' = UnderWay
  BY TheRest
<1>2. ~Over /\ Over' BY <1>1 DEF Over
<1>3. WirePc = "clock" /\ WirePc' = "over" BY <1>1 DEF WirePc
<1>4. /\ master'.pc \in {"jmp_x", "out_y"} /\ ~Pending'
      /\ device'.pc \in Prelude \cup {"wait_low"}
  BY <1>2, JustOver
<1>5. master'.isr = Answered /\ master'.rx = <<>> BY <1>2, MasterHas
<1>6. WireTx = IF IsIdle(device) THEN <<>> ELSE loaded BY <1>3, DeafMeans DEF WireTx
<1>7. loaded # <<>> BY NotNothing DEF Inv, Typed
<1>8. WireIn' = IF WireTx = <<>> THEN kReleasedByte ELSE WireTx
  BY <1>3, <1>5, <1>6, <1>7 DEF WireIn, has_byte, Answered
<1>9. WireAck' = WireAck
  <2>1. ~IsAcked' BY <1>4, <1>5, AckedNext DEF has_byte, Prelude
  <2> QED BY <1>3, <2>1 DEF WireAck
<1>10. WireLate' = FALSE BY <1>3 DEF WireLate
<1>11. \/ WireTx # <<>> /\ device'.rx = Append(device.rx, sent) /\ WireTx' = <<>>
       \/ WireTx = <<>> /\ UNCHANGED <<device.rx, WireTx>>
       \/ WireLate /\ device'.rx = device.rx /\ WireTx' \in {WireTx, <<>>}
  <2>1. CASE IsIdle(device)
    <3>1. device'.pc = "pull" /\ device'.tx = <<>> /\ device'.rx = device.rx
      BY <2>1, DeviceTicks, Phases DEF IsIdle, DeviceMoves
    <3>2. IsIdle(device)' BY <3>1 DEF IsIdle
    <3>3. WireTx = <<>> /\ WireTx' = <<>> BY <1>6, <2>1, <3>2 DEF WireTx
    <3> QED BY <3>1, <3>3
  <2>2. CASE device.pc = "push"
    <3>1. device'.rx = <<device.isr>> /\ device'.pc = "pull" /\ device'.tx = <<>>
      BY <2>2, DeviceTicks, Phases DEF DeviceMoves
    <3>2. device.isr = sent BY <2>2, DeviceHas
    <3>3. device.rx = <<>> BY <2>2 DEF Inv, DeviceHolds, DeviceAt
    <3>4. Append(device.rx, sent) = <<sent>> BY <3>3
    <3>5. IsIdle(device)' BY <3>1 DEF IsIdle
    <3>6. WireTx # <<>> BY <1>6, <1>7, <2>2 DEF IsIdle
    <3>7. WireTx' = <<>> BY <3>5 DEF WireTx
    <3> QED BY <3>1, <3>2, <3>4, <3>6, <3>7
  <2>3. CASE ~IsIdle(device) /\ device.pc # "push"
    <3>1. late BY <1>2, <2>3, OrLate
    <3>2. device'.rx = device.rx BY <2>3, DeviceTicks DEF DeviceMoves
    <3>3. WireTx' \in {WireTx, <<>>} BY <1>1, <1>6, <2>3 DEF WireTx
    <3> QED BY <1>3, <3>1, <3>2, <3>3 DEF WireLate
  <2> QED BY <2>1, <2>2, <2>3
<1> QED BY <1>1, <1>3, <1>8, <1>9, <1>10, <1>11 DEF Wire!Clock

(* A tick clocks a byte, or nothing of the wire changes. *)
LEMMA TickIs ==
    ASSUME Inv, Tick
    PROVE  Wire!Clock \/ UNCHANGED Wire!vars
BY TickBetween, TickOver, TickClocks, TickClock DEF Over

(* Every step of the two programs and their CPUs is one of the wire. *)
LEMMA StepIs ==
    ASSUME Inv, [Next]_vars
    PROVE  [Wire!Next]_(Wire!vars)
<1>1. CASE MasterCpu
  BY <1>1, StartFrameIs, PutByteIs, GetByteIs, TimeOutIs, RecoverIs DEF MasterCpu, Wire!Next
<1>2. CASE EmulatorCpu
  <2>1. ASSUME Printed PROVE Wire!Restart \/ UNCHANGED Wire!vars
    BY <2>1, LoopIs, PrintedIs
  <2> QED BY <1>2, <2>1, LoopIs, TakeByteIs, AnswerByteIs, DeselectedIs DEF EmulatorCpu, Wire!Next
<1>3. CASE Tick BY <1>3, TickIs DEF Wire!Next
<1>4. CASE UNCHANGED vars BY <1>4, LoopIs
<1> QED BY <1>1, <1>2, <1>3, <1>4 DEF Next

(* The two PIO programs and their CPUs implement ByteWire, which is all that *)
(* HilBus takes for granted about a byte: it goes whole in both directions, *)
(* the one loaded for the one sent, a device without a word hears nothing,  *)
(* a frame goes on only after an ACK that the device gave to this byte, and *)
(* only a byte that waits for one is given up.                              *)
THEOREM ProgramsExchangeBytes == Spec => ExchangesBytes
<1>1. Init => Wire!Init BY WireBoots
<1>2. Inv /\ [Next]_vars => [Wire!Next]_(Wire!vars) BY StepIs
<1>3. Spec => []Inv BY BitsStayCoupled
<1> QED BY <1>1, <1>2, <1>3, PTL DEF Spec, Wire!Spec, ExchangesBytes

-----------------------------------------------------------------------------
(* A device with no word has heard a byte, which is to be answered.         *)
IdleHolds == IsIdle(device) => HasHeard

(* No byte of this frame has been acknowledged. *)
Early ==
    \/ ecpu \in {"listen", "print"}
    \/ ecpu = "serve" /\ mcpu # "idle" /\ index = 0 /\ ~Over

(* The flag of a word of before is about to be overwritten.                 *)
Fresh == (device.pc = "pull" /\ device.tx # <<>>) \/ device.pc = "out_x"

(* The flag of the last ACK is not taken for one of this frame's.           *)
FlagHolds == Early /\ device.x = 1 => Fresh /\ ~Over /\ ~(UnderWay /\ late)

(* How late the answer to a byte may be, since the byte was handed over.    *)
AnswerBy == Took(kWireBitsPerByte) + 2 * kCyclesPerUs + 2 * kLagCycles + ack_delay_us * kCyclesPerUs

(* And the ACK, at each place of its way ... *)
AckOnItsWay ==
    \/ device.pc = "pull"  /\ timer < AnswerBy + kLagCycles
    \/ device.pc = "out_x" /\ timer < AnswerBy + kLagCycles + 1
    \/ device.pc = "jmp_x" /\ timer < AnswerBy + kLagCycles + 2
    \/ device.pc = "ack_low" /\ timer < AnswerBy + kLagCycles + 3
    \/ /\ device.pc = "ack_high"
       /\ timer + device.wait < AnswerBy + kLagCycles + 3 + 2 * kCyclesPerUs

(* ... from the byte to the master. *)
AckInTime ==
    mcpu = "poll" /\ waits /\ Over =>
        /\ ecpu = "serve" /\ device.rx # <<>> =>
             timer < Took(kWireBitsPerByte) + 2 * kCyclesPerUs + kLagCycles + lag["emulator"]
        /\ ecpu = "answer" =>
             timer + delay < AnswerBy + (IF delay = 0 THEN lag["emulator"] ELSE 0)
        /\ ecpu = "serve" /\ BeforePush /\ device.rx = <<>> /\ (Pending \/ device.x = 1) =>
             AckOnItsWay
        /\ master.pc = "push" =>
             timer + master.wait < AnswerBy + kLagCycles + 3 + 3 * kCyclesPerUs

Times == IdleHolds /\ FlagHolds /\ AckInTime

(* What none of these parts sees of a step. *)
LEMMA SameTimes ==
    ASSUME master' = master, device' = device, UnderWay' <=> UnderWay
    PROVE  /\ (Over' <=> Over) /\ (Pending' <=> Pending) /\ (BeforePush' <=> BeforePush)
           /\ (Fresh' <=> Fresh) /\ (IsIdle(device)' <=> IsIdle(device))
BY DEF Over, IsOver, HasAllBits, has_byte, IsShifting, Pending, BeforePush, Fresh, IsIdle

(* The times as numbers. *)
LEMMA AnswerByIs ==
    ASSUME Typed
    PROVE  /\ AnswerBy \in Nat /\ kLagCycles \in Nat /\ Took(kWireBitsPerByte) \in Nat
           /\ ack_delay_us \in Nat /\ ack_delay_us * kCyclesPerUs \in Nat
           /\ lag["emulator"] \in 0 .. kLagCycles
<1>1. ack_delay_us \in Nat BY AckDelaysAssumption DEF Typed
<1>2. ack_delay_us * kCyclesPerUs \in Nat BY <1>1, Numbers
<1>3. kLagCycles \in Nat BY Budget
<1>4. Took(kWireBitsPerByte) \in Nat BY TookBits, Numbers
<1>5. lag["emulator"] \in 0 .. kLagCycles BY DEF Typed
<1> QED BY <1>1, <1>2, <1>3, <1>4, <1>5, Numbers DEF AnswerBy

(* An emulator that has acknowledged nothing of this frame owes no ACK. *)
LEMMA EarlyOwesNone ==
    ASSUME Inv, Early
    PROVE  ~Pending
<1>1. CASE ecpu \in {"listen", "print"} BY <1>1 DEF Inv, ListenHolds
<1>2. CASE ecpu = "serve" /\ mcpu # "idle" /\ ~Over
  <2>1. CASE mcpu = "wait" BY <2>1 DEF Inv, CoupledIdle, BeforeByte
  <2>2. CASE UnderWay
    <3>1. CASE Starting
      <4>1. IsIdle(device) => ~Pending BY DEF IsIdle, Pending
      <4> QED BY <3>1, <4>1 DEF Inv, CoupledStart, BeforeByte
    <3>2. CASE Clocking
      <4>1. IsIdle(device) => ~Pending BY DEF IsIdle, Pending
      <4> QED BY <3>2, <4>1 DEF Inv, CoupledClock, CoupledLow, CoupledHigh, CoupledNext, Pending, Prelude
    <3> QED BY <1>2, <2>2, <3>1, <3>2 DEF Over, Clocking
  <2> QED BY <1>2, <2>1, <2>2 DEF Inv, Typed, UnderWay
<1> QED BY <1>1, <1>2 DEF Early

(* A byte is not over while the word before it is still being taken, unless *)
(* the device was restarted under it.                                       *)
LEMMA FreshIsEarly ==
    ASSUME Inv, Tick, UnderWay, ~Over, Over', Fresh
    PROVE  late
<1>1. Clocking BY WasClocking
<1>2. device.pc \in Prelude /\ ~IsIdle(device) BY DEF Fresh, Prelude, IsIdle
<1> QED BY <1>1, <1>2 DEF Inv, CoupledClock, CoupledLow, CoupledHigh, CoupledNext, Prelude

(* A device without a word, after a tick. *)
LEMMA IdleTicks ==
    ASSUME Inv, IdleHolds, Tick
    PROVE  IdleHolds'
<1>1. SUFFICES ASSUME IsIdle(device)' PROVE HasHeard' BY DEF IdleHolds
<1>2. device'.pc = "pull" /\ device'.tx = <<>> BY <1>1 DEF IsIdle
<1>3. CASE IsIdle(device)
  <2>1. device'.rx = device.rx BY <1>3, DeviceTicks, Phases DEF DeviceMoves, IsIdle
  <2> QED BY <1>3, <2>1, TheRest DEF IdleHolds, HasHeard
<1>4. CASE ~IsIdle(device)
  <2>1. device'.rx = <<device.isr>> BY <1>2, <1>4, DeviceTicks, Phases DEF DeviceMoves, IsIdle
  <2> QED BY <2>1 DEF HasHeard
<1> QED BY <1>3, <1>4

(* The flag of a word before, after a tick. *)
LEMMA FlagTicks ==
    ASSUME Inv, FlagHolds, Tick
    PROVE  FlagHolds'
<1>1. SUFFICES ASSUME Early', device'.x = 1 PROVE (Fresh /\ ~Over /\ ~(UnderWay /\ late))'
  BY DEF FlagHolds
<1>2. Early
  <2>1. Over => Over' BY StaysOver
  <2> QED BY <1>1, <2>1, TheRest DEF Early
<1>3. ~Pending BY <1>2, EarlyOwesNone
<1>4. device.pc # "out_x" /\ device.x = 1
  <2>1. device.pc = "out_x" => Head(device.osr) \in Bit
    <3>1. device.pc = "out_x" => \E acks \in BOOLEAN : device.osr = word_for(loaded, acks)
      BY DEF Inv, DeviceHolds, DeviceAt
    <3> QED BY <3>1, ADeviceWord DEF Inv, Typed, Bit
  <2>2. device.pc = "out_x" => device'.x = Head(device.osr)
    BY DeviceTicks, Phases DEF DeviceGoes
  <2>3. device.pc # "out_x" BY <1>1, <1>3, <2>1, <2>2 DEF Pending
  <2>4. device'.x = device.x BY <2>3, DeviceTicks DEF DeviceMoves
  <2> QED BY <1>1, <2>3, <2>4
<1>5. Fresh /\ ~Over /\ ~(UnderWay /\ late) BY <1>2, <1>4 DEF FlagHolds
<1>6. device.pc = "pull" /\ device.tx # <<>> BY <1>4, <1>5 DEF Fresh
<1>7. device'.pc = "out_x" BY <1>6, DeviceTicks, Phases DEF DeviceMoves
<1>8. ~Over'
  <2>1. CASE UnderWay BY <1>5, <2>1, FreshIsEarly
  <2>2. CASE ~UnderWay BY <2>2, TheRest DEF Over
  <2> QED BY <2>1, <2>2
<1> QED BY <1>5, <1>7, <1>8, TheRest DEF Fresh

(* A byte that gets over under an emulator that serves was heard, or is one *)
(* of which the flag says nothing.                                          *)
LEMMA JustServed ==
    ASSUME Inv, IdleHolds, FlagHolds, Tick, UnderWay, ~Over, Over', ecpu = "serve", device'.rx = <<>>
    PROVE  device'.x # 1
<1>1. device.pc # "push" BY HeardIsOver
<1>2. ~IsIdle(device)
  <2>1. ASSUME IsIdle(device) PROVE FALSE
    <3>1. device.rx # <<>> BY <2>1 DEF IdleHolds, HasHeard
    <3>2. mcpu # "idle" BY DEF UnderWay
    <3> QED BY <3>1, <3>2 DEF Inv, ServeHolds, HasHeard
  <2> QED BY <2>1
<1>3. late BY <1>1, <1>2, OrLate
<1>4. Early BY <1>3 DEF Inv, LateHolds, Early, UnderWay
<1>5. device.x # 1 BY <1>3, <1>4 DEF FlagHolds
<1>6. ~Pending BY <1>4, EarlyOwesNone
<1>7. device.pc = "out_x" => device'.x = Head(device.osr)
  BY DeviceTicks, Phases DEF DeviceGoes
<1>8. device.pc # "out_x" => device'.x = device.x BY DeviceTicks DEF DeviceMoves
<1> QED BY <1>5, <1>6, <1>7, <1>8 DEF Pending

(* How far the answer is, after a tick: while the byte waits, ... *)
LEMMA HeardTicks ==
    ASSUME Inv, AckInTime, Tick, mcpu = "poll", waits, Over', ecpu = "serve", device'.rx # <<>>
    PROVE  timer' < Took(kWireBitsPerByte) + 2 * kCyclesPerUs + kLagCycles + lag'["emulator"]
<1>1. /\ kLagCycles \in Nat /\ Took(kWireBitsPerByte) \in Nat
      /\ lag["emulator"] \in Nat /\ lag'["emulator"] \in Nat
      /\ timer \in Nat /\ timer' = timer + 1
  <2>1. lag'["emulator"] \in 0 .. kLagCycles BY TheRest
  <2> QED BY <2>1, AnswerByIs, TheRest, Scalars DEF Inv
<1>2. CASE device.rx # <<>>
  <2>1. Over
    <3>1. mcpu # "idle" OBVIOUS
    <3> QED BY <1>2, <3>1 DEF Inv, ServeHolds, HasHeard
  <2>2. lag'["emulator"] = lag["emulator"] + 1
    BY <1>2, TheRest DEF EmulatorCan, has_byte
  <2>3. timer < Took(kWireBitsPerByte) + 2 * kCyclesPerUs + kLagCycles + lag["emulator"]
    BY <1>2, <2>1 DEF AckInTime
  <2> QED BY <1>1, <2>2, <2>3, Numbers
<1>3. CASE device.rx = <<>>
  <2>1. device.pc = "push" BY <1>3, DeviceTicks DEF DeviceMoves
  <2>2. /\ master.pc = "jmp_x" /\ Sampled = kWireBitsPerByte
        /\ master.wait >= kCyclesPerUs - 7
    BY <2>1, SeesPush DEF UnderWay
  <2>3. timer + master.wait < Took(kWireBitsPerByte) + 2 * kCyclesPerUs
    BY <2>2 DEF Inv, TimerHolds
  <2>4. master.wait \in Nat BY Scalars DEF Inv
  <2> QED BY <1>1, <2>2, <2>3, <2>4, Numbers
<1> QED BY <1>2, <1>3

(* ... while the ACK delay runs, ... *)
LEMMA DelayTicks ==
    ASSUME Inv, AckInTime, Tick, mcpu = "poll", waits, Over', ecpu = "answer"
    PROVE  timer' + delay' < AnswerBy' + (IF delay' = 0 THEN lag'["emulator"] ELSE 0)
<1>1. /\ AnswerBy \in Nat /\ AnswerBy' = AnswerBy
      /\ lag["emulator"] \in Nat /\ lag'["emulator"] \in Nat
      /\ timer \in Nat /\ timer' = timer + 1
      /\ delay \in Nat /\ delay' = (IF delay = 0 THEN 0 ELSE delay - 1)
  <2>1. lag'["emulator"] \in 0 .. kLagCycles /\ kLagCycles \in Nat BY TheRest, AnswerByIs DEF Inv
  <2> QED BY <2>1, AnswerByIs, TheRest, Scalars DEF Inv, AnswerBy
<1>2. Over
  <2>1. mcpu # "idle" OBVIOUS
  <2> QED BY <2>1 DEF Inv, ServeHolds, HasHeard
<1>3. timer + delay < AnswerBy + (IF delay = 0 THEN lag["emulator"] ELSE 0)
  BY <1>2 DEF AckInTime
<1>4. delay = 0 => lag'["emulator"] = lag["emulator"] + 1
  BY TheRest DEF EmulatorCan
<1>5. PICK l, m : l = lag["emulator"] /\ m = lag'["emulator"] OBVIOUS
<1>6. CASE delay = 0
  BY <1>1, <1>3, <1>4, <1>5, <1>6
<1>7. CASE delay # 0
  <2>1. timer' + delay' = timer + delay BY <1>1, <1>7
  <2>2. timer + delay < AnswerBy BY <1>1, <1>3, <1>7
  <2> QED BY <1>1, <1>5, <2>1, <2>2
<1> QED BY <1>6, <1>7

(* ... and while the word is taken and its ACK given, ... *)
LEMMA AckTicks ==
    ASSUME Inv, IdleHolds, FlagHolds, AckInTime, Tick, mcpu = "poll", waits, Over',
           ecpu = "serve", BeforePush', device'.rx = <<>>, Pending' \/ device'.x = 1
    PROVE  AckOnItsWay'
<1>1. /\ AnswerBy \in Nat /\ AnswerBy' = AnswerBy /\ kLagCycles \in Nat
      /\ timer \in Nat /\ timer' = timer + 1
  BY AnswerByIs, TheRest, Scalars DEF Inv, AnswerBy
<1>2. UnderWay BY DEF UnderWay
<1>3. Over
  <2>1. ASSUME ~Over PROVE FALSE
    <3>1. ~Pending' BY <1>2, <2>1, JustOver
    <3>2. device'.x # 1 BY <1>2, <2>1, JustServed
    <3> QED BY <3>1, <3>2
  <2> QED BY <2>1
<1>4. BeforePush
  <2>1. UnderWay => (Starting <=> master.tx # <<>>) \/ master.pc # "pull" BY Phases
  <2>2. ~Starting BY <1>3, OverIsNotStarting
  <2>3. master.pc = "pull" => master.tx = <<>> BY <1>2, <2>1, <2>2
  <2>4. Sampled = kWireBitsPerByte \/ (master.pc = "pull" /\ master.tx = <<>>)
    BY <1>2, <1>3, NowOver DEF Over
  <2>5. master.pc \in {"pull", "jmp_x", "out_y", "jmp_y", "wait_ack", "push"}
    BY <2>4, Phases, Scalars, Numbers DEF Inv
  <2> QED BY <2>3, <2>5, MasterTicks DEF MasterMoves, BeforePush
<1>5. device.pc # "push" BY <1>2, <1>3, SeesPush
<1>6. device.rx = <<>> BY <1>5, DeviceTicks DEF DeviceMoves
<1>7. ~IsIdle(device) BY <1>6 DEF IdleHolds, HasHeard
<1>8. device.pc = "out_x" => device'.x = Head(device.osr) BY DeviceTicks, Phases DEF DeviceGoes
<1>9. device.pc = "out_x" => Head(device.osr) \in Bit
  <2>1. device.pc = "out_x" => \E acks \in BOOLEAN : device.osr = word_for(loaded, acks)
    BY DEF Inv, DeviceHolds, DeviceAt
  <2> QED BY <2>1, ADeviceWord DEF Inv, Typed, Bit
<1>10. device.pc # "out_x" => device'.x = device.x BY DeviceTicks DEF DeviceMoves
<1>11. Pending \/ device.x = 1
  BY <1>8, <1>9, <1>10, PendingTicks DEF Pending, Bit
<1>12. AckOnItsWay BY <1>3, <1>4, <1>6, <1>11 DEF AckInTime, AckOnItsWay
<1>13. device.wait \in Nat /\ (device.pc # "ack_high" => device.wait = 0) BY Scalars, Phases DEF Inv
<1>14. CASE device.pc = "pull"
  <2>1. device'.pc = "out_x" BY <1>7, <1>13, <1>14, DeviceTicks DEF DeviceMoves, IsIdle
  <2> QED BY <1>1, <1>12, <1>14, <2>1 DEF AckOnItsWay
<1>15. CASE device.pc = "out_x"
  <2>1. device'.pc = "jmp_x" BY <1>13, <1>15, DeviceTicks DEF DeviceMoves
  <2> QED BY <1>1, <1>12, <1>15, <2>1 DEF AckOnItsWay
<1>16. CASE device.pc = "jmp_x"
  <2>1. device.x = 1 BY <1>11, <1>16, PendingTicks
  <2>2. device'.pc = "ack_low" BY <1>13, <1>16, <2>1, DeviceTicks DEF DeviceMoves
  <2> QED BY <1>1, <1>12, <1>16, <2>2 DEF AckOnItsWay
<1>17. CASE device.pc = "ack_low"
  <2>1. device'.pc = "ack_high" /\ device'.wait = 2 * kCyclesPerUs - 1
    BY <1>13, <1>17, DeviceTicks DEF DeviceMoves
  <2> QED BY <1>1, <1>12, <1>17, <2>1, Numbers DEF AckOnItsWay
<1>18. CASE device.pc = "ack_high"
  <2>1. device.wait >= ToPoll BY <1>3, <1>4, <1>18 DEF Inv, CoupledEnd, BeforePush
  <2>2. ToPoll \in Nat /\ BeforePush' /\ ToPoll' = ToPoll - 1
    BY <1>3, <1>4, <1>18, ToPollTicks
  <2>3. device.wait # 0
    <3>1. ToPoll' \in Nat
      <4>1. /\ master'.wait \in Nat /\ kCyclesPerUs \in Nat
        BY MasterTicks, Numbers DEF MasterSm
      <4> QED BY <4>1, Numbers DEF ToPoll
    <3> QED BY <1>13, <2>1, <2>2, <3>1
  <2>4. device'.pc = "ack_high" /\ device'.wait = device.wait - 1
    BY <2>3, DeviceTicks DEF DeviceMoves
  <2>5. timer' + device'.wait = timer + device.wait BY <1>1, <1>13, <2>4
  <2>6. timer + device.wait < AnswerBy + kLagCycles + 3 + 2 * kCyclesPerUs
    BY <1>12, <1>18 DEF AckOnItsWay
  <2> QED BY <1>1, <2>4, <2>5, <2>6 DEF AckOnItsWay
<1> QED BY <1>12, <1>14, <1>15, <1>16, <1>17, <1>18 DEF AckOnItsWay

(* ... and how late the master sees it. *)
LEMMA PushTicks ==
    ASSUME Inv, AckInTime, Tick, mcpu = "poll", waits, Over', master'.pc = "push"
    PROVE  timer' + master'.wait < AnswerBy' + kLagCycles + 3 + 3 * kCyclesPerUs
<1>1. /\ AnswerBy \in Nat /\ AnswerBy' = AnswerBy /\ kLagCycles \in Nat
      /\ timer \in Nat /\ timer' = timer + 1
  BY AnswerByIs, TheRest, Scalars DEF Inv, AnswerBy
<1>2. UnderWay BY DEF UnderWay
<1>3. Over BY <1>2, JustOver
<1>4. CASE master.pc = "push"
  <2>1. timer + master.wait < AnswerBy + kLagCycles + 3 + 3 * kCyclesPerUs
    BY <1>3, <1>4 DEF AckInTime
  <2>2. master.wait \in Nat /\ master.wait # 0 /\ master'.wait = master.wait - 1
    BY <1>4, MasterTicks, Scalars DEF MasterMoves, Inv
  <2> QED BY <1>1, <2>1, <2>2
<1>5. CASE master.pc # "push"
  <2>1. master.pc = "jmp_y" => waits BY DEF Inv
  <2>2. /\ master.pc = "wait_ack" /\ master.wait = 0 /\ device.pc = "ack_high"
        /\ master'.wait = kCyclesPerUs - 1
    BY <1>5, <2>1, MasterTicks DEF MasterMoves
  <2>3. BeforePush /\ device.x = 1 /\ device.rx = <<>>
    BY <2>2 DEF BeforePush, Inv, DeviceHolds, DeviceAt, Pulse
  <2>4. ecpu = "serve"
    <3>1. ecpu \notin {"listen", "print"} BY <2>2 DEF Inv, ListenHolds
    <3>2. ecpu # "answer" BY <2>2 DEF Inv, ServeHolds, IsIdle
    <3> QED BY <3>1, <3>2 DEF Inv, Typed
  <2>5. AckOnItsWay BY <1>3, <2>3, <2>4 DEF AckInTime
  <2>6. timer + device.wait < AnswerBy + kLagCycles + 3 + 2 * kCyclesPerUs
    BY <2>2, <2>5 DEF AckOnItsWay
  <2>7. device.wait \in Nat BY Scalars DEF Inv
  <2> QED BY <1>1, <2>2, <2>6, <2>7, Numbers
<1> QED BY <1>4, <1>5

(* A tick keeps the times. *)
LEMMA TimesTick ==
    ASSUME Inv, Times, Tick
    PROVE  Times'
<1>1. /\ mcpu' = mcpu /\ waits' = waits /\ ecpu' = ecpu BY TheRest
<1>2. IdleHolds' /\ FlagHolds' BY IdleTicks, FlagTicks DEF Times
<1>3. AckInTime'
  BY <1>1, HeardTicks, DelayTicks, AckTicks, PushTicks DEF Times, AckInTime
<1> QED BY <1>2, <1>3 DEF Times

-----------------------------------------------------------------------------
(* The master's CPU: between bytes no ACK is waited for. *)
LEMMA MasterTimes ==
    ASSUME Inv, Inv', Times, StartFrame \/ PutByte \/ GetByte \/ TimeOut \/ Recover
    PROVE  Times'
<1>1. /\ device' = device /\ ecpu' = ecpu
  BY DEF StartFrame, PutByte, GetByte, TimeOut, Recover, ecpuVars
<1>2. IdleHolds'
  BY <1>1 DEF Times, IdleHolds, HasHeard, IsIdle
<1>3. Fresh' <=> Fresh BY <1>1 DEF Fresh
<1>4. CASE StartFrame
  <2>1. mcpu' = "wait" /\ ecpu \notin {"serve", "answer"} BY <1>4 DEF StartFrame
  <2>2. Early BY <2>1 DEF Early, Inv, Typed
  <2>3. ~UnderWay' BY <2>1 DEF UnderWay
  <2>4. FlagHolds' BY <1>1, <1>3, <2>2, <2>3 DEF Times, FlagHolds, Over
  <2> QED BY <1>2, <2>1, <2>4 DEF Times, AckInTime
<1>5. CASE PutByte
  <2>1. mcpu = "wait" /\ mcpu' = "poll" /\ late' = FALSE /\ index' = index BY <1>5 DEF PutByte
  <2>2. ~Over'
    <3>1. PICK w : master' = put(master, w) BY <1>5 DEF PutByte
    <3>2. master.pc = "pull" /\ master.tx = <<>> /\ master.rx = <<>> /\ master \in MasterSm
      BY <2>1 DEF Inv, MasterHolds, MasterFifos, UnderWay, Typed
    <3>3. master.isr = <<>> BY <3>2 DEF Inv, MasterHolds, MasterAt
    <3>4. Len(master.tx) = 0 /\ Append(master.tx, w) = <<w>> BY <3>2
    <3>5. master' = [master EXCEPT !.tx = <<w>>] BY <3>1, <3>4 DEF put, kFifoDepth
    <3>6. /\ master'.pc = "pull" /\ master'.tx = <<w>>
          /\ master'.rx = <<>> /\ master'.isr = <<>>
      BY <3>2, <3>3, <3>5 DEF MasterSm
    <3>7. <<w>> # <<>> OBVIOUS
    <3>8. UnderWay' BY <2>1 DEF UnderWay
    <3>9. Len(<<>>) = 0 OBVIOUS
    <3> QED
      BY <3>6, <3>7, <3>8, <3>9, Numbers DEF Over, Starting, IsOver, HasAllBits, has_byte, Sampled
  <2>3. Early' => Early
    BY <1>1, <2>1 DEF Early, Over, UnderWay
  <2>4. FlagHolds' BY <1>1, <1>3, <2>1, <2>2, <2>3 DEF Times, FlagHolds
  <2> QED BY <1>2, <2>2, <2>4 DEF Times, AckInTime
<1>6. ASSUME GetByte \/ TimeOut \/ Recover PROVE Over
  <2>1. CASE GetByte BY <2>1, GetsOver DEF GetByte
  <2>2. CASE TimeOut BY <2>2, GivesUpOver
  <2>3. CASE Recover BY <2>3 DEF Recover, Inv, TimerHolds
  <2> QED BY <1>6, <2>1, <2>2, <2>3
<1>7. ASSUME GetByte \/ TimeOut \/ Recover PROVE mcpu' # "poll" /\ FlagHolds'
  <2>1. mcpu' # "poll" /\ (mcpu' # "idle" => index' # 0 \/ (TimeOut /\ master' = master))
    <3>1. index \in Nat BY FrameLenAssumption DEF Inv, Typed
    <3>2. GetByte => mcpu' = "idle" \/ (mcpu' = "wait" /\ index' # 0) BY <3>1 DEF GetByte
    <3> QED BY <1>7, <3>2 DEF TimeOut, Recover
  <2>2. ASSUME TimeOut, master' = master PROVE Over'
    <3>1. UnderWay' BY <2>2 DEF TimeOut, UnderWay
    <3> QED BY <1>1, <1>6, <2>2, <3>1 DEF Over, IsOver, HasAllBits, has_byte, IsShifting
  <2>3. Early' => ecpu \in {"listen", "print"} BY <1>1, <2>1, <2>2 DEF Early
  <2>4. Early' => device.x # 1 BY <1>6, <1>7, <2>3 DEF Early, Times, FlagHolds
  <2> QED BY <1>1, <2>1, <2>4 DEF FlagHolds
<1> QED BY <1>2, <1>4, <1>5, <1>7 DEF Times, AckInTime

(* The emulator's CPU: its loop. *)
LEMMA LoopTimes ==
    ASSUME Inv, Inv', Times, PrintLine \/ Printed \/ SelectSeen \/ Deselected
    PROVE  Times'
<1>1. CASE PrintLine
  <2>1. /\ ecpu = "listen" /\ mcpu = "idle" /\ ecpu' = "print" /\ device' = device
        /\ master' = master /\ mcpu' = mcpu
    BY <1>1 DEF PrintLine, mcpuVars, att_is_high
  <2>2. IdleHolds' BY <2>1 DEF Times, IdleHolds, HasHeard, IsIdle
  <2>3. ~UnderWay /\ ~UnderWay' BY <2>1 DEF UnderWay
  <2>4. FlagHolds' BY <2>1, <2>3 DEF Times, FlagHolds, Early, Fresh, Over
  <2> QED BY <2>1, <2>2, <2>4 DEF Times, AckInTime
<1>2. CASE Printed
  <2>1. /\ ecpu = "print" /\ ecpu' = "listen" /\ master' = master /\ mcpu' = mcpu
        /\ index' = index /\ waits' = waits /\ timer' = timer
    BY <1>2 DEF Printed, mcpuVars
  <2>2. CASE has_byte(device)
    <3>1. /\ device.rx # <<>> /\ device \in DeviceSm /\ device' = device_restart(device)
      BY <1>2, <2>2 DEF Printed, Restarted, has_byte, Inv, Typed
    <3>2. ~Fresh BY <3>1 DEF Inv, DeviceHolds, DeviceAt, Fresh
    <3>3. device.x # 1 BY <2>1, <3>2 DEF Times, FlagHolds, Early
    <3>4. device'.x = device.x BY <3>1 DEF device_restart, DeviceSm
    <3>5. ~IsIdle(device)' BY <3>1, RestartIs
    <3> QED BY <3>3, <3>4, <3>5, <2>1 DEF Times, IdleHolds, FlagHolds, AckInTime, Inv, ServeHolds, BeforePush
  <2>3. CASE ~has_byte(device)
    <3>1. device' = device /\ late' = late BY <1>2, <2>3 DEF Printed
    <3>2. UnderWay' <=> UnderWay BY <2>1 DEF UnderWay
    <3>3. IdleHolds' BY <2>1, <3>1 DEF Times, IdleHolds, HasHeard, IsIdle
    <3>4. FlagHolds' BY <2>1, <3>1, <3>2, SameTimes DEF Times, FlagHolds, Early
    <3> QED BY <2>1, <3>3, <3>4 DEF Times, AckInTime, Inv, ServeHolds, BeforePush
  <2> QED BY <2>2, <2>3
<1>3. CASE SelectSeen
  <2>1. /\ ecpu = "listen" /\ ecpu' = "serve" /\ device' = device /\ master' = master
        /\ mcpu' = mcpu /\ index' = index /\ waits' = waits /\ timer' = timer /\ late' = late
        /\ lag' = [lag EXCEPT !["emulator"] = 0]
    BY <1>3 DEF SelectSeen, mcpuVars
  <2>2. UnderWay' <=> UnderWay BY <2>1 DEF UnderWay
  <2>3. IdleHolds' BY <2>1 DEF Times, IdleHolds, HasHeard, IsIdle
  <2>4. Early BY <2>1 DEF Early
  <2>5. FlagHolds' BY <2>1, <2>2, <2>4, SameTimes DEF Times, FlagHolds
  <2>6. ASSUME Over, waits, mcpu = "poll" PROVE AckInTime'
    <3>1. BeforePush BY <2>1, <2>6 DEF Inv, ServeHolds
    <3>2. master.pc # "push" BY <3>1 DEF BeforePush
    <3>3. ~Pending /\ device.x # 1 BY <2>4, <2>6, EarlyOwesNone DEF Times, FlagHolds
    <3>4. ASSUME device.rx # <<>>
          PROVE  timer < Took(kWireBitsPerByte) + 2 * kCyclesPerUs + kLagCycles + lag'["emulator"]
      <4>1. timer < Took(kWireBitsPerByte) + 2 * kCyclesPerUs + lag["emulator"]
        BY <2>1, <3>4 DEF Inv, ListenHolds
      <4>2. lag'["emulator"] = 0 BY <2>1 DEF Inv, Typed
      <4>3. /\ lag["emulator"] \in 0 .. kLagCycles /\ kLagCycles \in Nat /\ timer \in Nat
            /\ Took(kWireBitsPerByte) \in Nat
        BY AnswerByIs, Scalars DEF Inv
      <4> QED BY <4>1, <4>2, <4>3, Numbers
    <3> QED BY <2>1, <2>2, <3>2, <3>3, <3>4, SameTimes DEF AckInTime
  <2>7. (Over' <=> Over) BY <2>1, <2>2, SameTimes
  <2> QED BY <2>1, <2>3, <2>5, <2>6, <2>7 DEF Times, AckInTime
<1>4. CASE Deselected
  <2>1. /\ mcpu = "idle" /\ mcpu' = mcpu /\ ecpu' = "listen"
        /\ device' = device_restart(device) /\ device \in DeviceSm
    BY <1>4 DEF Deselected, Restarted, mcpuVars, att_is_high, Inv, Typed
  <2>2. ~UnderWay' BY <2>1 DEF UnderWay
  <2>3. ~IsIdle(device)' /\ device'.pc = "pull" BY <2>1, RestartIs
  <2>4. device'.tx # <<>> BY <2>3 DEF IsIdle
  <2> QED BY <2>1, <2>2, <2>3, <2>4 DEF Times, IdleHolds, FlagHolds, Fresh, Over, AckInTime
<1> QED BY <1>1, <1>2, <1>3, <1>4

(* It takes a byte, and the ACK delay begins; *)
LEMMA TakeTimes ==
    ASSUME Inv, Inv', Times, TakeByte
    PROVE  Times'
<1>1. /\ ecpu = "serve" /\ device.rx # <<>> /\ ecpu' = "answer"
      /\ device' = dropped_byte(device)
      /\ delay' \in AckDelay \cup {0}
      /\ lag' = [lag EXCEPT !["emulator"] = 0]
      /\ master' = master /\ mcpu' = mcpu /\ waits' = waits /\ timer' = timer
      /\ ack_delay_us' = ack_delay_us
  BY DEF TakeByte, mcpuVars, has_byte
<1>2. device'.pc = device.pc /\ device'.tx = device.tx /\ device'.y = device.y
  BY <1>1 DEF dropped_byte, Inv, Typed, DeviceSm
<1>3. (Over' <=> Over)
  BY <1>1, <1>2 DEF Over, IsOver, HasAllBits, has_byte, IsShifting, UnderWay
<1>4. ASSUME Over, waits, mcpu = "poll"
      PROVE  timer' + delay' < AnswerBy' + (IF delay' = 0 THEN lag'["emulator"] ELSE 0)
  <2>1. timer < Took(kWireBitsPerByte) + 2 * kCyclesPerUs + kLagCycles + lag["emulator"]
    BY <1>1, <1>4 DEF Times, AckInTime
  <2>2. lag'["emulator"] = 0 BY <1>1 DEF Inv, Typed
  <2>3. /\ lag["emulator"] \in 0 .. kLagCycles /\ kLagCycles \in Nat /\ timer \in Nat
        /\ Took(kWireBitsPerByte) \in Nat /\ ack_delay_us * kCyclesPerUs \in Nat
        /\ ack_delay_us \in Nat
    BY AnswerByIs, Scalars DEF Inv
  <2>4. PICK a : a = ack_delay_us * kCyclesPerUs OBVIOUS
  <2>5. delay' \in Int /\ delay' <= a
    BY <1>1, <2>3, <2>4, Numbers DEF AckDelay
  <2>6. AnswerBy' = Took(kWireBitsPerByte) + 2 * kCyclesPerUs + 2 * kLagCycles + a
    BY <1>1, <2>4 DEF AnswerBy
  <2> QED BY <1>1, <2>1, <2>2, <2>3, <2>4, <2>5, <2>6, Numbers
<1>5. ~(Over /\ waits /\ mcpu = "poll" /\ master.pc = "push")
  BY <1>1, <1>3 DEF Inv, ServeHolds, BeforePush
<1>6. AckInTime' BY <1>1, <1>3, <1>4, <1>5 DEF AckInTime
<1> QED BY <1>1, <1>6 DEF Times, IdleHolds, HasHeard, FlagHolds, Early

(* and answers it, an ACK with it. *)
LEMMA AnswerTimes ==
    ASSUME Inv, Inv', Times, AnswerByte
    PROVE  Times'
<1>1. /\ ecpu = "answer" /\ delay = 0 /\ ecpu' = "serve"
      /\ device' = device_answer(device, reply.next, reply.should_ack)
      /\ master' = master /\ mcpu' = mcpu /\ index' = index /\ waits' = waits /\ timer' = timer
      /\ ack_delay_us' = ack_delay_us
  BY DEF AnswerByte, mcpuVars
<1>2. IsIdle(device) /\ device.rx = <<>> BY <1>1 DEF Inv, ServeHolds
<1>3. reply.next \in Bits /\ reply.should_ack \in BOOLEAN BY DEF Inv, Typed
<1>4. /\ device'.pc = "pull" /\ device'.rx = <<>> /\ ~IsIdle(device)' /\ ~IsShifting(device)'
  BY <1>1, <1>2, <1>3, AnswerIs DEF Inv, Typed, DeviceHolds
<1>5. ~IsShifting(device) BY <1>2 DEF IsIdle, IsShifting
<1>6. (Over' <=> Over) /\ (BeforePush' <=> BeforePush)
  BY <1>1, <1>4, <1>5 DEF Over, IsOver, HasAllBits, has_byte, UnderWay, BeforePush
<1>7. mcpu # "idle" => Over BY <1>1 DEF Inv, ServeHolds, HasHeard
<1>8. FlagHolds' BY <1>1, <1>6, <1>7 DEF FlagHolds, Early
<1>9. ASSUME Over, waits, mcpu = "poll" PROVE BeforePush /\ AckOnItsWay'
  <2>1. BeforePush BY <1>1, <1>9 DEF Inv, ServeHolds
  <2>2. timer + delay < AnswerBy + lag["emulator"] BY <1>1, <1>9 DEF Times, AckInTime
  <2>3. /\ lag["emulator"] \in 0 .. kLagCycles /\ kLagCycles \in Nat /\ timer \in Nat
        /\ AnswerBy \in Nat /\ AnswerBy' = AnswerBy
    BY <1>1, AnswerByIs, Scalars DEF Inv, AnswerBy
  <2>4. timer' < AnswerBy' + kLagCycles BY <1>1, <2>2, <2>3
  <2> QED BY <1>4, <2>1, <2>4 DEF AckOnItsWay
<1>10. AckInTime' BY <1>1, <1>4, <1>6, <1>9 DEF AckInTime, BeforePush
<1> QED BY <1>4, <1>8, <1>10 DEF Times, IdleHolds

(* The times hold at boot, ... *)
LEMMA TimesBoot ==
    ASSUME Init
    PROVE  Times
<1>1. /\ mcpu = "idle" /\ device.x = 0 /\ device.tx # <<>> BY DEF Init, DeviceAtBoot
<1> QED BY <1>1 DEF Times, IdleHolds, FlagHolds, AckInTime, IsIdle

(* ... and every step keeps them. *)
LEMMA TimesKept ==
    ASSUME Inv, Times, [Next]_vars
    PROVE  Times'
<1>1. Inv' BY StepKeeps
<1>2. CASE UNCHANGED vars
  <2>1. /\ master' = master /\ device' = device /\ mcpu' = mcpu /\ index' = index /\ waits' = waits
        /\ timer' = timer /\ ecpu' = ecpu /\ delay' = delay /\ ack_delay_us' = ack_delay_us
        /\ late' = late /\ lag' = lag
    BY <1>2 DEF vars, mcpuVars, ecpuVars
  <2>2. UnderWay' <=> UnderWay BY <2>1 DEF UnderWay
  <2>3. IdleHolds' /\ FlagHolds'
    BY <2>1, <2>2, SameTimes DEF Times, IdleHolds, FlagHolds, HasHeard, Early
  <2>4. AckInTime'
    BY <2>1, <2>2, SameTimes DEF Times, AckInTime, AckOnItsWay, AnswerBy
  <2> QED BY <2>3, <2>4 DEF Times
<1> QED BY <1>1, <1>2, MasterTimes, LoopTimes, TakeTimes, AnswerTimes, TimesTick
        DEF Next, MasterCpu, EmulatorCpu

(* A byte is not given up with the ACK of the SG's pace on its way. *)
LEMMA NoneGivenUp ==
    ASSUME Inv, Times, TimeOut, ack_delay_us = kAckDelayUs
    PROVE  device.x = 0
<1>1. /\ mcpu = "poll" /\ ~has_byte(master) /\ timer > kByteBudgetUs * kCyclesPerUs
  BY DEF TimeOut, MayGiveUp
<1>2. /\ Over /\ waits /\ master.pc \in {"wait_ack", "push"} BY GivesUpOver
<1>3. PICK a, t, b : a = kAckDelayUs * kCyclesPerUs /\ t = kAckTimeoutUs * kCyclesPerUs
                     /\ b = Took(kWireBitsPerByte)
  OBVIOUS
<1>4. /\ a \in Nat /\ t \in Nat /\ b \in Nat /\ kLagCycles \in Nat /\ timer \in Nat
      /\ AnswerBy = b + 2 * kCyclesPerUs + 2 * kLagCycles + a
      /\ lag["emulator"] \in 0 .. kLagCycles
  BY <1>3, AnswerByIs, Scalars, Budget DEF Inv, AnswerBy
<1>5. a + 5 * kCyclesPerUs + 3 * kLagCycles + 3 <= t
  <2>1. (kAckDelayUs + 5) * kCyclesPerUs = kAckDelayUs * kCyclesPerUs + 5 * kCyclesPerUs
    BY AckFitsAssumption, Numbers
  <2> QED BY <1>3, <2>1, AckFitsAssumption
<1>6. timer > b + t BY <1>1, <1>3, Budget
<1>7. ~(timer < AnswerBy + kLagCycles + 3 + 3 * kCyclesPerUs) BY <1>4, <1>5, <1>6, Numbers
<1>8. device.x \in {0, 1} BY Scalars DEF Inv
<1>9. SUFFICES ASSUME device.x = 1 PROVE FALSE BY <1>8
<1>10. CASE ecpu \in {"listen", "print"} BY <1>2, <1>9, <1>10 DEF Times, FlagHolds, Early
<1>11. CASE master.pc = "push"
  <2>1. master.wait \in Nat BY Scalars DEF Inv
  <2>2. timer + master.wait < AnswerBy + kLagCycles + 3 + 3 * kCyclesPerUs
    BY <1>1, <1>2, <1>11 DEF Times, AckInTime
  <2> QED BY <1>4, <1>7, <2>1, <2>2, Numbers
<1>12. CASE ecpu = "answer"
  <2>1. timer + delay < AnswerBy + (IF delay = 0 THEN lag["emulator"] ELSE 0)
    BY <1>1, <1>2, <1>12 DEF Times, AckInTime
  <2>2. delay \in Nat BY Scalars DEF Inv
  <2>3. PICK l, n : l = lag["emulator"] /\ n = AnswerBy OBVIOUS
  <2>4. l \in 0 .. kLagCycles /\ n \in Nat /\ delay \in Nat
    BY <1>4, <2>2, <2>3, AnswerByIs DEF Inv
  <2>5. CASE delay = 0
    <3>1. timer + 0 < n + l BY <2>1, <2>3, <2>5
    <3> QED BY <1>4, <1>7, <2>3, <2>4, <3>1, Numbers
  <2>6. CASE delay # 0
    <3>1. timer + delay < n + 0 BY <2>1, <2>3, <2>6
    <3> QED BY <1>4, <1>7, <2>3, <2>4, <3>1, Numbers
  <2> QED BY <2>5, <2>6
<1>13. CASE ecpu = "serve" /\ device.rx # <<>>
  <2>1. timer < b + 2 * kCyclesPerUs + kLagCycles + lag["emulator"]
    BY <1>1, <1>2, <1>3, <1>13 DEF Times, AckInTime
  <2> QED BY <1>4, <1>7, <2>1, Numbers
<1>14. CASE ecpu = "serve" /\ device.rx = <<>> /\ master.pc = "wait_ack"
  <2>1. AckOnItsWay BY <1>1, <1>2, <1>9, <1>14 DEF Times, AckInTime, BeforePush
  <2>2. device.wait \in Nat BY Scalars DEF Inv
  <2> QED BY <1>4, <1>7, <2>1, <2>2, Numbers DEF AckOnItsWay
<1> QED BY <1>2, <1>10, <1>11, <1>12, <1>13, <1>14 DEF Inv, Typed

(* No byte that the emulator acknowledged at the SG's own pace is given up, *)
(* however the two clocks and the two loops fall: the budget is longer than *)
(* the bits, the delay, what both CPUs are late and the way of the pulse.   *)
THEOREM AcksAlwaysArrive == Spec => AcksArrive
<1>1. Init => Times BY TimesBoot
<1>2. Inv /\ Times /\ [Next]_vars => Times' BY TimesKept
<1>3. Inv /\ Times /\ [Next]_vars => [TimeOut /\ ack_delay_us = kAckDelayUs => device.x = 0]_vars
  BY NoneGivenUp
<1>4. Spec => []Inv BY BitsStayCoupled
<1> QED BY <1>1, <1>2, <1>3, <1>4, PTL DEF Spec, AcksArrive

-----------------------------------------------------------------------------
(* The pads of each kind of pin through a boot: an input of the master,     *)
(* which is pulled up in the end; *)
LEMMA InputPads ==
    ASSUME NEW latch \in Latch, NEW n \in 0 .. 2,
           NEW pad, pad = AfterCalls(ResetPad(latch), <<"gpio_init", "gpio_pull_up">>, n)
    PROVE  pad \in Pad /\ Driven(pad) = "released" /\ (n = 2 => pad.pull = "up")
<1>1. PICK a, b, c : /\ a = ResetPad(latch) /\ b = Called(a, "gpio_init")
                     /\ c = Called(b, "gpio_pull_up")
  OBVIOUS
<1>2. a.func = "none" BY <1>1 DEF ResetPad
<1>3. b = [a EXCEPT !.sio_oe = FALSE, !.sio_out = 0, !.func = "sio", !.is_low = FALSE]
  BY <1>1 DEF Called
<1>4. c = [b EXCEPT !.pull = "up"] BY <1>1 DEF Called
<1>5. a = [func |-> "none", sio_out |-> 0, sio_oe |-> FALSE, pio_out |-> latch,
           pio_oe |-> FALSE, is_low |-> FALSE, pull |-> "down"]
  BY <1>1 DEF ResetPad
<1>6. b.func = "sio" /\ ~b.sio_oe BY <1>3, <1>5
<1>7. c.func = "sio" /\ ~c.sio_oe /\ c.pull = "up" BY <1>3, <1>4, <1>5
<1>8. (n = 0 /\ pad = a) \/ (n = 1 /\ pad = b) \/ (n = 2 /\ pad = c)
  BY <1>1 DEF AfterCalls
<1>9. a \in Pad BY <1>5 DEF Pad, Latch
<1>10. b \in Pad /\ c \in Pad BY <1>3, <1>4, <1>9 DEF Pad
<1> QED BY <1>2, <1>6, <1>7, <1>8, <1>9, <1>10 DEF Driven

(* ATT, whose level is set before its direction; *)
LEMMA AttPads ==
    ASSUME NEW latch \in Latch, NEW n \in 0 .. 3,
           NEW pad, pad = AfterCalls(ResetPad(latch), <<"gpio_init", "gpio_put", "gpio_set_dir">>, n)
    PROVE  /\ pad \in Pad /\ Driven(pad) \in {"released", "high"}
           /\ n = 3 => pad.func = "sio" /\ pad.sio_oe
<1>1. PICK a, b, c, d : /\ a = ResetPad(latch) /\ b = Called(a, "gpio_init")
                        /\ c = Called(b, "gpio_put") /\ d = Called(c, "gpio_set_dir")
  OBVIOUS
<1>2. b = [a EXCEPT !.sio_oe = FALSE, !.sio_out = 0, !.func = "sio", !.is_low = FALSE]
  BY <1>1 DEF Called
<1>3. c = [b EXCEPT !.sio_out = 1] BY <1>1 DEF Called
<1>4. d = [c EXCEPT !.sio_oe = TRUE] BY <1>1 DEF Called
<1>5. a = [func |-> "none", sio_out |-> 0, sio_oe |-> FALSE, pio_out |-> latch,
           pio_oe |-> FALSE, is_low |-> FALSE, pull |-> "down"]
  BY <1>1 DEF ResetPad
<1>6. b.func = "sio" /\ ~b.sio_oe BY <1>2, <1>5
<1>7. c.func = "sio" /\ ~c.sio_oe BY <1>2, <1>3, <1>5
<1>8. d.func = "sio" /\ d.sio_oe /\ d.sio_out = 1 BY <1>2, <1>3, <1>4, <1>5
<1>9. (n = 0 /\ pad = a) \/ (n = 1 /\ pad = b) \/ (n = 2 /\ pad = c) \/ (n = 3 /\ pad = d)
  BY <1>1 DEF AfterCalls
<1>10. a \in Pad BY <1>5 DEF Pad, Latch
<1>11. b \in Pad /\ c \in Pad /\ d \in Pad BY <1>2, <1>3, <1>4, <1>10 DEF Pad
<1> QED BY <1>5, <1>6, <1>7, <1>8, <1>9, <1>10, <1>11 DEF Driven

(* CMD and CLK, whose level and direction are set before the PIO has them;  *)
LEMMA ProgramPads ==
    ASSUME NEW latch \in Latch, NEW n \in 0 .. 3,
           NEW pad, pad = AfterCalls(ResetPad(latch),
                                     <<"pio_set_pins", "pio_set_pindirs", "pio_gpio_init">>, n)
    PROVE  /\ pad \in Pad /\ Driven(pad) \in {"released", "high"}
           /\ n = 3 => pad.func = "pio" /\ pad.pio_oe
<1>1. PICK a, b, c, d : /\ a = ResetPad(latch) /\ b = Called(a, "pio_set_pins")
                        /\ c = Called(b, "pio_set_pindirs") /\ d = Called(c, "pio_gpio_init")
  OBVIOUS
<1>2. b = [a EXCEPT !.pio_out = 1] BY <1>1 DEF Called
<1>3. c = [b EXCEPT !.pio_oe = TRUE] BY <1>1 DEF Called
<1>4. d = [c EXCEPT !.func = "pio", !.is_low = FALSE] BY <1>1 DEF Called
<1>5. a = [func |-> "none", sio_out |-> 0, sio_oe |-> FALSE, pio_out |-> latch,
           pio_oe |-> FALSE, is_low |-> FALSE, pull |-> "down"]
  BY <1>1 DEF ResetPad
<1>6. b.func = "none" /\ c.func = "none" BY <1>2, <1>3, <1>5
<1>7. d.func = "pio" /\ d.pio_oe /\ d.pio_out = 1 /\ ~d.is_low BY <1>2, <1>3, <1>4, <1>5
<1>8. (n = 0 /\ pad = a) \/ (n = 1 /\ pad = b) \/ (n = 2 /\ pad = c) \/ (n = 3 /\ pad = d)
  BY <1>1 DEF AfterCalls
<1>9. a \in Pad BY <1>5 DEF Pad, Latch
<1>10. b \in Pad /\ c \in Pad /\ d \in Pad BY <1>2, <1>3, <1>4, <1>9 DEF Pad
<1> QED BY <1>5, <1>6, <1>7, <1>8, <1>9, <1>10 DEF Driven

(* the emulator's inputs; *)
LEMMA EmulatorInputPads ==
    ASSUME NEW latch \in Latch, NEW n \in 0 .. 2,
           NEW pad, pad = AfterCalls(ResetPad(latch), <<"gpio_init", "gpio_disable_pulls">>, n)
    PROVE  pad \in Pad /\ Driven(pad) = "released"
<1>1. PICK a, b, c : /\ a = ResetPad(latch) /\ b = Called(a, "gpio_init")
                     /\ c = Called(b, "gpio_disable_pulls")
  OBVIOUS
<1>2. b = [a EXCEPT !.sio_oe = FALSE, !.sio_out = 0, !.func = "sio", !.is_low = FALSE]
  BY <1>1 DEF Called
<1>3. c = [b EXCEPT !.pull = "none"] BY <1>1 DEF Called
<1>4. a = [func |-> "none", sio_out |-> 0, sio_oe |-> FALSE, pio_out |-> latch,
           pio_oe |-> FALSE, is_low |-> FALSE, pull |-> "down"]
  BY <1>1 DEF ResetPad
<1>5. b.func = "sio" /\ ~b.sio_oe /\ c.func = "sio" /\ ~c.sio_oe BY <1>2, <1>3, <1>4
<1>6. pad = a \/ pad = b \/ pad = c BY <1>1 DEF AfterCalls
<1>7. a \in Pad BY <1>4 DEF Pad, Latch
<1>8. b \in Pad /\ c \in Pad BY <1>2, <1>3, <1>7 DEF Pad
<1> QED BY <1>4, <1>5, <1>6, <1>7, <1>8 DEF Driven

(* and DATA and ACK, which are never high. *)
LEMMA OpenDrainPads ==
    ASSUME NEW latch \in Latch, NEW n \in 0 .. 3,
           NEW pad, pad = AfterCalls(ResetPad(latch),
                                     <<"pio_clear_pindirs", "pio_gpio_init", "gpio_set_outover">>, n)
    PROVE  pad \in Pad /\ Driven(pad) # "high" /\ (n = 3 => pad.func = "pio" /\ pad.is_low)
<1>1. PICK a, b, c, d : /\ a = ResetPad(latch) /\ b = Called(a, "pio_clear_pindirs")
                        /\ c = Called(b, "pio_gpio_init") /\ d = Called(c, "gpio_set_outover")
  OBVIOUS
<1>2. b = [a EXCEPT !.pio_oe = FALSE] BY <1>1 DEF Called
<1>3. c = [b EXCEPT !.func = "pio", !.is_low = FALSE] BY <1>1 DEF Called
<1>4. d = [c EXCEPT !.is_low = TRUE] BY <1>1 DEF Called
<1>5. a = [func |-> "none", sio_out |-> 0, sio_oe |-> FALSE, pio_out |-> latch,
           pio_oe |-> FALSE, is_low |-> FALSE, pull |-> "down"]
  BY <1>1 DEF ResetPad
<1>6. b.func = "none" /\ c.func = "pio" /\ ~c.pio_oe BY <1>2, <1>3, <1>5
<1>7. d.func = "pio" /\ d.is_low BY <1>2, <1>3, <1>4, <1>5
<1>8. (n = 0 /\ pad = a) \/ (n = 1 /\ pad = b) \/ (n = 2 /\ pad = c) \/ (n = 3 /\ pad = d)
  BY <1>1 DEF AfterCalls
<1>9. a \in Pad BY <1>5 DEF Pad, Latch
<1>10. b \in Pad /\ c \in Pad /\ d \in Pad BY <1>2, <1>3, <1>4, <1>9 DEF Pad
<1> QED BY <1>5, <1>6, <1>7, <1>8, <1>9, <1>10 DEF Driven

(* The rows of the two tables. *)
LEMMA Rows ==
    /\ Pico = {"master", "emulator"}
    /\ \A pico \in Pico : DOMAIN kPins[pico] = 1 .. 5 /\ DOMAIN Boot[pico] = 1 .. 5
    /\ \A pico \in Pico :
        /\ RowOf(pico, "Data") = 1 /\ RowOf(pico, "Cmd") = 2 /\ RowOf(pico, "Att") = 3
        /\ RowOf(pico, "Clk") = 4 /\ RowOf(pico, "Ack") = 5
<1>1. Pico = {"master", "emulator"} BY DEF Pico, kPins
<1>2. \A pico \in Pico :
        /\ DOMAIN kPins[pico] = 1 .. 5 /\ DOMAIN Boot[pico] = 1 .. 5
        /\ kPins[pico][1].signal = "Data" /\ kPins[pico][2].signal = "Cmd"
        /\ kPins[pico][3].signal = "Att" /\ kPins[pico][4].signal = "Clk"
        /\ kPins[pico][5].signal = "Ack"
  BY <1>1 DEF kPins, Boot, kMasterPins, kEmulatorPins
<1>3. 1 .. 5 = {1, 2, 3, 4, 5} OBVIOUS
<1> QED BY <1>1, <1>2, <1>3 DEF RowOf

(* The calls of each row. *)
LEMMA Calls ==
    /\ \A row \in {1, 5} : Boot["master"][row] = <<"gpio_init", "gpio_pull_up">>
    /\ Boot["master"][3] = <<"gpio_init", "gpio_put", "gpio_set_dir">>
    /\ \A row \in {2, 4} :
        Boot["master"][row] = <<"pio_set_pins", "pio_set_pindirs", "pio_gpio_init">>
    /\ \A row \in {1, 5} :
        Boot["emulator"][row] = <<"pio_clear_pindirs", "pio_gpio_init", "gpio_set_outover">>
    /\ \A row \in {2, 3, 4} : Boot["emulator"][row] = <<"gpio_init", "gpio_disable_pulls">>
BY DEF Boot, kMasterPins, kEmulatorPins, MasterCalls, EmulatorCalls

(* The numbers of calls, ... *)
LEMMA CallCounts ==
    /\ \A row \in 1 .. 5 : Len(Boot["master"][row]) = (IF row \in {1, 5} THEN 2 ELSE 3)
    /\ \A row \in 1 .. 5 : Len(Boot["emulator"][row]) = (IF row \in {1, 5} THEN 3 ELSE 2)
    /\ \A row \in 1 .. 5 : Len(Boot["master"][row]) \in {2, 3}
<1>1. \A row \in 1 .. 5 : row \in {1, 5} \/ row \in {2, 4} \/ row = 3 OBVIOUS
<1>2. ASSUME NEW row \in {1, 5}
      PROVE  Len(Boot["master"][row]) = 2 /\ Len(Boot["emulator"][row]) = 3
  <2>1. PICK c, d : /\ c = Boot["master"][row] /\ c = <<"gpio_init", "gpio_pull_up">>
                    /\ d = Boot["emulator"][row]
                    /\ d = <<"pio_clear_pindirs", "pio_gpio_init", "gpio_set_outover">>
    BY Calls
  <2>2. Len(c) = 2 /\ Len(d) = 3 BY <2>1
  <2> QED BY <2>1, <2>2
<1>3. ASSUME NEW row \in {2, 4}
      PROVE  Len(Boot["master"][row]) = 3 /\ Len(Boot["emulator"][row]) = 2
  <2>1. PICK c, d : /\ c = Boot["master"][row]
                    /\ c = <<"pio_set_pins", "pio_set_pindirs", "pio_gpio_init">>
                    /\ d = Boot["emulator"][row] /\ d = <<"gpio_init", "gpio_disable_pulls">>
    BY Calls
  <2>2. Len(c) = 3 /\ Len(d) = 2 BY <2>1
  <2> QED BY <2>1, <2>2
<1>4. Len(Boot["master"][3]) = 3 /\ Len(Boot["emulator"][3]) = 2
  <2>1. PICK c, d : /\ c = Boot["master"][3] /\ c = <<"gpio_init", "gpio_put", "gpio_set_dir">>
                    /\ d = Boot["emulator"][3] /\ d = <<"gpio_init", "gpio_disable_pulls">>
    BY Calls
  <2>2. Len(c) = 3 /\ Len(d) = 2 BY <2>1
  <2> QED BY <2>1, <2>2
<1> QED BY <1>1, <1>2, <1>3, <1>4

(* ... and where the two boots end. *)
LEMMA LastPlaces == LastPlace["master"] = <<5, 2>> /\ LastPlace["emulator"] = <<5, 3>>
<1>1. \A pico \in Pico : Len(kPins[pico]) = 5 BY Rows DEF kPins, kMasterPins, kEmulatorPins
<1>2. Len(Boot["master"][5]) = 2 /\ Len(Boot["emulator"][5]) = 3 BY CallCounts
<1> QED BY <1>1, <1>2, Rows DEF LastPlace

(* A pin has at most its calls made, and all of them in the end. *)
LEMMA ThePad ==
    ASSUME NEW pico \in Pico, NEW at \in Places(pico), NEW latch \in Latch, NEW signal \in Signal,
           NEW calls, calls = Boot[pico][RowOf(pico, signal)]
    PROVE  \E n \in 0 .. Len(calls) :
             /\ PadsAt(pico, latch, at)[signal] = AfterCalls(ResetPad(latch), calls, n)
             /\ at = LastPlace[pico] => n = Len(calls)
<1>1. PICK row : row = RowOf(pico, signal) OBVIOUS
<1>2. row \in 1 .. 5 BY <1>1, Rows DEF Signal
<1>3. calls = Boot[pico][row] BY <1>1
<1>4. PICK n : n = CallsMade(pico, at, row) OBVIOUS
<1>5. PadsAt(pico, latch, at)[signal] = AfterCalls(ResetPad(latch), calls, n)
  <2>1. /\ at \in (DOMAIN Boot[pico]) \X (0 .. 3) /\ at = <<at[1], at[2]>>
        /\ at[2] \in 0 .. Len(Boot[pico][at[1]])
    BY DEF Places
  <2> QED BY <1>1, <1>3, <1>4, <2>1 DEF PadsAt, PadTable, Latch
<1>6. PICK length : length = Len(calls) OBVIOUS
<1>7. length \in {2, 3} BY <1>2, <1>3, <1>6, CallCounts, Rows
<1>8. at[1] \in 1 .. 5 /\ at[2] \in 0 .. 3 /\ at[2] <= Len(Boot[pico][at[1]])
  BY Rows DEF Places
<1>9. n = (IF row < at[1] THEN length ELSE IF row = at[1] THEN at[2] ELSE 0)
  BY <1>3, <1>4, <1>6 DEF CallsMade
<1>10. n \in 0 .. length
  <2>1. row = at[1] => at[2] <= length BY <1>3, <1>6, <1>8
  <2> QED BY <1>2, <1>7, <1>8, <1>9, <2>1
<1>11. ASSUME at = LastPlace[pico] PROVE n = length
  <2>1. Len(kPins[pico]) = 5 BY Rows DEF kPins, kMasterPins, kEmulatorPins
  <2>2. at = <<5, Len(Boot[pico][5])>> BY <1>11, <2>1 DEF LastPlace
  <2>3. at[1] = 5 /\ at[2] = Len(Boot[pico][5]) BY <2>2
  <2>4. row = 5 => at[2] = length BY <1>3, <1>6, <2>3
  <2> QED BY <1>2, <1>9, <2>3, <2>4
<1> QED BY <1>5, <1>6, <1>10, <1>11

(* The master's pads. *)
LEMMA MasterPadsAt ==
    ASSUME NEW at \in Places("master"), NEW latch \in Latch, NEW signal \in Signal,
           NEW pad, pad = PadsAt("master", latch, at)[signal]
    PROVE  /\ pad \in Pad
           /\ signal \in {"Data", "Ack"} => Driven(pad) = "released"
           /\ signal \in {"Att", "Cmd", "Clk"} => Driven(pad) \in {"released", "high"}
           /\ at = LastPlace["master"] =>
                /\ signal \in {"Data", "Ack"} => pad.pull = "up"
                /\ signal = "Att" => pad.func = "sio" /\ pad.sio_oe
                /\ signal \in {"Cmd", "Clk"} => pad.func = "pio" /\ pad.pio_oe
<1>1. PICK calls : calls = Boot["master"][RowOf("master", signal)] OBVIOUS
<1>2. PICK n \in 0 .. Len(calls) :
        /\ pad = AfterCalls(ResetPad(latch), calls, n)
        /\ at = LastPlace["master"] => n = Len(calls)
  BY <1>1, ThePad, Rows
<1>3. CASE signal \in {"Data", "Ack"}
  <2>1. calls = <<"gpio_init", "gpio_pull_up">> BY <1>1, <1>3, Rows, Calls
  <2>2. Len(calls) = 2 BY <2>1
  <2>3. pad \in Pad /\ Driven(pad) = "released" /\ (n = 2 => pad.pull = "up")
    BY <1>2, <2>1, <2>2, InputPads
  <2> QED BY <1>2, <1>3, <2>2, <2>3
<1>4. CASE signal = "Att"
  <2>1. calls = <<"gpio_init", "gpio_put", "gpio_set_dir">> BY <1>1, <1>4, Rows, Calls
  <2>2. Len(calls) = 3 BY <2>1
  <2>3. /\ pad \in Pad /\ Driven(pad) \in {"released", "high"}
        /\ (n = 3 => pad.func = "sio" /\ pad.sio_oe)
    BY <1>2, <2>1, <2>2, AttPads
  <2> QED BY <1>2, <1>4, <2>2, <2>3
<1>5. CASE signal \in {"Cmd", "Clk"}
  <2>1. calls = <<"pio_set_pins", "pio_set_pindirs", "pio_gpio_init">> BY <1>1, <1>5, Rows, Calls
  <2>2. Len(calls) = 3 BY <2>1
  <2>3. /\ pad \in Pad /\ Driven(pad) \in {"released", "high"}
        /\ (n = 3 => pad.func = "pio" /\ pad.pio_oe)
    BY <1>2, <2>1, <2>2, ProgramPads
  <2> QED BY <1>2, <1>5, <2>2, <2>3
<1> QED BY <1>3, <1>4, <1>5 DEF Signal

(* The emulator's. *)
LEMMA EmulatorPadsAt ==
    ASSUME NEW at \in Places("emulator"), NEW latch \in Latch, NEW signal \in Signal,
           NEW pad, pad = PadsAt("emulator", latch, at)[signal]
    PROVE  /\ pad \in Pad
           /\ signal \in {"Att", "Cmd", "Clk"} => Driven(pad) = "released"
           /\ signal \in {"Data", "Ack"} => Driven(pad) # "high"
           /\ at = LastPlace["emulator"] /\ signal \in {"Data", "Ack"} =>
                pad.func = "pio" /\ pad.is_low
<1>1. PICK calls : calls = Boot["emulator"][RowOf("emulator", signal)] OBVIOUS
<1>2. PICK n \in 0 .. Len(calls) :
        /\ pad = AfterCalls(ResetPad(latch), calls, n)
        /\ at = LastPlace["emulator"] => n = Len(calls)
  BY <1>1, ThePad, Rows
<1>3. CASE signal \in {"Att", "Cmd", "Clk"}
  <2>1. calls = <<"gpio_init", "gpio_disable_pulls">> BY <1>1, <1>3, Rows, Calls
  <2>2. Len(calls) = 2 BY <2>1
  <2> QED BY <1>2, <1>3, <2>1, <2>2, EmulatorInputPads
<1>4. CASE signal \in {"Data", "Ack"}
  <2>1. calls = <<"pio_clear_pindirs", "pio_gpio_init", "gpio_set_outover">>
    BY <1>1, <1>4, Rows, Calls
  <2>2. Len(calls) = 3 BY <2>1
  <2>3. pad \in Pad /\ Driven(pad) # "high" /\ (n = 3 => pad.func = "pio" /\ pad.is_low)
    BY <1>2, <2>1, <2>2, OpenDrainPads
  <2> QED BY <1>2, <1>4, <2>2, <2>3
<1> QED BY <1>3, <1>4 DEF Signal

-----------------------------------------------------------------------------
(* The master is somewhere in its boot, or has it behind it. *)
InPlace == booted \in Places("master")

(* A row and no more calls than it has are a place of the master's boot. *)
LEMMA PlacesAre ==
    ASSUME NEW row \in 1 .. 5, NEW n \in Nat,
           NEW l \in {2, 3}, Len(Boot["master"][row]) = l, n <= l
    PROVE  <<row, n>> \in Places("master")
<1>1. n \in 0 .. 3 OBVIOUS
<1>2. PICK at : at = <<row, n>> OBVIOUS
<1>3. at \in (1 .. 5) \X (0 .. 3) /\ at[1] = row /\ at[2] = n BY <1>1, <1>2
<1> QED BY <1>2, <1>3, Rows DEF Places

(* The place after a place that is not the last. *)
LEMMA NextPlaces ==
    ASSUME NEW at \in Places("master"), at # LastPlace["master"]
    PROVE  NextPlace("master", at) \in Places("master")
<1>1. at \in (1 .. 5) \X (0 .. 3) /\ at[2] <= Len(Boot["master"][at[1]])
  BY Rows DEF Places
<1>2. PICK row \in 1 .. 5, n \in 0 .. 3 : at = <<row, n>> BY <1>1
<1>3. at[1] = row /\ at[2] = n BY <1>2
<1>4. PICK l : l = Len(Boot["master"][row]) /\ l \in {2, 3} BY CallCounts
<1>5. CASE n < l
  <2>1. NextPlace("master", at) = <<row, n + 1>> BY <1>3, <1>4, <1>5 DEF NextPlace
  <2>2. n + 1 \in Nat /\ n + 1 <= l BY <1>4, <1>5
  <2> QED BY <1>4, <2>1, <2>2, PlacesAre
<1>6. CASE ~(n < l)
  <2>1. NextPlace("master", at) = <<row + 1, 1>> BY <1>3, <1>4, <1>6 DEF NextPlace
  <2>2. n = l BY <1>1, <1>3, <1>4, <1>6
  <2>3. row # 5
    <3>1. Len(Boot["master"][5]) = 2 BY CallCounts
    <3> QED BY <1>2, <1>4, <2>2, <3>1, LastPlaces
  <2>4. row + 1 \in 1 .. 5 /\ 1 \in Nat BY <2>3
  <2>5. PICK m : m = Len(Boot["master"][row + 1]) /\ m \in {2, 3} BY <2>4, CallCounts
  <2>6. 1 <= m BY <2>5
  <2> QED BY <2>1, <2>4, <2>5, <2>6, PlacesAre
<1> QED BY <1>5, <1>6

(* The first and the last. *)
LEMMA EndPlaces == FirstPlace \in Places("master") /\ LastPlace["master"] \in Places("master")
<1>1. Len(Boot["master"][1]) = 2 /\ Len(Boot["master"][5]) = 2 BY CallCounts
<1>2. 1 \in 1 .. 5 /\ 5 \in 1 .. 5 /\ 0 \in Nat /\ 2 \in Nat OBVIOUS
<1>3. 0 <= 2 /\ 2 <= 2 /\ 2 \in {2, 3} OBVIOUS
<1>4. <<1, 0>> \in Places("master") /\ <<5, 2>> \in Places("master")
  BY <1>1, <1>2, <1>3, PlacesAre
<1> QED BY <1>4, LastPlaces DEF FirstPlace

(* Every boot starts at the first place, and no call leads out of the table. *)
LEMMA AlwaysInPlace == ResetSpec => []InPlace
<1>1. ResetInit => InPlace BY EndPlaces DEF ResetInit, InPlace
<1>2. InPlace /\ [ResetNext]_resetVars => InPlace'
  <2> SUFFICES ASSUME InPlace, [ResetNext]_resetVars PROVE InPlace'
    OBVIOUS
  <2>1. LoseMaster => InPlace' BY EndPlaces DEF LoseMaster, MasterBooting, InPlace
  <2>2. BootMaster => InPlace' BY NextPlaces DEF BootMaster, MasterBooting, MasterRuns, InPlace
  <2>3. ~LoseMaster /\ ~BootMaster => booted' = booted
    BY DEF ResetNext, MasterStep, GiveUp, LoseEmulator, PowerEmulator, BootEmulator, Judge, Select,
           PrintEnds, EmulatorStep, BusTick, resetVars
  <2> QED BY <2>1, <2>2, <2>3 DEF InPlace
<1> QED BY <1>1, <1>2, PTL DEF ResetSpec

(* Whatever is on the bus when the master boots, and whatever its latches   *)
(* held, no line of it is low on its way to idle.                           *)
THEOREM BootsIdleAlways == ResetSpec => []BootsIdle
<1>1. InPlace => BootsIdle
  <2>1. SUFFICES ASSUME InPlace, ~MasterRuns, NEW latch \in Latch, NEW signal \in Signal
                 PROVE  Driven(MasterPads(latch)[signal]) # "low"
    BY DEF BootsIdle
  <2>2. MasterPads(latch) = PadsAt("master", latch, booted) BY <2>1 DEF MasterPads
  <2>3. Driven(PadsAt("master", latch, booted)[signal]) \in {"released", "high"}
    BY <2>1, MasterPadsAt DEF Signal, InPlace
  <2> QED BY <2>2, <2>3
<1> QED BY <1>1, AlwaysInPlace, PTL

(* The pads of a master that runs: no signal of the program's changes which *)
(* it drives. *)
LEMMA RunningPads ==
    ASSUME NEW latch \in Latch, MasterRuns, NEW signal \in Signal,
           NEW pad, pad = MasterPads(latch)[signal]
    PROVE  /\ signal \in {"Data", "Ack"} => Driven(pad) = "released" /\ pad.pull = "up"
           /\ signal \in {"Att", "Cmd", "Clk"} => Driven(pad) # "released"
<1>1. booted = LastPlace["master"] /\ booted \in Places("master")
  BY EndPlaces DEF MasterRuns
<1>2. PICK pads : pads = PadsAt("master", latch, booted) OBVIOUS
<1>3. pads = [s \in Signal |-> pads[s]]
  <2>1. booted[1] \in DOMAIN Boot["master"] /\ booted[2] \in 0 .. Len(Boot["master"][booted[1]])
    BY <1>1 DEF Places
  <2> QED BY <1>1, <1>2, <2>1, Rows DEF PadsAt, PadTable, Latch
<1>4. MasterPads(latch) = [pads EXCEPT !["Att"].sio_out = IF att_is_high THEN 1 ELSE 0,
                                       !["Cmd"].pio_out = master.cmd,
                                       !["Clk"].pio_out = master.clk]
  BY <1>2 DEF MasterPads
<1>5. CASE signal \in {"Data", "Ack"}
  <2>1. pad = pads[signal] BY <1>3, <1>4, <1>5
  <2> QED BY <1>1, <1>2, <1>5, <2>1, MasterPadsAt
<1>6. CASE signal = "Att"
  <2>1. pad = [pads["Att"] EXCEPT !.sio_out = IF att_is_high THEN 1 ELSE 0]
    BY <1>3, <1>4, <1>6 DEF Signal
  <2>2. pads["Att"].func = "sio" /\ pads["Att"].sio_oe BY <1>1, <1>2, MasterPadsAt DEF Signal
  <2>3. pads["Att"] \in Pad BY <1>1, <1>2, MasterPadsAt DEF Signal
  <2>4. pad.func = "sio" /\ pad.sio_oe BY <2>1, <2>2, <2>3 DEF Pad
  <2> QED BY <1>6, <2>4 DEF Driven
<1>7. CASE signal \in {"Cmd", "Clk"}
  <2>1. \E level : pad = [pads[signal] EXCEPT !.pio_out = level]
    <3>1. CASE signal = "Cmd"
      <4>1. pad = [pads["Cmd"] EXCEPT !.pio_out = master.cmd] BY <1>3, <1>4, <3>1 DEF Signal
      <4> QED BY <3>1, <4>1
    <3>2. CASE signal = "Clk"
      <4>1. pad = [pads["Clk"] EXCEPT !.pio_out = master.clk] BY <1>3, <1>4, <3>2 DEF Signal
      <4> QED BY <3>2, <4>1
    <3> QED BY <1>7, <3>1, <3>2
  <2>2. pads[signal].func = "pio" /\ pads[signal].pio_oe
    BY <1>1, <1>2, <1>7, MasterPadsAt DEF Signal
  <2>3. pads[signal] \in Pad BY <1>1, <1>2, MasterPadsAt
  <2>4. pad.func = "pio" /\ pad.pio_oe BY <2>1, <2>2, <2>3 DEF Pad
  <2> QED BY <1>7, <2>4 DEF Driven
<1> QED BY <1>5, <1>6, <1>7 DEF Signal

(* The emulator's pads are those of its boot, or once it runs drive no wire *)
(* but DATA and ACK, and these not high, whatever the program says.         *)
LEMMA EmulatorDrives ==
    ASSUME NEW signal \in Signal, NEW theirs \in EmulatorLevels(signal)
    PROVE  /\ signal \in {"Att", "Cmd", "Clk"} => theirs = "released"
           /\ signal \in {"Data", "Ack"} => theirs # "high"
<1>1. CASE ~EmulatorRuns
  <2>1. PICK latch \in Latch, at \in Places("emulator") :
          theirs = Driven(PadsAt("emulator", latch, at)[signal])
    BY <1>1 DEF EmulatorLevels, DownLevels
  <2> QED BY <2>1, EmulatorPadsAt
<1>2. CASE EmulatorRuns
  <2>1. PICK latch \in Latch : theirs = Driven(RunPad(signal, latch))
    BY <1>2 DEF EmulatorLevels
  <2>2. LastPlace["emulator"] \in Places("emulator")
    <3>1. Len(Boot["emulator"][5]) = 3 BY CallCounts
    <3>2. PICK at : at = <<5, 3>> OBVIOUS
    <3>3. at \in (1 .. 5) \X (0 .. 3) /\ at[1] = 5 /\ at[2] = 3 BY <3>2
    <3> QED BY <3>1, <3>2, <3>3, LastPlaces, Rows DEF Places
  <2>3. PICK pad : pad = PadsAt("emulator", latch, LastPlace["emulator"])[signal] OBVIOUS
  <2>4. CASE signal \in {"Data", "Ack"}
    <3>1. pad \in Pad /\ pad.func = "pio" /\ pad.is_low
      BY <2>2, <2>3, <2>4, EmulatorPadsAt
    <3>2. \E level : RunPad(signal, latch) = [pad EXCEPT !.pio_oe = level]
      BY <2>3, <2>4 DEF RunPad
    <3>3. RunPad(signal, latch).func = "pio" /\ RunPad(signal, latch).is_low
      BY <3>1, <3>2 DEF Pad
    <3> QED BY <2>1, <2>4, <3>3 DEF Driven
  <2>5. CASE signal \in {"Att", "Cmd", "Clk"}
    <3>1. RunPad(signal, latch) = pad BY <2>3, <2>5 DEF RunPad
    <3> QED BY <2>1, <2>2, <2>3, <2>5, <3>1, EmulatorPadsAt
  <2> QED BY <2>4, <2>5 DEF Signal
<1> QED BY <1>1, <1>2

(* However the two boots fall, and whatever was lost when, no wire has two  *)
(* levels, DATA and ACK are not driven high, and once the master runs every *)
(* wire has a level.                                                        *)
THEOREM OneLevelAlways == ResetSpec => []OneLevelPerWire
<1>1. InPlace => OneLevelPerWire
  <2>1. SUFFICES ASSUME InPlace, NEW latch \in Latch, NEW signal \in Signal,
                        NEW pad, pad = MasterPads(latch)[signal]
                 PROVE  /\ \A theirs \in EmulatorLevels(signal) :
                            /\ Driven(pad) = "released" \/ theirs = "released"
                            /\ signal \in {"Data", "Ack"} => "high" \notin {Driven(pad), theirs}
                        /\ MasterRuns => Driven(pad) # "released" \/ pad.pull = "up"
    BY DEF OneLevelPerWire
  <2>2. signal \in {"Data", "Ack"} => Driven(pad) = "released"
    <3>1. ~MasterRuns => MasterPads(latch) = PadsAt("master", latch, booted) BY DEF MasterPads
    <3> QED BY <2>1, <3>1, MasterPadsAt, RunningPads DEF InPlace
  <2>3. MasterRuns => Driven(pad) # "released" \/ pad.pull = "up"
    BY <2>1, RunningPads DEF Signal
  <2>4. signal \in {"Data", "Ack"} \/ signal \in {"Att", "Cmd", "Clk"} BY DEF Signal
  <2> QED BY <2>2, <2>3, <2>4, EmulatorDrives
<1> QED BY <1>1, AlwaysInPlace, PTL
=============================================================================
