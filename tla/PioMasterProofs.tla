-------------------------- MODULE PioMasterProofs --------------------------
(***************************************************************************)
(* Lemmas about the master's PIO program, for every width of a byte: what   *)
(* one instruction does to what the program holds, and MasterAtTick, what   *)
(* it holds at each instruction of the word that it sends.  The proofs of   *)
(* the two bus modules and of the loopback firmware cite them.              *)
(***************************************************************************)
EXTENDS PioMaster, SequenceTheorems, TLAPS


(* The widths as numbers. *)
LEMMA Widths ==
    /\ kWireBitsPerByte \in Nat /\ kWireBitsPerByte >= 1
    /\ kCyclesPerUs \in Nat /\ kCyclesPerUs >= 1
BY WireBitsAssumption, CyclesAssumption

-----------------------------------------------------------------------------
(* What is left of a word, and what has come of one. *)
LEMMA Rest ==
    ASSUME NEW S, NEW s \in Seq(S), NEW i \in 1 .. Len(s)
    PROVE  /\ SubSeq(s, i, Len(s)) \in Seq(S) /\ SubSeq(s, i, Len(s)) # <<>>
           /\ Head(SubSeq(s, i, Len(s))) = s[i]
           /\ Tail(SubSeq(s, i, Len(s))) = SubSeq(s, i + 1, Len(s))
<1>1. PICK t : t = SubSeq(s, i, Len(s)) OBVIOUS
<1>2. Len(s) \in Nat OBVIOUS
<1>3. t \in Seq(S) /\ Len(t) = Len(s) - i + 1 /\ \A j \in 1 .. Len(t) : t[j] = s[i + j - 1]
  BY <1>1, <1>2
<1>4. t # <<>> /\ Head(t) = s[i]
  BY <1>3, <1>2
<1>5. PICK u : u = SubSeq(s, i + 1, Len(s)) OBVIOUS
<1>6. u \in Seq(S) /\ Len(u) = Len(s) - i /\ \A j \in 1 .. Len(u) : u[j] = s[i + j]
  BY <1>5, <1>2
<1>7. Tail(t) \in Seq(S) /\ Len(Tail(t)) = Len(s) - i
      /\ \A j \in 1 .. Len(Tail(t)) : Tail(t)[j] = t[j + 1]
  BY <1>3, <1>4, HeadTailProperties
<1>8. Tail(t) = u
  <2>1. ASSUME NEW j \in 1 .. Len(u) PROVE Tail(t)[j] = u[j]
    <3>1. j \in 1 .. Len(Tail(t)) /\ j + 1 \in 1 .. Len(t) BY <1>2, <1>3, <1>6, <1>7
    <3>2. Tail(t)[j] = t[j + 1] BY <3>1, <1>7
    <3>3. t[j + 1] = s[i + (j + 1) - 1] BY <3>1, <1>3
    <3>4. i + (j + 1) - 1 = i + j BY <1>2, <3>1
    <3> QED BY <3>2, <3>3, <3>4, <1>6
  <2> QED BY <2>1, <1>6, <1>7, SeqEqual
<1> QED BY <1>1, <1>3, <1>4, <1>5, <1>8

(* A prefix and the item after it are the next prefix. *)
LEMMA Grown ==
    ASSUME NEW S, NEW s \in Seq(S), NEW i \in 0 .. Len(s) - 1
    PROVE  Append(SubSeq(s, 1, i), s[i + 1]) = SubSeq(s, 1, i + 1)
<1>1. PICK t : t = SubSeq(s, 1, i) OBVIOUS
<1>2. Len(s) \in Nat OBVIOUS
<1>3. t \in Seq(S) /\ Len(t) = i /\ \A j \in 1 .. i : t[j] = s[j]
  BY <1>1, <1>2
<1>4. PICK u : u = SubSeq(s, 1, i + 1) OBVIOUS
<1>5. u \in Seq(S) /\ Len(u) = i + 1 /\ \A j \in 1 .. i + 1 : u[j] = s[j]
  BY <1>4, <1>2
<1>6. PICK v : v = Append(t, s[i + 1]) OBVIOUS
<1>7. v \in Seq(S) /\ Len(v) = i + 1 /\ \A j \in 1 .. i + 1 : v[j] = s[j]
  BY <1>3, <1>6, <1>2
<1>8. u = v
  BY <1>5, <1>7, SeqEqual
<1> QED BY <1>1, <1>4, <1>6, <1>8

(* A byte as a sequence of bits. *)
LEMMA AByte ==
    ASSUME NEW byte \in Bits
    PROVE  /\ byte \in Seq(Bit) /\ Len(byte) = kWireBitsPerByte
           /\ \A i \in 1 .. kWireBitsPerByte : byte[i] \in Bit
           /\ SubSeq(byte, 1, kWireBitsPerByte) = byte
           /\ SubSeq(byte, 1, 0) = <<>>
<1>1. byte \in Seq(Bit) /\ Len(byte) = kWireBitsPerByte
      /\ \A i \in 1 .. kWireBitsPerByte : byte[i] \in Bit
  BY Widths DEF Bits
<1>2. PICK t : t = SubSeq(byte, 1, kWireBitsPerByte) OBVIOUS
<1>3. t \in Seq(Bit) /\ Len(t) = kWireBitsPerByte
      /\ \A j \in 1 .. kWireBitsPerByte : t[j] = byte[j]
  BY <1>1, <1>2, Widths
<1>4. t = byte
  BY <1>1, <1>3, SeqEqual
<1>5. SubSeq(byte, 1, 0) = <<>>
  BY <1>1, Widths
<1> QED BY <1>1, <1>2, <1>4, <1>5

(* The byte of a released wire is all ones. *)
LEMMA ReleasedIsByte == kReleasedByte \in Bits /\ \A i \in 1 .. kWireBitsPerByte : kReleasedByte[i] = 1
BY DEF kReleasedByte, Bits, Bit

(* A word of the master: the byte's bits, and the flag. *)
OutWord(byte, flag) == byte \o <<flag>>

(* The master's word: the byte's bits, and then the flag. *)
LEMMA AnOutWord ==
    ASSUME NEW byte \in Bits, NEW flag \in Bit
    PROVE  /\ OutWord(byte, flag) \in Seq(Bit)
           /\ Len(OutWord(byte, flag)) = kWireBitsPerByte + 1
           /\ \A i \in 1 .. kWireBitsPerByte : OutWord(byte, flag)[i] = byte[i]
           /\ OutWord(byte, flag)[kWireBitsPerByte + 1] = flag
           /\ SubSeq(OutWord(byte, flag), 1, kWireBitsPerByte + 1) = OutWord(byte, flag)
<1>1. byte \in Seq(Bit) /\ Len(byte) = kWireBitsPerByte BY AByte
<1>2. PICK w : w = byte \o <<flag>> OBVIOUS
<1>3. <<flag>> \in Seq(Bit) /\ Len(<<flag>>) = 1 /\ <<flag>>[1] = flag OBVIOUS
<1>4. w \in Seq(Bit) /\ Len(w) = kWireBitsPerByte + 1
      /\ \A i \in 1 .. kWireBitsPerByte : w[i] = byte[i]
  BY <1>1, <1>2, <1>3, ConcatProperties, Widths
<1>5. w[kWireBitsPerByte + 1] = flag
  BY <1>1, <1>2, <1>3, ConcatProperties, Widths
<1>6. PICK t : t = SubSeq(w, 1, kWireBitsPerByte + 1) OBVIOUS
<1>7. t \in Seq(Bit) /\ Len(t) = kWireBitsPerByte + 1
      /\ \A j \in 1 .. kWireBitsPerByte + 1 : t[j] = w[j]
  BY <1>4, <1>6, Widths
<1>8. t = w BY <1>4, <1>7, SeqEqual
<1> QED BY <1>2, <1>4, <1>5, <1>6, <1>8 DEF OutWord

-----------------------------------------------------------------------------
(* The master's program: `pull` with nothing to send keeps waiting ... *)
LEMMA MasterPullsNone ==
    ASSUME NEW m \in MasterSm, NEW d \in Bit, NEW a \in Bit,
           m.wait = 0, m.pc = "pull", m.tx = <<>>
    PROVE  LET e == MasterCycle(m, d, a)
           IN  /\ e \in MasterSm /\ e.wait = kCyclesPerUs - 1 /\ e.pc = m.pc /\ e.x = m.x /\ e.y = m.y
               /\ e.osr = m.osr /\ e.isr = m.isr /\ e.tx = m.tx
               /\ e.rx = m.rx /\ e.clk = 1 /\ e.cmd = m.cmd
<1>1. PICK w \in 0 .. 2 * kCyclesPerUs - 1 : w = kCyclesPerUs - 1 BY Widths
<1>2. PICK e : e = MasterCycle(m, d, a) OBVIOUS
<1>3. PICK f : f = [m EXCEPT !.clk = 1] OBVIOUS
<1>4. MasterExecuted(m, d, a) = f
  BY <1>3 DEF MasterExecuted, Pulled
<1>5. e = [f EXCEPT !.wait = w]
  BY <1>1, <1>2, <1>4, Widths DEF MasterCycle, Lasts
<1>6. f \in MasterSm /\ f.pc = m.pc /\ f.x = m.x /\ f.y = m.y /\ f.osr = m.osr /\ f.isr = m.isr
      /\ f.tx = m.tx /\ f.rx = m.rx /\ f.clk = 1 /\ f.cmd = m.cmd
  BY <1>3, Widths, ZenonT(60) DEF MasterSm, Bit
<1>7. e \in MasterSm /\ e.wait = w /\ e.pc = f.pc /\ e.x = f.x /\ e.y = f.y /\ e.osr = f.osr
      /\ e.isr = f.isr /\ e.tx = f.tx /\ e.rx = f.rx /\ e.clk = f.clk /\ e.cmd = f.cmd
  BY <1>1, <1>5, <1>6 DEF MasterSm
<1> QED BY <1>1, <1>2, <1>6, <1>7

(* ... and takes the word otherwise. *)
LEMMA MasterPulls ==
    ASSUME NEW m \in MasterSm, NEW d \in Bit, NEW a \in Bit,
           m.wait = 0, m.pc = "pull", m.tx # <<>>
    PROVE  LET e == MasterCycle(m, d, a)
           IN  /\ e \in MasterSm /\ e.wait = kCyclesPerUs - 1 /\ e.pc = "set_x" /\ e.x = m.x /\ e.y = m.y
               /\ e.osr = Head(m.tx) /\ e.isr = m.isr /\ e.tx = Tail(m.tx)
               /\ e.rx = m.rx /\ e.clk = 1 /\ e.cmd = m.cmd
<1>1. PICK w \in 0 .. 2 * kCyclesPerUs - 1 : w = kCyclesPerUs - 1 BY Widths
<1>2. PICK e : e = MasterCycle(m, d, a) OBVIOUS
<1>3. PICK n_osr \in Seq(Bit) : n_osr = Head(m.tx)
  <2>1. m.tx \in Seq(Seq(Bit)) BY DEF MasterSm
  <2>2. Head(m.tx) \in Seq(Bit) BY <2>1, HeadTailProperties
  <2> QED BY <2>2
<1>4. PICK n_tx \in Seq(Seq(Bit)) : n_tx = Tail(m.tx)
  <2>1. m.tx \in Seq(Seq(Bit)) BY DEF MasterSm
  <2>2. Tail(m.tx) \in Seq(Seq(Bit)) BY <2>1, HeadTailProperties
  <2> QED BY <2>2
<1>5. PICK f : f = [m EXCEPT !.clk = 1, !.osr = n_osr, !.tx = n_tx, !.pc = "set_x"] OBVIOUS
<1>6. MasterExecuted(m, d, a) = f
  BY <1>3, <1>4, <1>5 DEF MasterExecuted, Pulled
<1>7. e = [f EXCEPT !.wait = w]
  BY <1>1, <1>2, <1>6, Widths DEF MasterCycle, Lasts
<1>8. f \in MasterSm /\ f.pc = "set_x" /\ f.x = m.x /\ f.y = m.y /\ f.osr = n_osr /\ f.isr = m.isr
      /\ f.tx = n_tx /\ f.rx = m.rx /\ f.clk = 1 /\ f.cmd = m.cmd
  BY <1>5, Widths, ZenonT(60) DEF MasterSm, Bit
<1>9. e \in MasterSm /\ e.wait = w /\ e.pc = f.pc /\ e.x = f.x /\ e.y = f.y /\ e.osr = f.osr
      /\ e.isr = f.isr /\ e.tx = f.tx /\ e.rx = f.rx /\ e.clk = f.clk /\ e.cmd = f.cmd
  BY <1>1, <1>7, <1>8 DEF MasterSm
<1> QED BY <1>1, <1>2, <1>3, <1>4, <1>8, <1>9

(* `set_x` loads the bit counter. *)
LEMMA MasterSetX ==
    ASSUME NEW m \in MasterSm, NEW d \in Bit, NEW a \in Bit,
           m.wait = 0, m.pc = "set_x"
    PROVE  LET e == MasterCycle(m, d, a)
           IN  /\ e \in MasterSm /\ e.wait = kCyclesPerUs - 1 /\ e.pc = "out" /\ e.x = kWireBitsPerByte - 1 /\ e.y = m.y
               /\ e.osr = m.osr /\ e.isr = m.isr /\ e.tx = m.tx
               /\ e.rx = m.rx /\ e.clk = m.clk /\ e.cmd = m.cmd
<1>1. PICK w \in 0 .. 2 * kCyclesPerUs - 1 : w = kCyclesPerUs - 1 BY Widths
<1>2. PICK e : e = MasterCycle(m, d, a) OBVIOUS
<1>3. PICK n_x \in 0 .. kWireBitsPerByte - 1 : n_x = kWireBitsPerByte - 1
  BY Widths
<1>4. PICK f : f = [m EXCEPT !.x = n_x, !.pc = "out"] OBVIOUS
<1>5. MasterExecuted(m, d, a) = f
  BY <1>3, <1>4 DEF MasterExecuted
<1>6. e = [f EXCEPT !.wait = w]
  BY <1>1, <1>2, <1>5, Widths DEF MasterCycle, Lasts
<1>7. f \in MasterSm /\ f.pc = "out" /\ f.x = n_x /\ f.y = m.y /\ f.osr = m.osr /\ f.isr = m.isr
      /\ f.tx = m.tx /\ f.rx = m.rx /\ f.clk = m.clk /\ f.cmd = m.cmd
  BY <1>4, Widths, ZenonT(60) DEF MasterSm, Bit
<1>8. e \in MasterSm /\ e.wait = w /\ e.pc = f.pc /\ e.x = f.x /\ e.y = f.y /\ e.osr = f.osr
      /\ e.isr = f.isr /\ e.tx = f.tx /\ e.rx = f.rx /\ e.clk = f.clk /\ e.cmd = f.cmd
  BY <1>1, <1>6, <1>7, ZenonT(60) DEF MasterSm
<1> QED BY <1>1, <1>2, <1>3, <1>7, <1>8

(* `out` lowers CLK and puts the next bit on CMD, for two cycles. *)
LEMMA MasterOut ==
    ASSUME NEW m \in MasterSm, NEW d \in Bit, NEW a \in Bit,
           m.wait = 0, m.pc = "out", m.osr # <<>>
    PROVE  LET e == MasterCycle(m, d, a)
           IN  /\ e \in MasterSm /\ e.wait = 2 * kCyclesPerUs - 1 /\ e.pc = "in" /\ e.x = m.x /\ e.y = m.y
               /\ e.osr = Tail(m.osr) /\ e.isr = m.isr /\ e.tx = m.tx
               /\ e.rx = m.rx /\ e.clk = 0 /\ e.cmd = Head(m.osr)
<1>1. PICK w \in 0 .. 2 * kCyclesPerUs - 1 : w = 2 * kCyclesPerUs - 1 BY Widths
<1>2. PICK e : e = MasterCycle(m, d, a) OBVIOUS
<1>3. PICK n_cmd \in Bit : n_cmd = Head(m.osr)
  <2>1. m.osr \in Seq(Bit) BY DEF MasterSm
  <2>2. Head(m.osr) \in Bit BY <2>1, HeadTailProperties
  <2> QED BY <2>2
<1>4. PICK n_osr \in Seq(Bit) : n_osr = Tail(m.osr)
  <2>1. m.osr \in Seq(Bit) BY DEF MasterSm
  <2>2. Tail(m.osr) \in Seq(Bit) BY <2>1, HeadTailProperties
  <2> QED BY <2>2
<1>5. PICK f : f = [m EXCEPT !.clk = 0, !.cmd = n_cmd, !.osr = n_osr, !.pc = "in"] OBVIOUS
<1>6. MasterExecuted(m, d, a) = f
  BY <1>3, <1>4, <1>5 DEF MasterExecuted
<1>7. e = [f EXCEPT !.wait = w]
  BY <1>1, <1>2, <1>6, Widths DEF MasterCycle, Lasts
<1>8. f \in MasterSm /\ f.pc = "in" /\ f.x = m.x /\ f.y = m.y /\ f.osr = n_osr /\ f.isr = m.isr
      /\ f.tx = m.tx /\ f.rx = m.rx /\ f.clk = 0 /\ f.cmd = n_cmd
  BY <1>5, Widths, ZenonT(60) DEF MasterSm, Bit
<1>9. e \in MasterSm /\ e.wait = w /\ e.pc = f.pc /\ e.x = f.x /\ e.y = f.y /\ e.osr = f.osr
      /\ e.isr = f.isr /\ e.tx = f.tx /\ e.rx = f.rx /\ e.clk = f.clk /\ e.cmd = f.cmd
  BY <1>1, <1>7, <1>8 DEF MasterSm
<1> QED BY <1>1, <1>2, <1>3, <1>4, <1>8, <1>9

(* `in` raises CLK and samples DATA. *)
LEMMA MasterIn ==
    ASSUME NEW m \in MasterSm, NEW d \in Bit, NEW a \in Bit,
           m.wait = 0, m.pc = "in"
    PROVE  LET e == MasterCycle(m, d, a)
           IN  /\ e \in MasterSm /\ e.wait = kCyclesPerUs - 1 /\ e.pc = "jmp_x" /\ e.x = m.x /\ e.y = m.y
               /\ e.osr = m.osr /\ e.isr = Append(m.isr, d) /\ e.tx = m.tx
               /\ e.rx = m.rx /\ e.clk = 1 /\ e.cmd = m.cmd
<1>1. PICK w \in 0 .. 2 * kCyclesPerUs - 1 : w = kCyclesPerUs - 1 BY Widths
<1>2. PICK e : e = MasterCycle(m, d, a) OBVIOUS
<1>3. PICK n_isr \in Seq(Bit) : n_isr = Append(m.isr, d)
  <2>1. m.isr \in Seq(Bit) BY DEF MasterSm
  <2>2. Append(m.isr, d) \in Seq(Bit) BY <2>1, AppendProperties
  <2> QED BY <2>2
<1>4. PICK f : f = [m EXCEPT !.clk = 1, !.isr = n_isr, !.pc = "jmp_x"] OBVIOUS
<1>5. MasterExecuted(m, d, a) = f
  BY <1>3, <1>4 DEF MasterExecuted
<1>6. e = [f EXCEPT !.wait = w]
  BY <1>1, <1>2, <1>5, Widths DEF MasterCycle, Lasts
<1>7. f \in MasterSm /\ f.pc = "jmp_x" /\ f.x = m.x /\ f.y = m.y /\ f.osr = m.osr /\ f.isr = n_isr
      /\ f.tx = m.tx /\ f.rx = m.rx /\ f.clk = 1 /\ f.cmd = m.cmd
  BY <1>4, Widths, ZenonT(60) DEF MasterSm, Bit
<1>8. e \in MasterSm /\ e.wait = w /\ e.pc = f.pc /\ e.x = f.x /\ e.y = f.y /\ e.osr = f.osr
      /\ e.isr = f.isr /\ e.tx = f.tx /\ e.rx = f.rx /\ e.clk = f.clk /\ e.cmd = f.cmd
  BY <1>1, <1>6, <1>7, ZenonT(60) DEF MasterSm
<1> QED BY <1>1, <1>2, <1>3, <1>7, <1>8

(* `jmp_x` goes on after the last bit ... *)
LEMMA MasterJmpsOn ==
    ASSUME NEW m \in MasterSm, NEW d \in Bit, NEW a \in Bit,
           m.wait = 0, m.pc = "jmp_x", m.x = 0
    PROVE  LET e == MasterCycle(m, d, a)
           IN  /\ e \in MasterSm /\ e.wait = kCyclesPerUs - 1 /\ e.pc = "out_y" /\ e.x = m.x /\ e.y = m.y
               /\ e.osr = m.osr /\ e.isr = m.isr /\ e.tx = m.tx
               /\ e.rx = m.rx /\ e.clk = m.clk /\ e.cmd = m.cmd
<1>1. PICK w \in 0 .. 2 * kCyclesPerUs - 1 : w = kCyclesPerUs - 1 BY Widths
<1>2. PICK e : e = MasterCycle(m, d, a) OBVIOUS
<1>3. PICK f : f = [m EXCEPT !.pc = "out_y"] OBVIOUS
<1>4. MasterExecuted(m, d, a) = f
  BY <1>3 DEF MasterExecuted
<1>5. e = [f EXCEPT !.wait = w]
  BY <1>1, <1>2, <1>4, Widths DEF MasterCycle, Lasts
<1>6. f \in MasterSm /\ f.pc = "out_y" /\ f.x = m.x /\ f.y = m.y /\ f.osr = m.osr /\ f.isr = m.isr
      /\ f.tx = m.tx /\ f.rx = m.rx /\ f.clk = m.clk /\ f.cmd = m.cmd
  BY <1>3, Widths, ZenonT(60) DEF MasterSm, Bit
<1>7. e \in MasterSm /\ e.wait = w /\ e.pc = f.pc /\ e.x = f.x /\ e.y = f.y /\ e.osr = f.osr
      /\ e.isr = f.isr /\ e.tx = f.tx /\ e.rx = f.rx /\ e.clk = f.clk /\ e.cmd = f.cmd
  BY <1>1, <1>5, <1>6 DEF MasterSm
<1> QED BY <1>1, <1>2, <1>6, <1>7

(* ... and back before it. *)
LEMMA MasterJmpsBack ==
    ASSUME NEW m \in MasterSm, NEW d \in Bit, NEW a \in Bit,
           m.wait = 0, m.pc = "jmp_x", m.x # 0
    PROVE  LET e == MasterCycle(m, d, a)
           IN  /\ e \in MasterSm /\ e.wait = kCyclesPerUs - 1 /\ e.pc = "out" /\ e.x = m.x - 1 /\ e.y = m.y
               /\ e.osr = m.osr /\ e.isr = m.isr /\ e.tx = m.tx
               /\ e.rx = m.rx /\ e.clk = m.clk /\ e.cmd = m.cmd
<1>1. PICK w \in 0 .. 2 * kCyclesPerUs - 1 : w = kCyclesPerUs - 1 BY Widths
<1>2. PICK e : e = MasterCycle(m, d, a) OBVIOUS
<1>3. PICK n_x \in 0 .. kWireBitsPerByte - 1 : n_x = m.x - 1
  BY Widths DEF MasterSm
<1>4. PICK f : f = [m EXCEPT !.x = n_x, !.pc = "out"] OBVIOUS
<1>5. MasterExecuted(m, d, a) = f
  BY <1>3, <1>4 DEF MasterExecuted
<1>6. e = [f EXCEPT !.wait = w]
  BY <1>1, <1>2, <1>5, Widths DEF MasterCycle, Lasts
<1>7. f \in MasterSm /\ f.pc = "out" /\ f.x = n_x /\ f.y = m.y /\ f.osr = m.osr /\ f.isr = m.isr
      /\ f.tx = m.tx /\ f.rx = m.rx /\ f.clk = m.clk /\ f.cmd = m.cmd
  BY <1>4, Widths, ZenonT(60) DEF MasterSm, Bit
<1>8. e \in MasterSm /\ e.wait = w /\ e.pc = f.pc /\ e.x = f.x /\ e.y = f.y /\ e.osr = f.osr
      /\ e.isr = f.isr /\ e.tx = f.tx /\ e.rx = f.rx /\ e.clk = f.clk /\ e.cmd = f.cmd
  BY <1>1, <1>6, <1>7, ZenonT(60) DEF MasterSm
<1> QED BY <1>1, <1>2, <1>3, <1>7, <1>8

(* `out_y` takes the flag. *)
LEMMA MasterOutY ==
    ASSUME NEW m \in MasterSm, NEW d \in Bit, NEW a \in Bit,
           m.wait = 0, m.pc = "out_y", m.osr # <<>>
    PROVE  LET e == MasterCycle(m, d, a)
           IN  /\ e \in MasterSm /\ e.wait = kCyclesPerUs - 1 /\ e.pc = "jmp_y" /\ e.x = m.x /\ e.y = Head(m.osr)
               /\ e.osr = Tail(m.osr) /\ e.isr = m.isr /\ e.tx = m.tx
               /\ e.rx = m.rx /\ e.clk = m.clk /\ e.cmd = m.cmd
<1>1. PICK w \in 0 .. 2 * kCyclesPerUs - 1 : w = kCyclesPerUs - 1 BY Widths
<1>2. PICK e : e = MasterCycle(m, d, a) OBVIOUS
<1>3. PICK n_y \in Bit : n_y = Head(m.osr)
  <2>1. m.osr \in Seq(Bit) BY DEF MasterSm
  <2>2. Head(m.osr) \in Bit BY <2>1, HeadTailProperties
  <2> QED BY <2>2
<1>4. PICK n_osr \in Seq(Bit) : n_osr = Tail(m.osr)
  <2>1. m.osr \in Seq(Bit) BY DEF MasterSm
  <2>2. Tail(m.osr) \in Seq(Bit) BY <2>1, HeadTailProperties
  <2> QED BY <2>2
<1>5. PICK f : f = [m EXCEPT !.y = n_y, !.osr = n_osr, !.pc = "jmp_y"] OBVIOUS
<1>6. MasterExecuted(m, d, a) = f
  BY <1>3, <1>4, <1>5 DEF MasterExecuted
<1>7. e = [f EXCEPT !.wait = w]
  BY <1>1, <1>2, <1>6, Widths DEF MasterCycle, Lasts
<1>8. f \in MasterSm /\ f.pc = "jmp_y" /\ f.x = m.x /\ f.y = n_y /\ f.osr = n_osr /\ f.isr = m.isr
      /\ f.tx = m.tx /\ f.rx = m.rx /\ f.clk = m.clk /\ f.cmd = m.cmd
  BY <1>5, Widths, ZenonT(60) DEF MasterSm, Bit
<1>9. e \in MasterSm /\ e.wait = w /\ e.pc = f.pc /\ e.x = f.x /\ e.y = f.y /\ e.osr = f.osr
      /\ e.isr = f.isr /\ e.tx = f.tx /\ e.rx = f.rx /\ e.clk = f.clk /\ e.cmd = f.cmd
  BY <1>1, <1>7, <1>8 DEF MasterSm
<1> QED BY <1>1, <1>2, <1>3, <1>4, <1>8, <1>9

(* `jmp_y` goes to the poll if the flag asks for it ... *)
LEMMA MasterGoesToAck ==
    ASSUME NEW m \in MasterSm, NEW d \in Bit, NEW a \in Bit,
           m.wait = 0, m.pc = "jmp_y", m.y = 1
    PROVE  LET e == MasterCycle(m, d, a)
           IN  /\ e \in MasterSm /\ e.wait = kCyclesPerUs - 1 /\ e.pc = "wait_ack" /\ e.x = m.x /\ e.y = m.y
               /\ e.osr = m.osr /\ e.isr = m.isr /\ e.tx = m.tx
               /\ e.rx = m.rx /\ e.clk = m.clk /\ e.cmd = m.cmd
<1>1. PICK w \in 0 .. 2 * kCyclesPerUs - 1 : w = kCyclesPerUs - 1 BY Widths
<1>2. PICK e : e = MasterCycle(m, d, a) OBVIOUS
<1>3. PICK f : f = [m EXCEPT !.pc = "wait_ack"] OBVIOUS
<1>4. MasterExecuted(m, d, a) = f
  BY <1>3 DEF MasterExecuted
<1>5. e = [f EXCEPT !.wait = w]
  BY <1>1, <1>2, <1>4, Widths DEF MasterCycle, Lasts
<1>6. f \in MasterSm /\ f.pc = "wait_ack" /\ f.x = m.x /\ f.y = m.y /\ f.osr = m.osr /\ f.isr = m.isr
      /\ f.tx = m.tx /\ f.rx = m.rx /\ f.clk = m.clk /\ f.cmd = m.cmd
  BY <1>3, Widths, ZenonT(60) DEF MasterSm, Bit
<1>7. e \in MasterSm /\ e.wait = w /\ e.pc = f.pc /\ e.x = f.x /\ e.y = f.y /\ e.osr = f.osr
      /\ e.isr = f.isr /\ e.tx = f.tx /\ e.rx = f.rx /\ e.clk = f.clk /\ e.cmd = f.cmd
  BY <1>1, <1>5, <1>6, ZenonT(60) DEF MasterSm
<1> QED BY <1>1, <1>2, <1>6, <1>7

(* ... and past it if not. *)
LEMMA MasterGoesToPush ==
    ASSUME NEW m \in MasterSm, NEW d \in Bit, NEW a \in Bit,
           m.wait = 0, m.pc = "jmp_y", m.y = 0
    PROVE  LET e == MasterCycle(m, d, a)
           IN  /\ e \in MasterSm /\ e.wait = kCyclesPerUs - 1 /\ e.pc = "push" /\ e.x = m.x /\ e.y = m.y
               /\ e.osr = m.osr /\ e.isr = m.isr /\ e.tx = m.tx
               /\ e.rx = m.rx /\ e.clk = m.clk /\ e.cmd = m.cmd
<1>1. PICK w \in 0 .. 2 * kCyclesPerUs - 1 : w = kCyclesPerUs - 1 BY Widths
<1>2. PICK e : e = MasterCycle(m, d, a) OBVIOUS
<1>3. PICK f : f = [m EXCEPT !.pc = "push"] OBVIOUS
<1>4. MasterExecuted(m, d, a) = f
  BY <1>3 DEF MasterExecuted
<1>5. e = [f EXCEPT !.wait = w]
  BY <1>1, <1>2, <1>4, Widths DEF MasterCycle, Lasts
<1>6. f \in MasterSm /\ f.pc = "push" /\ f.x = m.x /\ f.y = m.y /\ f.osr = m.osr /\ f.isr = m.isr
      /\ f.tx = m.tx /\ f.rx = m.rx /\ f.clk = m.clk /\ f.cmd = m.cmd
  BY <1>3, Widths, ZenonT(60) DEF MasterSm, Bit
<1>7. e \in MasterSm /\ e.wait = w /\ e.pc = f.pc /\ e.x = f.x /\ e.y = f.y /\ e.osr = f.osr
      /\ e.isr = f.isr /\ e.tx = f.tx /\ e.rx = f.rx /\ e.clk = f.clk /\ e.cmd = f.cmd
  BY <1>1, <1>5, <1>6 DEF MasterSm
<1> QED BY <1>1, <1>2, <1>6, <1>7

(* The poll repeats while ACK is high ... *)
LEMMA MasterWaitsForAck ==
    ASSUME NEW m \in MasterSm, NEW d \in Bit, NEW a \in Bit,
           m.wait = 0, m.pc = "wait_ack", a = 1
    PROVE  LET e == MasterCycle(m, d, a)
           IN  /\ e \in MasterSm /\ e.wait = kCyclesPerUs - 1 /\ e.pc = m.pc /\ e.x = m.x /\ e.y = m.y
               /\ e.osr = m.osr /\ e.isr = m.isr /\ e.tx = m.tx
               /\ e.rx = m.rx /\ e.clk = m.clk /\ e.cmd = m.cmd
<1>1. PICK w \in 0 .. 2 * kCyclesPerUs - 1 : w = kCyclesPerUs - 1 BY Widths
<1>2. PICK e : e = MasterCycle(m, d, a) OBVIOUS
<1>3. PICK f : f = m OBVIOUS
<1>4. MasterExecuted(m, d, a) = f
  BY <1>3 DEF MasterExecuted
<1>5. e = [f EXCEPT !.wait = w]
  BY <1>1, <1>2, <1>4, Widths DEF MasterCycle, Lasts
<1>6. f \in MasterSm /\ f.pc = m.pc /\ f.x = m.x /\ f.y = m.y /\ f.osr = m.osr /\ f.isr = m.isr
      /\ f.tx = m.tx /\ f.rx = m.rx /\ f.clk = m.clk /\ f.cmd = m.cmd
  BY <1>3, Widths, ZenonT(60) DEF MasterSm, Bit
<1>7. e \in MasterSm /\ e.wait = w /\ e.pc = f.pc /\ e.x = f.x /\ e.y = f.y /\ e.osr = f.osr
      /\ e.isr = f.isr /\ e.tx = f.tx /\ e.rx = f.rx /\ e.clk = f.clk /\ e.cmd = f.cmd
  BY <1>1, <1>5, <1>6 DEF MasterSm
<1> QED BY <1>1, <1>2, <1>6, <1>7

(* ... and ends when it is low. *)
LEMMA MasterSeesAck ==
    ASSUME NEW m \in MasterSm, NEW d \in Bit, NEW a \in Bit,
           m.wait = 0, m.pc = "wait_ack", a = 0
    PROVE  LET e == MasterCycle(m, d, a)
           IN  /\ e \in MasterSm /\ e.wait = kCyclesPerUs - 1 /\ e.pc = "push" /\ e.x = m.x /\ e.y = m.y
               /\ e.osr = m.osr /\ e.isr = m.isr /\ e.tx = m.tx
               /\ e.rx = m.rx /\ e.clk = m.clk /\ e.cmd = m.cmd
<1>1. PICK w \in 0 .. 2 * kCyclesPerUs - 1 : w = kCyclesPerUs - 1 BY Widths
<1>2. PICK e : e = MasterCycle(m, d, a) OBVIOUS
<1>3. PICK f : f = [m EXCEPT !.pc = "push"] OBVIOUS
<1>4. MasterExecuted(m, d, a) = f
  BY <1>3 DEF MasterExecuted
<1>5. e = [f EXCEPT !.wait = w]
  BY <1>1, <1>2, <1>4, Widths DEF MasterCycle, Lasts
<1>6. f \in MasterSm /\ f.pc = "push" /\ f.x = m.x /\ f.y = m.y /\ f.osr = m.osr /\ f.isr = m.isr
      /\ f.tx = m.tx /\ f.rx = m.rx /\ f.clk = m.clk /\ f.cmd = m.cmd
  BY <1>3, Widths, ZenonT(60) DEF MasterSm, Bit
<1>7. e \in MasterSm /\ e.wait = w /\ e.pc = f.pc /\ e.x = f.x /\ e.y = f.y /\ e.osr = f.osr
      /\ e.isr = f.isr /\ e.tx = f.tx /\ e.rx = f.rx /\ e.clk = f.clk /\ e.cmd = f.cmd
  BY <1>1, <1>5, <1>6 DEF MasterSm
<1> QED BY <1>1, <1>2, <1>6, <1>7

(* `push` puts the byte into an empty FIFO. *)
LEMMA MasterPushes ==
    ASSUME NEW m \in MasterSm, NEW d \in Bit, NEW a \in Bit,
           m.wait = 0, m.pc = "push", m.rx = <<>>, m.isr \in Bits
    PROVE  LET e == MasterCycle(m, d, a)
           IN  /\ e \in MasterSm /\ e.wait = kCyclesPerUs - 1 /\ e.pc = "pull" /\ e.x = m.x /\ e.y = m.y
               /\ e.osr = m.osr /\ e.isr = <<>> /\ e.tx = m.tx
               /\ e.rx = <<m.isr>> /\ e.clk = m.clk /\ e.cmd = m.cmd
<1>1. PICK w \in 0 .. 2 * kCyclesPerUs - 1 : w = kCyclesPerUs - 1 BY Widths
<1>2. PICK e : e = MasterCycle(m, d, a) OBVIOUS
<1>3. PICK n_rx \in Seq(Bits) : n_rx = <<m.isr>>
  <2>1. <<m.isr>> \in Seq(Bits) OBVIOUS
  <2> QED BY <2>1
<1>4. PICK n_isr \in Seq(Bit) : n_isr = <<>>
  <2>1. <<>> \in Seq(Bit) OBVIOUS
  <2> QED BY <2>1
<1>5. PICK f : f = [m EXCEPT !.rx = n_rx, !.isr = n_isr, !.pc = "pull"] OBVIOUS
<1>6. MasterExecuted(m, d, a) = f
  <2>1. ShiftedByte(m.isr) = m.isr
    <3>1. Len(m.isr) = kWireBitsPerByte /\ SubSeq(m.isr, 1, kWireBitsPerByte) = m.isr BY AByte
    <3>2. kWireBitsPerByte - kWireBitsPerByte + 1 = 1 BY Widths
    <3> QED BY <3>1, <3>2 DEF ShiftedByte
  <2>2. Len(m.rx) # kFifoDepth BY DEF kFifoDepth
  <2>3. Append(m.rx, ShiftedByte(m.isr)) = n_rx BY <1>3, <2>1
  <2>4. Pushed(m) = f BY <1>4, <1>5, <2>2, <2>3 DEF Pushed
  <2> QED BY <2>4 DEF MasterExecuted
<1>7. e = [f EXCEPT !.wait = w]
  BY <1>1, <1>2, <1>6, Widths DEF MasterCycle, Lasts
<1>8. f \in MasterSm /\ f.pc = "pull" /\ f.x = m.x /\ f.y = m.y /\ f.osr = m.osr /\ f.isr = n_isr
      /\ f.tx = m.tx /\ f.rx = n_rx /\ f.clk = m.clk /\ f.cmd = m.cmd
  BY <1>5, Widths, ZenonT(60) DEF MasterSm, Bit
<1>9. e \in MasterSm /\ e.wait = w /\ e.pc = f.pc /\ e.x = f.x /\ e.y = f.y /\ e.osr = f.osr
      /\ e.isr = f.isr /\ e.tx = f.tx /\ e.rx = f.rx /\ e.clk = f.clk /\ e.cmd = f.cmd
  BY <1>1, <1>7, <1>8 DEF MasterSm
<1> QED BY <1>1, <1>2, <1>3, <1>4, <1>8, <1>9

(* Between instructions only the delay runs. *)
LEMMA MasterWaits ==
    ASSUME NEW m \in MasterSm, NEW d \in Bit, NEW a \in Bit, m.wait # 0
    PROVE  LET e == MasterCycle(m, d, a)
           IN  /\ e \in MasterSm /\ e.wait = m.wait - 1 /\ e.pc = m.pc /\ e.x = m.x /\ e.y = m.y
               /\ e.osr = m.osr /\ e.isr = m.isr /\ e.tx = m.tx
               /\ e.rx = m.rx /\ e.clk = m.clk /\ e.cmd = m.cmd
<1>1. PICK w \in 0 .. 2 * kCyclesPerUs - 1 : w = m.wait - 1 BY Widths DEF MasterSm
<1>2. PICK e : e = MasterCycle(m, d, a) OBVIOUS
<1>3. m.wait > 0 BY Widths DEF MasterSm
<1>4. e = [m EXCEPT !.wait = w]
  BY <1>1, <1>2, <1>3 DEF MasterCycle
<1>5. e \in MasterSm /\ e.wait = w /\ e.pc = m.pc /\ e.x = m.x /\ e.y = m.y /\ e.osr = m.osr
      /\ e.isr = m.isr /\ e.tx = m.tx /\ e.rx = m.rx /\ e.clk = m.clk /\ e.cmd = m.cmd
  BY <1>4 DEF MasterSm
<1> QED BY <1>1, <1>2, <1>5

(* What the master's program holds at each instruction. *)
MasterAt(m, byte, flag) ==
    /\ m.clk = (IF m.pc = "in" THEN 0 ELSE 1)
    /\ m.pc # "in" => m.wait < kCyclesPerUs
    /\ m.pc = "pull" => m.isr = <<>>
    /\ m.pc # "pull" => m.tx = <<>> /\ m.rx = <<>>
    /\ m.pc = "set_x" => m.isr = <<>> /\ m.osr = OutWord(byte, flag)
    /\ m.pc = "out" =>
          /\ Len(m.isr) < kWireBitsPerByte /\ m.x = kWireBitsPerByte - 1 - Len(m.isr)
          /\ m.osr = SubSeq(OutWord(byte, flag), Len(m.isr) + 1, kWireBitsPerByte + 1)
    /\ m.pc = "in" =>
          /\ Len(m.isr) < kWireBitsPerByte /\ m.x = kWireBitsPerByte - 1 - Len(m.isr)
          /\ m.osr = SubSeq(OutWord(byte, flag), Len(m.isr) + 2, kWireBitsPerByte + 1)
          /\ m.cmd = byte[Len(m.isr) + 1]
    /\ m.pc = "jmp_x" =>
          /\ Len(m.isr) \in 1 .. kWireBitsPerByte /\ m.x = kWireBitsPerByte - Len(m.isr)
          /\ m.osr = SubSeq(OutWord(byte, flag), Len(m.isr) + 1, kWireBitsPerByte + 1)
          /\ m.cmd = byte[Len(m.isr)]
    /\ m.pc \in {"out_y", "jmp_y", "wait_ack", "push"} => Len(m.isr) = kWireBitsPerByte
    /\ m.pc = "out_y" => m.osr = SubSeq(OutWord(byte, flag), kWireBitsPerByte + 1, kWireBitsPerByte + 1)
    /\ m.pc = "jmp_y" => m.y = flag
    /\ m.pc = "wait_ack" => flag = 1

(* What a tick does to the program counter, the bits read and the FIFOs. *)
MasterGoes(m, e, d, a, flag) ==
    \/ /\ m.wait # 0 /\ e.wait = m.wait - 1
       /\ e.pc = m.pc /\ e.isr = m.isr /\ e.tx = m.tx /\ e.rx = m.rx
    \/ /\ m.wait = 0 /\ e.wait = (IF m.pc = "out" THEN 2 * kCyclesPerUs ELSE kCyclesPerUs) - 1
       /\ m.pc # "in" /\ m.pc # "push" => e.isr = m.isr
       /\ m.pc # "push" => e.rx = m.rx
       /\ \/ m.pc = "pull" /\ m.tx = <<>> /\ e.pc = "pull" /\ e.tx = <<>>
          \/ m.pc = "pull" /\ m.tx # <<>> /\ e.pc = "set_x"
          \/ m.pc = "set_x" /\ e.pc = "out"
          \/ m.pc = "out" /\ e.pc = "in"
          \/ m.pc = "in" /\ e.pc = "jmp_x" /\ e.isr = Append(m.isr, d)
          \/ m.pc = "jmp_x" /\ Len(m.isr) = kWireBitsPerByte /\ e.pc = "out_y"
          \/ m.pc = "jmp_x" /\ Len(m.isr) < kWireBitsPerByte /\ e.pc = "out"
          \/ m.pc = "out_y" /\ e.pc = "jmp_y"
          \/ m.pc = "jmp_y" /\ flag = 1 /\ e.pc = "wait_ack"
          \/ m.pc = "jmp_y" /\ flag = 0 /\ e.pc = "push"
          \/ m.pc = "wait_ack" /\ a = 1 /\ e.pc = "wait_ack"
          \/ m.pc = "wait_ack" /\ a = 0 /\ e.pc = "push"
          \/ m.pc = "push" /\ e.pc = "pull" /\ e.tx = <<>> /\ e.isr = <<>> /\ e.rx = <<m.isr>>

(* A tick of the master's program, whatever it reads. *)
LEMMA MasterAtTick ==
    ASSUME NEW m \in MasterSm, NEW byte \in Bits, NEW flag \in Bit, MasterAt(m, byte, flag),
           m.pc = "pull" => m.tx = <<>> \/ (m.tx = <<OutWord(byte, flag)>> /\ m.rx = <<>>),
           NEW d \in Bit, NEW a \in Bit
    PROVE  LET e == MasterCycle(m, d, a)
           IN  /\ e \in MasterSm /\ MasterAt(e, byte, flag)
               /\ MasterGoes(m, e, d, a, flag)
<1>1. PICK e : e = MasterCycle(m, d, a) OBVIOUS
<1>2. PICK w : w = OutWord(byte, flag) OBVIOUS
<1>3. /\ w \in Seq(Bit) /\ Len(w) = kWireBitsPerByte + 1
      /\ w[kWireBitsPerByte + 1] = flag
      /\ \A i \in 1 .. kWireBitsPerByte : w[i] = byte[i]
      /\ SubSeq(w, 1, kWireBitsPerByte + 1) = w
  BY <1>2, AnOutWord
<1>4. PICK s \in Nat : s = Len(m.isr) BY DEF MasterSm
<1>5. ASSUME NEW i \in 1 .. kWireBitsPerByte + 1
      PROVE  /\ SubSeq(w, i, kWireBitsPerByte + 1) # <<>>
             /\ Head(SubSeq(w, i, kWireBitsPerByte + 1)) = w[i]
             /\ Tail(SubSeq(w, i, kWireBitsPerByte + 1)) = SubSeq(w, i + 1, kWireBitsPerByte + 1)
  BY <1>3, Rest, ZenonT(60)
<1>6. CASE m.wait # 0
  <2>1. /\ e \in MasterSm /\ e.wait = m.wait - 1 /\ e.pc = m.pc /\ e.x = m.x /\ e.y = m.y
        /\ e.osr = m.osr /\ e.isr = m.isr /\ e.tx = m.tx
        /\ e.rx = m.rx /\ e.clk = m.clk /\ e.cmd = m.cmd
    BY <1>1, <1>6, MasterWaits
  <2>2. m.wait \in Nat /\ e.wait < m.wait BY <2>1, <1>6, Widths DEF MasterSm
  <2>3. m.pc # "in" => e.wait < kCyclesPerUs BY <2>2, <2>1, Widths DEF MasterAt
  <2>4. MasterAt(e, byte, flag) BY <2>1, <2>3 DEF MasterAt
  <2> QED BY <1>1, <1>6, <2>1, <2>4 DEF MasterGoes
<1>7. CASE m.wait = 0 /\ m.pc = "pull" /\ m.tx = <<>>
  <2>1. /\ e \in MasterSm /\ e.wait = kCyclesPerUs - 1 /\ e.pc = "pull" /\ e.isr = m.isr /\ e.tx = m.tx
        /\ e.rx = m.rx /\ e.clk = 1
    BY <1>1, <1>7, MasterPullsNone
  <2>2. MasterAt(e, byte, flag) BY <2>1, <1>7, Widths DEF MasterAt
  <2> QED BY <1>1, <1>7, <2>1, <2>2 DEF MasterGoes
<1>8. CASE m.wait = 0 /\ m.pc = "pull" /\ m.tx # <<>>
  <2>1. /\ e \in MasterSm /\ e.wait = kCyclesPerUs - 1 /\ e.pc = "set_x" /\ e.isr = m.isr /\ e.tx = Tail(m.tx)
        /\ e.osr = Head(m.tx) /\ e.rx = m.rx /\ e.clk = 1
    BY <1>1, <1>8, MasterPulls
  <2>2. m.tx = <<w>> BY <1>2, <1>8
  <2>3. Head(m.tx) = w /\ Tail(m.tx) = <<>> BY <2>2
  <2>4. MasterAt(e, byte, flag)
    BY <2>1, <2>3, <1>2, <1>8, Widths DEF MasterAt
  <2> QED BY <1>1, <1>8, <2>1, <2>4 DEF MasterGoes
<1>9. CASE m.wait = 0 /\ m.pc = "set_x"
  <2>1. /\ e \in MasterSm /\ e.wait = kCyclesPerUs - 1 /\ e.pc = "out" /\ e.x = kWireBitsPerByte - 1
        /\ e.isr = m.isr /\ e.tx = m.tx /\ e.osr = m.osr /\ e.rx = m.rx /\ e.clk = m.clk
    BY <1>1, <1>9, MasterSetX
  <2>2. Len(e.isr) = 0 /\ e.osr = w BY <1>2, <1>9, <2>1 DEF MasterAt
  <2>3. 0 + 1 = 1 /\ kWireBitsPerByte - 1 = kWireBitsPerByte - 1 - 0 /\ 0 < kWireBitsPerByte BY Widths
  <2>4. e.osr = SubSeq(w, Len(e.isr) + 1, kWireBitsPerByte + 1) BY <2>2, <2>3, <1>3
  <2>5. MasterAt(e, byte, flag)
    <3>1. Len(e.isr) < kWireBitsPerByte /\ e.x = kWireBitsPerByte - 1 - Len(e.isr)
      BY <2>1, <2>2, Widths
    <3>2. e.tx = <<>> /\ e.rx = <<>> /\ e.clk = 1 /\ e.wait < kCyclesPerUs
      BY <2>1, <1>9, Widths DEF MasterAt
    <3>3. e.osr = SubSeq(OutWord(byte, flag), Len(e.isr) + 1, kWireBitsPerByte + 1) BY <2>4, <1>2
    <3>4. e.pc = "out" BY <2>1
    <3> QED BY <3>1, <3>2, <3>3, <3>4 DEF MasterAt
  <2> QED BY <1>1, <1>9, <2>1, <2>5 DEF MasterGoes
<1>10. CASE m.wait = 0 /\ m.pc = "out"
  <2>1. s < kWireBitsPerByte /\ m.osr = SubSeq(w, s + 1, kWireBitsPerByte + 1) /\ s + 1 \in 1 .. kWireBitsPerByte
        /\ s + 1 \in 1 .. kWireBitsPerByte + 1 /\ s + 1 + 1 = s + 2
    <3>1. s < kWireBitsPerByte /\ m.osr = SubSeq(w, s + 1, kWireBitsPerByte + 1)
      BY <1>2, <1>4, <1>10 DEF MasterAt
    <3>2. s + 1 \in 1 .. kWireBitsPerByte /\ s + 1 \in 1 .. kWireBitsPerByte + 1 /\ s + 1 + 1 = s + 2
      BY <1>4, <3>1, Widths
    <3> QED BY <3>1, <3>2
  <2>2. m.osr # <<>> /\ Head(m.osr) = byte[s + 1] /\ Tail(m.osr) = SubSeq(w, s + 2, kWireBitsPerByte + 1)
    BY <2>1, <1>3, <1>5
  <2>3. /\ e \in MasterSm /\ e.wait = 2 * kCyclesPerUs - 1 /\ e.pc = "in" /\ e.x = m.x
        /\ e.isr = m.isr /\ e.tx = m.tx /\ e.osr = Tail(m.osr) /\ e.rx = m.rx /\ e.clk = 0 /\ e.cmd = Head(m.osr)
    BY <1>1, <1>10, <2>2, MasterOut
  <2>4. MasterAt(e, byte, flag)
    BY <2>1, <2>2, <2>3, <1>2, <1>4, <1>10, Widths DEF MasterAt
  <2> QED BY <1>1, <1>10, <2>3, <2>4 DEF MasterGoes
<1>11. CASE m.wait = 0 /\ m.pc = "in"
  <2>1. s < kWireBitsPerByte /\ m.x = kWireBitsPerByte - 1 - s
        /\ m.osr = SubSeq(w, s + 2, kWireBitsPerByte + 1) /\ m.cmd = byte[s + 1]
    BY <1>2, <1>4, <1>11, Widths DEF MasterAt
  <2>2. /\ e \in MasterSm /\ e.wait = kCyclesPerUs - 1 /\ e.pc = "jmp_x" /\ e.x = m.x
        /\ e.isr = Append(m.isr, d) /\ e.tx = m.tx /\ e.osr = m.osr /\ e.rx = m.rx /\ e.clk = 1 /\ e.cmd = m.cmd
    BY <1>1, <1>11, MasterIn
  <2>3. Len(e.isr) = s + 1
    <3>1. m.isr \in Seq(Bit) BY DEF MasterSm
    <3> QED BY <3>1, <2>2, <1>4, AppendProperties
  <2>4. MasterAt(e, byte, flag)
    <3>1. s + 1 \in 1 .. kWireBitsPerByte /\ s + 1 + 1 = s + 2 /\ kWireBitsPerByte - 1 - s = kWireBitsPerByte - (s + 1)
      BY <2>1, Widths
    <3> QED BY <2>1, <2>2, <2>3, <3>1, <1>2, <1>11, Widths DEF MasterAt
  <2> QED BY <1>1, <1>11, <2>2, <2>4 DEF MasterGoes
<1>12. CASE m.wait = 0 /\ m.pc = "jmp_x"
  <2>1. s \in 1 .. kWireBitsPerByte /\ m.x = kWireBitsPerByte - s
        /\ m.osr = SubSeq(w, s + 1, kWireBitsPerByte + 1)
    BY <1>2, <1>4, <1>12, Widths DEF MasterAt
  <2>2. CASE m.x = 0
    <3>1. s = kWireBitsPerByte BY <2>1, <2>2, Widths
    <3>2. /\ e \in MasterSm /\ e.wait = kCyclesPerUs - 1 /\ e.pc = "out_y"
          /\ e.isr = m.isr /\ e.tx = m.tx /\ e.osr = m.osr /\ e.rx = m.rx /\ e.clk = m.clk
      BY <1>1, <1>12, <2>2, MasterJmpsOn
    <3>3. MasterAt(e, byte, flag) BY <2>1, <3>1, <3>2, <1>2, <1>4, <1>12, Widths DEF MasterAt
    <3> QED BY <1>1, <1>4, <1>12, <3>1, <3>2, <3>3 DEF MasterGoes
  <2>3. CASE m.x # 0
    <3>1. s < kWireBitsPerByte /\ m.x - 1 = kWireBitsPerByte - 1 - s BY <2>1, <2>3, Widths
    <3>2. /\ e \in MasterSm /\ e.wait = kCyclesPerUs - 1 /\ e.pc = "out" /\ e.x = m.x - 1
          /\ e.isr = m.isr /\ e.tx = m.tx /\ e.osr = m.osr /\ e.rx = m.rx /\ e.clk = m.clk
      BY <1>1, <1>12, <2>3, MasterJmpsBack
    <3>3. MasterAt(e, byte, flag) BY <2>1, <3>1, <3>2, <1>2, <1>4, <1>12, Widths DEF MasterAt
    <3> QED BY <1>1, <1>4, <1>12, <3>1, <3>2, <3>3 DEF MasterGoes
  <2> QED BY <2>2, <2>3
<1>13. CASE m.wait = 0 /\ m.pc = "out_y"
  <2>1. s = kWireBitsPerByte /\ m.osr = SubSeq(w, kWireBitsPerByte + 1, kWireBitsPerByte + 1)
        /\ kWireBitsPerByte + 1 \in 1 .. kWireBitsPerByte + 1
    BY <1>2, <1>4, <1>13, Widths DEF MasterAt
  <2>2. m.osr # <<>> /\ Head(m.osr) = flag BY <2>1, <1>3, <1>5
  <2>3. /\ e \in MasterSm /\ e.wait = kCyclesPerUs - 1 /\ e.pc = "jmp_y" /\ e.y = Head(m.osr)
        /\ e.isr = m.isr /\ e.tx = m.tx /\ e.rx = m.rx /\ e.clk = m.clk
    BY <1>1, <1>13, <2>2, MasterOutY
  <2>4. MasterAt(e, byte, flag) BY <2>1, <2>2, <2>3, <1>4, <1>13, Widths DEF MasterAt
  <2> QED BY <1>1, <1>13, <2>3, <2>4 DEF MasterGoes
<1>14. CASE m.wait = 0 /\ m.pc = "jmp_y"
  <2>1. s = kWireBitsPerByte /\ m.y = flag BY <1>4, <1>14 DEF MasterAt
  <2>2. CASE flag = 1
    <3>1. /\ e \in MasterSm /\ e.wait = kCyclesPerUs - 1 /\ e.pc = "wait_ack"
          /\ e.isr = m.isr /\ e.tx = m.tx /\ e.rx = m.rx /\ e.clk = m.clk
      BY <1>1, <1>14, <2>1, <2>2, MasterGoesToAck
    <3>2. MasterAt(e, byte, flag) BY <2>1, <2>2, <3>1, <1>4, <1>14, Widths DEF MasterAt
    <3> QED BY <1>1, <1>14, <2>2, <3>1, <3>2 DEF MasterGoes
  <2>3. CASE flag = 0
    <3>1. /\ e \in MasterSm /\ e.wait = kCyclesPerUs - 1 /\ e.pc = "push"
          /\ e.isr = m.isr /\ e.tx = m.tx /\ e.rx = m.rx /\ e.clk = m.clk
      BY <1>1, <1>14, <2>1, <2>3, MasterGoesToPush
    <3>2. MasterAt(e, byte, flag) BY <2>1, <2>3, <3>1, <1>4, <1>14, Widths DEF MasterAt
    <3> QED BY <1>1, <1>14, <2>3, <3>1, <3>2 DEF MasterGoes
  <2> QED BY <2>2, <2>3 DEF Bit
<1>15. CASE m.wait = 0 /\ m.pc = "wait_ack"
  <2>1. s = kWireBitsPerByte /\ flag = 1 BY <1>4, <1>15 DEF MasterAt
  <2>2. CASE a = 1
    <3>1. /\ e \in MasterSm /\ e.wait = kCyclesPerUs - 1 /\ e.pc = "wait_ack"
          /\ e.isr = m.isr /\ e.tx = m.tx /\ e.rx = m.rx /\ e.clk = m.clk
      BY <1>1, <1>15, <2>2, MasterWaitsForAck
    <3>2. MasterAt(e, byte, flag) BY <2>1, <3>1, <1>4, <1>15, Widths DEF MasterAt
    <3> QED BY <1>1, <1>15, <2>2, <3>1, <3>2 DEF MasterGoes
  <2>3. CASE a = 0
    <3>1. /\ e \in MasterSm /\ e.wait = kCyclesPerUs - 1 /\ e.pc = "push"
          /\ e.isr = m.isr /\ e.tx = m.tx /\ e.rx = m.rx /\ e.clk = m.clk
      BY <1>1, <1>15, <2>3, MasterSeesAck
    <3>2. MasterAt(e, byte, flag) BY <2>1, <3>1, <1>4, <1>15, Widths DEF MasterAt
    <3> QED BY <1>1, <1>15, <2>3, <3>1, <3>2 DEF MasterGoes
  <2> QED BY <2>2, <2>3 DEF Bit
<1>16. CASE m.wait = 0 /\ m.pc = "push"
  <2>1. s = kWireBitsPerByte /\ m.rx = <<>> /\ m.tx = <<>> BY <1>4, <1>16 DEF MasterAt
  <2>2. m.isr \in Bits
    <3>1. m.isr \in Seq(Bit) BY DEF MasterSm
    <3> QED BY <3>1, <2>1, <1>4 DEF Bits
  <2>3. /\ e \in MasterSm /\ e.wait = kCyclesPerUs - 1 /\ e.pc = "pull"
        /\ e.isr = <<>> /\ e.tx = m.tx /\ e.rx = <<m.isr>> /\ e.clk = m.clk
    BY <1>1, <1>16, <2>1, <2>2, MasterPushes
  <2>4. MasterAt(e, byte, flag) BY <2>1, <2>3, <1>4, <1>16, Widths DEF MasterAt
  <2> QED BY <1>1, <1>16, <2>1, <2>3, <2>4 DEF MasterGoes
<1>17. m.pc \in {"pull", "set_x", "out", "in", "jmp_x", "out_y", "jmp_y", "wait_ack", "push"}
  BY DEF MasterSm
<1> QED BY <1>6, <1>7, <1>8, <1>9, <1>10, <1>11, <1>12, <1>13, <1>14, <1>15, <1>16, <1>17
=============================================================================
