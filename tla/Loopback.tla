------------------------------ MODULE Loopback ------------------------------
(***************************************************************************)
(* The loopback firmware, src/app/loopback.cpp: a Pico alone, its CMD       *)
(* jumpered to its own DATA and its ATT to its own ACK.  It probes the      *)
(* order of the bits on CMD, sends three sequences as frames, and prints    *)
(* what came back; meanwhile a person moves the jumpers and may ground CLK. *)
(*                                                                         *)
(* A Cycle is one cycle of the master's program, 1 us, or half a            *)
(* millisecond at the probe's divider: the CPU does what it has to between  *)
(* two of them.                                                            *)
(***************************************************************************)
EXTENDS PioMaster, TraceLine

CONSTANTS
    kAttSetupUs, kByteGapUs, kAckTimeoutUs,
    Buffers,    \* sizes of a caller's buffer, the firmware's own among them
    MaxMoves    \* bound: how often the person moves a wire

ASSUME MaxMovesAssumption == MaxMoves \in Nat
ASSUME BuffersAssumption == Buffers \subseteq Nat
ASSUME UsAssumption == kAttSetupUs \in Nat /\ kByteGapUs \in Nat
(* The program is past its last bit when the budget is over.                *)
ASSUME AckTimeoutAssumption == kAckTimeoutUs \in Nat /\ kAckTimeoutUs >= 6
(* The sequences are of bytes.                                              *)
ASSUME ByteAssumption == kWireBitsPerByte <= 8

VARIABLES
    sm,          \* the master's state machine
    cpu,         \* where the program is
    seq,         \* the sequence it sends, or is to send next
    got,         \* the bytes of this frame that completed
    times,       \* the us each of its bytes took, the one that failed too
    timer,       \* cycles left to wait, or since the byte was handed over
    bits,        \* what the probe has read
    wires,       \* the wires that are in place
    moves,       \* how often one was moved
    disturbed    \* history: one was moved during this probe or frame

frameVars == <<seq, got, times>>
loopVars == <<sm, cpu, frameVars, timer, bits, wires, moves, disturbed>>

Wires == {"data", "ack", "clk_to_ground"}

ToBits(byte) == [i \in 1 .. kWireBitsPerByte |-> (byte \div 2 ^ (i - 1)) % 2]

kProbeByte == ToBits(\h01)
kSeqPoll    == <<\h01, \h42, 0, 0, 0>>
kSeqPattern == <<\hFF, 0, \hA5, \h5A, \h80, \h01, \hFE, \h7F, \h3C>>
kSeqSingle  == <<\h80>>
kSequences  == <<kSeqPoll, kSeqPattern, kSeqSingle>>

kTraceLineSize == 256

kByteBudgetUs == 4 * kWireBitsPerByte + kAckTimeoutUs

att_is_high == cpu \notin {"wait", "poll", "recover"}
data == IF "data" \in wires THEN sm.cmd ELSE 1
ack  == IF "ack" \in wires /\ ~att_is_high THEN 0 ELSE 1
clk  == IF "clk_to_ground" \in wires THEN 0 ELSE sm.clk

LoopTypeOK ==
    /\ sm \in MasterSm
    /\ cpu \in {"probe", "low", "high", "rx", "start", "wait", "poll", "recover", "print"}
    /\ seq \in DOMAIN kSequences
    /\ got \in Seq(Bits) /\ Len(got) <= Len(kSequences[seq])
    /\ times \in Seq(Nat) /\ Len(times) \in Len(got) .. Len(got) + 1
    /\ timer \in 0 .. (kByteBudgetUs + 2) * kCyclesPerUs
    /\ bits \in Seq(Bit) /\ Len(bits) <= kWireBitsPerByte
    /\ wires \subseteq Wires
    /\ moves \in 0 .. MaxMoves /\ disturbed \in BOOLEAN

(* The jumpers as they should be, or all of them wrong: two moves lead to   *)
(* any wiring from one of the two.                                          *)
LoopInit ==
    /\ sm = MasterAtBoot
    /\ cpu = "probe" /\ seq = 1 /\ got = <<>> /\ times = <<>> /\ timer = 0 /\ bits = <<>>
    /\ wires \in {{"data", "ack"}, {"clk_to_ground"}}
    /\ moves = 0 /\ disturbed = FALSE

-----------------------------------------------------------------------------
(* probe_wire_bits. *)
Probe ==
    /\ cpu = "probe"
    /\ sm' = put(sm, kProbeByte \o <<0>>)
    /\ cpu' = "low" /\ bits' = <<>> /\ disturbed' = FALSE
    /\ UNCHANGED <<frameVars, timer, wires, moves>>

ClkFell ==
    /\ cpu = "low" /\ clk = 0
    /\ cpu' = "high"
    /\ UNCHANGED <<sm, frameVars, timer, bits, wires, moves, disturbed>>

ClkRose ==
    /\ cpu = "high" /\ clk = 1
    /\ bits' = Append(bits, sm.cmd)
    /\ cpu' = IF Len(bits') < kWireBitsPerByte THEN "low" ELSE "rx"
    /\ UNCHANGED <<sm, frameVars, timer, wires, moves, disturbed>>

Probed ==
    /\ cpu = "rx" /\ has_byte(sm)
    /\ sm' = dropped_byte(sm)
    /\ cpu' = "start"
    /\ UNCHANGED <<frameVars, timer, bits, wires, moves, disturbed>>

IsWaitingForEdge == (cpu = "low" /\ clk = 1) \/ (cpu = "high" /\ clk = 0)

(* The edges did not come.  The budget is a second, and the program is long *)
(* done with the byte by then.                                              *)
ProbeTimeOut ==
    /\ IsWaitingForEdge
    /\ sm.pc = "pull" /\ sm.tx = <<>> /\ sm.wait = 0
    /\ sm' = recover(sm)
    /\ cpu' = "start" /\ bits' = <<>>
    /\ UNCHANGED <<frameVars, timer, wires, moves, disturbed>>

-----------------------------------------------------------------------------
(* print_loopback: exchange_frame, exchange_byte, and the printed line. *)
StartFrame ==
    /\ cpu = "start"
    /\ cpu' = "wait" /\ timer' = kAttSetupUs * kCyclesPerUs
    /\ got' = <<>> /\ times' = <<>> /\ disturbed' = FALSE
    /\ UNCHANGED <<sm, seq, bits, wires, moves>>

PutByte ==
    /\ cpu = "wait" /\ timer = 0
    /\ LET sent   == kSequences[seq]
           isLast == Len(got) + 1 = Len(sent)
       IN  sm' = put(sm, ToBits(sent[Len(got) + 1])
                                     \o <<IF isLast THEN 0 ELSE 1>>)
    /\ cpu' = "poll"
    /\ UNCHANGED <<frameVars, timer, bits, wires, moves, disturbed>>

GetByte ==
    /\ cpu = "poll" /\ has_byte(sm)
    /\ sm' = dropped_byte(sm)
    /\ got' = Append(got, Head(sm.rx))
    /\ times' = Append(times, timer \div kCyclesPerUs)
    /\ IF Len(got') < Len(kSequences[seq])
       THEN cpu' = "wait" /\ timer' = kByteGapUs * kCyclesPerUs
       ELSE cpu' = "print" /\ timer' = 0
    /\ UNCHANGED <<seq, bits, wires, moves, disturbed>>

TimeOut ==
    /\ cpu = "poll" /\ ~has_byte(sm) /\ timer > kByteBudgetUs * kCyclesPerUs
    /\ cpu' = "recover" /\ timer' = 0
    /\ times' = Append(times, timer \div kCyclesPerUs)
    /\ UNCHANGED <<sm, seq, got, bits, wires, moves, disturbed>>

(* Wrong: the byte is tried again, ATT still low. *)
Recover_retried ==
    /\ cpu = "recover"
    /\ sm' = recover(sm)
    /\ cpu' = "wait" /\ times' = SubSeq(times, 1, Len(got))
    /\ UNCHANGED <<seq, got, timer, bits, wires, moves, disturbed>>

Recover ==
    /\ cpu = "recover"
    /\ sm' = recover(sm)
    /\ cpu' = "print"
    /\ UNCHANGED <<frameVars, timer, bits, wires, moves, disturbed>>

(* The line is printed, and its trace line; the next sequence, or the probe *)
(* again.                                                                   *)
PrintLine ==
    /\ cpu = "print"
    /\ IF seq < Len(kSequences) THEN seq' = seq + 1 /\ cpu' = "start"
       ELSE seq' = 1 /\ cpu' = "probe"
    /\ got' = <<>> /\ times' = <<>>
    /\ UNCHANGED <<sm, timer, bits, wires, moves, disturbed>>

Cpu == \/ Probe \/ ClkFell \/ ClkRose \/ Probed \/ ProbeTimeOut
       \/ StartFrame \/ PutByte \/ GetByte \/ TimeOut \/ Recover \/ PrintLine

-----------------------------------------------------------------------------
(* Nothing for the CPU to do but wait.                                      *)
IsWaiting ==
    \/ IsWaitingForEdge
    \/ cpu = "rx" /\ ~has_byte(sm)
    \/ cpu = "wait" /\ timer > 0
    \/ cpu = "poll" /\ ~has_byte(sm)
    \/ cpu = "recover"

Cycle ==
    /\ IsWaiting
    /\ timer <= (kByteBudgetUs + 1) * kCyclesPerUs
    /\ sm' = MasterCycle(sm, data, ack)
    /\ timer' = CASE cpu = "wait" -> timer - 1
                  [] cpu = "poll" -> timer + 1
                  [] OTHER -> timer
    /\ UNCHANGED <<cpu, frameVars, bits, wires, moves, disturbed>>

Move ==
    /\ moves < MaxMoves
    /\ \E wire \in Wires :
        wires' = IF wire \in wires THEN wires \ {wire} ELSE wires \cup {wire}
    /\ moves' = moves + 1 /\ disturbed' = TRUE
    /\ UNCHANGED <<sm, cpu, frameVars, timer, bits>>

LoopNext == Cpu \/ Cycle \/ Move

LoopSpec == LoopInit /\ [][LoopNext]_loopVars /\ WF_loopVars(Cpu) /\ WF_loopVars(Cycle)

-----------------------------------------------------------------------------
(* Whatever is wired, and moved meanwhile, ATT rises again (R-SAFETY-07).   *)
FrameEnds == ~att_is_high ~> att_is_high

(* The frame that print_loopback formats: what was sent of it, received and *)
(* timed.                                                                   *)
exchanged ==
    [i \in DOMAIN kSequences[seq] |->
        [out |-> ToBits(kSequences[seq][i]),
         in |-> IF i <= Len(got) THEN got[i] ELSE ToBits(0),
         elapsed_us |-> IF i <= Len(times) THEN times[i] ELSE 0]]

(* What is printed is so.  With the wires left alone during a frame, its    *)
(* line shows every byte sent with both jumpers in, released bytes without  *)
(* the CMD jumper, and a stop at the first byte that waits for ACK without  *)
(* the other one, whatever was moved in the frames before and whatever the  *)
(* probe gave up on.  The probe's line has the bits as they go over the     *)
(* wire, the least significant first (R-PROTO-01), or a CLK that does not   *)
(* move.                                                                    *)
LineShowsJumpers ==
    cpu = "print" /\ ~disturbed =>
        LET sent  == kSequences[seq]
            count == IF "ack" \in wires \/ Len(sent) = 1 THEN Len(sent) ELSE 0
        IN  got = [i \in 1 .. count |->
                    IF "data" \in wires THEN ToBits(sent[i]) ELSE kReleasedByte]

ProbeShowsWire ==
    cpu = "start" /\ seq = 1 /\ ~disturbed =>
        bits = IF "clk_to_ground" \in wires THEN <<>> ELSE kProbeByte

PrintsWhatIsWired == LineShowsJumpers /\ ProbeShowsWire

(* Whatever became of the frame, the decoder shows what was exchanged: the  *)
(* bytes sent, those received and no other, the times of those attempted,   *)
(* and why it ended (R-PROTO-08).  A buffer that does not hold the line     *)
(* gets none, rather than one that is cut or lacks an item; one that just   *)
(* does gets it; and the firmware's own always does.                        *)
TraceShowsFrame ==
    cpu = "print" =>
        \A capacity \in Buffers \cup {kTraceLineSize} :
            LET line == format_trace_line(exchanged, Len(got), capacity)
            IN  IF line = <<>>
                THEN capacity # kTraceLineSize /\ capacity < LineWidth(exchanged, Len(got))
                ELSE render(line) =
                        [headline |-> IF Len(got) = Len(exchanged) THEN "complete" ELSE "no ACK",
                         frame |-> [n |-> Len(exchanged), k |-> Len(got),
                                    out |-> [i \in DOMAIN exchanged |-> exchanged[i].out],
                                    in |-> got, us |-> times]]
=============================================================================
