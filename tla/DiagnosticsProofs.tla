------------------------- MODULE DiagnosticsProofs --------------------------
(***************************************************************************)
(* The diagnostic firmwares.  Observe, for every controller, every set of   *)
(* delays, every trace gap and every width of the clock; the line readers of*)
(* ConsoleLines, for every command, limit and line length; and Loopback, for*)
(* every byte width up to eight, every pace of the state machine, every     *)
(* wiring and every moment at which the jumpers are moved.                  *)
(***************************************************************************)
EXTENDS Observe, Loopback, ConsoleLines, Integers, LogicProofs, PioMasterProofs

(* The clock's own idea of the time since the last trace, and the time that *)
(* has really passed since then, as far as the gap needs it.                *)
Passed(now, at) == ((now + kMaxUs + 1) - at) % (kMaxUs + 1)
Age == Passed(now_us, filter.printed_at_us)
Waited == IF printed.trace THEN 0 ELSE since

(* The clock may run behind the time that has passed, when it has wrapped,  *)
(* but not ahead; and while an answer is held back it has not wrapped.      *)
ClockInv ==
    filter.has_printed =>
        /\ Waited >= Age \/ Waited = kTraceGapUs
        /\ filter.out = frame.out
        /\ filter.state = frame.state
        /\ filter.in # frame.in => behind <= Age /\ Age < kTraceGapUs

(* What was shown last is the state of the link, unless that link was made  *)
(* anew since.                                                              *)
ShownInv == ~switched => shown = judged.state

ObserveInv == TypeOK /\ ClockInv /\ ShownInv

-----------------------------------------------------------------------------
(* The arithmetic of a clock that wraps.                                    *)
LEMMA Remainders ==
    ASSUME NEW m \in Nat \ {0}, NEW n \in 0 .. 2 * m - 1
    PROVE  n % m = IF n < m THEN n ELSE n - m
<1> DEFINE q == n \div m
           r == n % m
<1>1. q \in Int /\ r \in 0 .. m - 1 /\ n = m * q + r
  BY SMT
<1> HIDE DEF q, r
<1>2. ~(q >= 2)
  <2>1. q >= 2 => m * q >= 2 * m BY <1>1, SMT
  <2> QED BY <1>1, <2>1, SMT
<1>3. ~(q <= -1)
  <2>1. q <= -1 => m * q <= -m BY <1>1, SMT
  <2> QED BY <1>1, <2>1, SMT
<1>4. q = 0 \/ q = 1 BY <1>1, <1>2, <1>3
<1>5. CASE q = 0
  <2>1. n = r BY <1>1, <1>5
  <2> QED BY <1>1, <2>1 DEF r
<1>6. CASE q = 1
  <2>1. n = m + r BY <1>1, <1>6
  <2> QED BY <1>1, <2>1 DEF r
<1> QED BY <1>4, <1>5, <1>6

(* A wrapping clock's difference, from one frame to the next.               *)
LEMMA ClockPassed ==
    ASSUME NEW now \in 0 .. kMaxUs, NEW at \in 0 .. kMaxUs
    PROVE  /\ Passed(now, at) = IF now >= at THEN now - at ELSE (now + kMaxUs + 1) - at
           /\ Passed(now, at) \in 0 .. kMaxUs
<1>1. kMaxUs \in Nat /\ kMaxUs + 1 \in Nat \ {0} BY MaxUsAssumption
<1>2. PICK n : n = (now + kMaxUs + 1) - at OBVIOUS
<1>3. n \in 0 .. 2 * (kMaxUs + 1) - 1 BY <1>1, <1>2
<1>4. n % (kMaxUs + 1) = IF n < kMaxUs + 1 THEN n ELSE n - (kMaxUs + 1)
  BY <1>1, <1>3, Remainders
<1> QED BY <1>1, <1>2, <1>4 DEF Passed

LEMMA ClockRange ==
    ASSUME NEW now \in 0 .. kMaxUs, NEW us \in 0 .. kMaxUs
    PROVE  (now + us) % (kMaxUs + 1) =
                IF now + us <= kMaxUs THEN now + us ELSE now + us - (kMaxUs + 1)
<1>1. kMaxUs \in Nat /\ kMaxUs + 1 \in Nat \ {0} BY MaxUsAssumption
<1>2. now + us \in 0 .. 2 * (kMaxUs + 1) - 1 BY <1>1
<1>3. PICK n : n = now + us OBVIOUS
<1>4. n % (kMaxUs + 1) = IF n < kMaxUs + 1 THEN n ELSE n - (kMaxUs + 1)
  BY <1>1, <1>2, <1>3, Remainders
<1> QED BY <1>1, <1>3, <1>4

LEMMA ClockTicks ==
    ASSUME NEW now \in 0 .. kMaxUs, NEW at \in 0 .. kMaxUs, NEW us \in 0 .. kMaxUs,
           NEW then, then = (now + us) % (kMaxUs + 1)
    PROVE  /\ then \in 0 .. kMaxUs
           /\ Passed(then, then) = 0
           /\ Passed(then, at) \in 0 .. kMaxUs
           /\ Passed(then, at) <= Passed(now, at) + us
           /\ Passed(now, at) + us <= kMaxUs => Passed(then, at) = Passed(now, at) + us
<1>1. kMaxUs \in Nat BY MaxUsAssumption
<1>2. then = IF now + us <= kMaxUs THEN now + us ELSE now + us - (kMaxUs + 1)
  BY ClockRange
<1>3. then \in 0 .. kMaxUs BY <1>1, <1>2
<1>4. Passed(now, at) = IF now >= at THEN now - at ELSE (now + kMaxUs + 1) - at
  BY ClockPassed
<1>5. /\ Passed(then, at) = IF then >= at THEN then - at ELSE (then + kMaxUs + 1) - at
      /\ Passed(then, at) \in 0 .. kMaxUs
  BY <1>3, ClockPassed
<1>6. Passed(then, then) = 0
  <2>1. Passed(then, then) = then - then BY <1>3, ClockPassed
  <2> QED BY <1>3, <2>1
<1>7. /\ Passed(then, at) <= Passed(now, at) + us
      /\ Passed(now, at) + us <= kMaxUs => Passed(then, at) = Passed(now, at) + us
  BY <1>1, <1>2, <1>4, <1>5
<1> QED BY <1>3, <1>5, <1>6, <1>7

-----------------------------------------------------------------------------
LEMMA InitObserve == Init => ObserveInv
<1> SUFFICES ASSUME Init PROVE ObserveInv
  OBVIOUS
<1>1. /\ kMaxUs \in Nat /\ 0 \in 0 .. kMaxUs
      /\ kTraceGapUs \in Nat /\ 0 \in 0 .. kTraceGapUs
      /\ <<>> \in Seq(Byte)
  BY MaxUsAssumption, TraceGapAssumption
<1>2. FreshLink \in Link
  BY <1>1 DEF FreshLink, Link, LinkState, FaultCause
<1>3. FreshMaster \in [link : Link, stage : NegotiationStage]
  BY <1>2 DEF FreshMaster, NegotiationStage
<1>4. TypeOK
  BY <1>1, <1>2, <1>3
     DEF Init, TypeOK, FreshFilter, NoFrame, NoLine, LinkState, FaultCause
<1>5. ClockInv BY DEF Init, ClockInv, FreshFilter
<1>6. ShownInv BY DEF Init, ShownInv, judged, FreshLink
<1> QED BY <1>4, <1>5, <1>6 DEF ObserveInv

(* The link of the mode after a frame: of its type, and with a cause if the *)
(* frame dropped it.                                                        *)
LEMMA JudgedSound ==
    ASSUME TypeOK, mode' = mode, NEW answer \in Seq(Byte), NEW us \in 0 .. kMaxUs,
           JudgeFrame(answer, us)
    PROVE  /\ link' \in Link /\ master' \in [link : Link, stage : NegotiationStage]
           /\ judged' \in Link
           /\ judged'.state = "Absent" =>
                judged'.last_fault # "None" \/ judged' = judged
<1>1. CASE mode = "Digital"
  <2>1. link' = step(link, decode_poll(answer), us) /\ master' = master
    BY <1>1 DEF JudgeFrame
  <2>2. judged' = link' BY <1>1 DEF judged
  <2> QED BY <2>1, <2>2, StepDrops DEF TypeOK
<1>2. CASE mode = "Analog"
  <2>1. /\ link' = link
        /\ master' = [link  |-> advance_link(master.link, master.stage, answer, us),
                      stage |-> advance_stage(master.link, master.stage, answer, us)]
    BY <1>2 DEF JudgeFrame
  <2>2. judged = master.link /\ judged' = master'.link BY <1>2 DEF judged
  <2>3. master.link \in Link /\ master.stage \in NegotiationStage /\ link \in Link
    BY DEF TypeOK
  <2>4. /\ master'.link = advance_link(master.link, master.stage, answer, us)
        /\ master' \in [link : Link, stage : NegotiationStage]
    BY <2>1, <2>3, AdvanceDrops, AdvanceStageType
  <2> QED BY <2>1, <2>2, <2>3, <2>4, AdvanceDrops
<1> QED BY <1>1, <1>2 DEF TypeOK

LEMMA CommandType ==
    ASSUME TypeOK
    PROVE  command \in Seq(Byte)
<1>1. kReadPoll \in Seq(Byte)
  BY DEF kReadPoll, kFrameStart, kCmdPoll, kPadByte, Byte
<1>2. command_for(master.stage) \in Seq(Byte)
  BY CommandSequence DEF TypeOK
<1> QED BY <1>1, <1>2 DEF command

LEMMA CappedType ==
    ASSUME NEW us \in Nat
    PROVE  /\ Capped(us) \in 0 .. kTraceGapUs
           /\ Capped(us) = us \/ Capped(us) = kTraceGapUs
           /\ Capped(us) <= us
           /\ us >= kTraceGapUs => Capped(us) = kTraceGapUs
<1>1. kTraceGapUs \in Nat BY TraceGapAssumption, MaxUsAssumption
<1> QED BY <1>1 DEF Capped

(* A frame, in the terms of the filter: it is due, or what it leaves unsaid *)
(* is an answer the gap holds back.                                         *)
LEMMA Filtered ==
    ASSUME TypeOK, NEW traced, NEW now \in 0 .. kMaxUs
    PROVE  /\ is_trace_due(filter, traced, now) =>
                /\ filtered(filter, traced, now) = note_printed(traced, now)
                /\ filter.has_printed /\ filter.out = traced.out
                        /\ filter.state = traced.state =>
                    /\ filter.in # traced.in
                    /\ Passed(now, filter.printed_at_us) >= kTraceGapUs
           /\ ~is_trace_due(filter, traced, now) =>
                /\ filtered(filter, traced, now) = filter
                /\ filter.has_printed
                /\ filter.out = traced.out /\ filter.state = traced.state
                /\ filter.in # traced.in =>
                        Passed(now, filter.printed_at_us) < kTraceGapUs
<1>1. filter.printed_at_us \in 0 .. kMaxUs BY DEF TypeOK
<1>2. Passed(now, filter.printed_at_us) \in Nat /\ kTraceGapUs \in Nat
  <2>1. Passed(now, filter.printed_at_us) \in 0 .. kMaxUs BY <1>1, ClockPassed
  <2> QED BY <2>1, TraceGapAssumption, MaxUsAssumption
<1>3. has_gap_passed(filter, now) <=>
        Passed(now, filter.printed_at_us) >= kTraceGapUs
  BY DEF has_gap_passed, Passed
<1>4. ~has_gap_passed(filter, now) =>
        Passed(now, filter.printed_at_us) < kTraceGapUs
  BY <1>2, <1>3
<1> QED
  BY <1>3, <1>4 DEF is_trace_due, filtered, is_out_changed, is_in_changed

(* One frame.                                                               *)
LEMMA ObserveTypes ==
    ASSUME ObserveInv, NEW answer \in Answers, NEW us \in Elapseds,
           Observe(answer, us)
    PROVE  TypeOK'
<1> USE DEF ObserveInv
<1>1. answer \in Seq(Byte) /\ us \in 0 .. kMaxUs /\ us \in Nat
  BY AnswersAssumption, ElapsedsAssumption, MaxUsAssumption
<1>2. /\ link' \in Link /\ master' \in [link : Link, stage : NegotiationStage]
      /\ judged' \in Link /\ mode' = mode
  BY <1>1, JudgedSound DEF Observe
<1>3. judged'.state \in LinkState /\ judged'.last_fault \in FaultCause
  BY <1>2 DEF Link
<1>4. now_us' \in 0 .. kMaxUs
  <2>1. now_us \in 0 .. kMaxUs /\ now_us' = (now_us + us) % (kMaxUs + 1)
    BY DEF Observe, TypeOK
  <2> QED BY <1>1, <2>1, ClockTicks
<1>5. /\ frame' = [out |-> command, in |-> answer, state |-> judged'.state]
      /\ filter' = filtered(filter, frame', now_us')
      /\ shown' = judged'.state
      /\ printed' = [trace |-> is_trace_due(filter, frame', now_us'),
                     line  |-> IF judged'.state = shown THEN NoLine
                               ELSE LinkLine(shown, judged'.state,
                                             judged'.last_fault)]
      /\ switched' = (switched /\ judged'.state = shown)
      /\ KeepTime(us)
  BY DEF Observe
<1>6. frame' \in [out : Seq(Byte), in : Seq(Byte), state : LinkState]
  BY <1>1, <1>3, <1>5, CommandType
<1>7. filter' \in [out : Seq(Byte), in : Seq(Byte), state : LinkState,
                   printed_at_us : 0 .. kMaxUs, has_printed : BOOLEAN]
  <2>1. note_printed(frame', now_us')
            \in [out : Seq(Byte), in : Seq(Byte), state : LinkState,
                 printed_at_us : 0 .. kMaxUs, has_printed : BOOLEAN]
    BY <1>4, <1>6 DEF note_printed
  <2> QED BY <1>5, <2>1 DEF filtered, TypeOK
<1>8. is_trace_due(filter, frame', now_us') \in BOOLEAN
  BY DEF is_trace_due, has_gap_passed, is_out_changed, is_in_changed, TypeOK
<1>9. printed' \in [trace : BOOLEAN,
                    line : [was : LinkState, now : LinkState, fault : FaultCause]]
  <2>1. NoLine \in [was : LinkState, now : LinkState, fault : FaultCause]
    BY DEF NoLine, LinkState, FaultCause
  <2>2. LinkLine(shown, judged'.state, judged'.last_fault)
            \in [was : LinkState, now : LinkState, fault : FaultCause]
    BY <1>3 DEF LinkLine, TypeOK
  <2> QED BY <1>5, <1>8, <2>1, <2>2
<1>10. since' \in 0 .. kTraceGapUs /\ behind' \in 0 .. kTraceGapUs
  <2>1. /\ since \in Nat /\ behind \in Nat /\ kTraceGapUs \in Nat
        /\ 0 \in 0 .. kTraceGapUs
    BY TraceGapAssumption, MaxUsAssumption DEF TypeOK
  <2>2. (IF printed.trace THEN 0 ELSE since) + us \in Nat /\ behind + us \in Nat
    BY <1>1, <2>1
  <2> QED BY <1>5, <2>1, <2>2, CappedType DEF KeepTime
<1>11. switched' \in BOOLEAN BY <1>5
<1>12. mode' \in {"Digital", "Analog"} BY <1>2 DEF TypeOK
<1> QED
  BY <1>2, <1>3, <1>4, <1>5, <1>6, <1>7, <1>9, <1>10, <1>11, <1>12 DEF TypeOK

LEMMA ObserveClock ==
    ASSUME ObserveInv, NEW answer \in Answers, NEW us \in Elapseds,
           Observe(answer, us)
    PROVE  /\ ClockInv'
           /\ printed'.trace /\ filter.has_printed
                /\ filter.out = frame'.out /\ filter.state = frame'.state =>
                    since' >= kTraceGapUs /\ filter.in # frame'.in
<1> DEFINE due == is_trace_due(filter, frame', now_us')
           at  == filter.printed_at_us
<1>1. us \in 0 .. kMaxUs /\ us + kTraceGapUs <= kMaxUs + 1
  BY ElapsedsAssumption, DelaysAssumption
<1>2. /\ now_us \in 0 .. kMaxUs /\ at \in 0 .. kMaxUs
      /\ since \in 0 .. kTraceGapUs /\ behind \in 0 .. kTraceGapUs
      /\ kTraceGapUs \in Nat /\ kMaxUs \in Nat
  BY TraceGapAssumption, MaxUsAssumption DEF ObserveInv, TypeOK
<1>3. /\ now_us' = (now_us + us) % (kMaxUs + 1)
      /\ now_us' \in 0 .. kMaxUs
      /\ Age \in 0 .. kMaxUs
      /\ Passed(now_us', at) \in 0 .. kMaxUs
      /\ Passed(now_us', at) <= Age + us
      /\ Age + us <= kMaxUs => Passed(now_us', at) = Age + us
      /\ Passed(now_us', now_us') = 0
  <2>1. now_us' = (now_us + us) % (kMaxUs + 1) BY DEF Observe
  <2>2. PICK then, now, a : then = now_us' /\ now = now_us /\ a = at
    OBVIOUS
  <2>3. /\ then \in 0 .. kMaxUs
        /\ Passed(then, then) = 0
        /\ Passed(then, a) \in 0 .. kMaxUs
        /\ Passed(then, a) <= Passed(now, a) + us
        /\ Passed(now, a) + us <= kMaxUs => Passed(then, a) = Passed(now, a) + us
    <3>1. /\ now \in 0 .. kMaxUs /\ a \in 0 .. kMaxUs /\ us \in 0 .. kMaxUs
          /\ then = (now + us) % (kMaxUs + 1)
      BY <1>1, <1>2, <2>1, <2>2
    <3> QED BY ONLY <3>1, ClockTicks
  <2>4. Age = Passed(now, a) /\ Age \in 0 .. kMaxUs
    BY <1>2, <2>2, ClockPassed DEF Age
  <2> QED BY <2>1, <2>2, <2>3, <2>4
<1>4. /\ filter' = filtered(filter, frame', now_us')
      /\ printed'.trace = due
      /\ since' = Capped(Waited + us)
      /\ behind' = IF filter'.in = frame'.in \/ filter.in = frame.in THEN 0
                   ELSE Capped(behind + us)
  BY DEF Observe, KeepTime, Waited
<1>5. /\ Waited \in 0 .. kTraceGapUs
      /\ filter.has_printed => Waited >= Age \/ Waited = kTraceGapUs
  BY <1>2 DEF Waited, ObserveInv, ClockInv
<1>6. filter.has_printed =>
        since' >= Passed(now_us', at) \/ since' = kTraceGapUs
  <2>1. Waited + us \in Nat BY <1>1, <1>5
  <2>2. since' = Waited + us \/ since' = kTraceGapUs BY <1>4, <2>1, CappedType
  <2>3. Waited >= kTraceGapUs => since' = kTraceGapUs
    <3>1. Waited >= kTraceGapUs => Waited + us >= kTraceGapUs
      BY <1>1, <1>2, <1>5
    <3> QED BY <1>4, <2>1, <3>1, CappedType
  <2> QED BY <1>1, <1>2, <1>3, <1>5, <2>2, <2>3
<1>7. CASE due
  <2>1. filter' = note_printed(frame', now_us')
    BY <1>2, <1>3, <1>4, <1>7, Filtered DEF ObserveInv
  <2>2. /\ filter'.has_printed /\ filter'.printed_at_us = now_us'
        /\ filter'.out = frame'.out /\ filter'.in = frame'.in
        /\ filter'.state = frame'.state
    BY <2>1 DEF note_printed
  <2>3. Waited' = 0 /\ Age' = 0
    BY <1>3, <1>4, <1>7, <2>2 DEF Waited, Age
  <2>4. ClockInv' BY <2>2, <2>3 DEF ClockInv
  <2>5. ASSUME filter.has_printed, filter.out = frame'.out,
               filter.state = frame'.state
        PROVE  since' >= kTraceGapUs /\ filter.in # frame'.in
    <3>1. filter.in # frame'.in /\ Passed(now_us', at) >= kTraceGapUs
      BY <1>3, <1>7, <2>5, Filtered DEF ObserveInv
    <3>2. since' \in Nat
      BY <1>1, <1>4, <1>5, <1>2, CappedType
    <3> QED BY <1>2, <1>3, <1>6, <2>5, <3>1, <3>2
  <2> QED BY <2>4, <2>5
<1>8. CASE ~due
  <2>1. /\ filter' = filter /\ filter.has_printed
        /\ filter.out = frame'.out /\ filter.state = frame'.state
        /\ filter.in # frame'.in => Passed(now_us', at) < kTraceGapUs
    BY <1>3, <1>4, <1>8, Filtered DEF ObserveInv
  <2>2. Age' = Passed(now_us', at) /\ Waited' = since'
    BY <1>4, <1>8, <2>1 DEF Age, Waited
  <2>3. ASSUME filter.in # frame'.in
        PROVE  behind' <= Passed(now_us', at)
    <3>1. CASE filter.in = frame.in
      BY <1>3, <1>4, <3>1
    <3>2. CASE filter.in # frame.in
      <4>1. behind <= Age /\ Age < kTraceGapUs
        BY <2>1, <3>2 DEF ObserveInv, ClockInv
      <4>2. Passed(now_us', at) = Age + us
        BY <1>1, <1>2, <1>3, <4>1
      <4>3. behind' = Capped(behind + us) /\ behind + us \in Nat
        BY <1>1, <1>2, <1>4, <2>1, <2>3, <3>2
      <4>4. Capped(behind + us) <= behind + us /\ Capped(behind + us) \in Nat
        BY <1>2, <4>3, CappedType
      <4> QED BY <1>1, <1>2, <1>3, <4>1, <4>2, <4>3, <4>4
    <3> QED BY <3>1, <3>2
  <2>4. ClockInv'
    BY <1>6, <2>1, <2>2, <2>3 DEF ClockInv
  <2> QED BY <1>4, <1>8, <2>4
<1> QED BY <1>7, <1>8

(* The states shown, and the cause a line into Absent gives.                *)
LEMMA ObserveShows ==
    ASSUME ObserveInv, NEW answer \in Answers, NEW us \in Elapseds,
           Observe(answer, us)
    PROVE  /\ ShownInv'
           /\ printed'.line.was # printed'.line.now
                /\ printed'.line.now = "Absent" =>
                    printed'.line.fault # "None" \/ switched
<1>1. /\ shown' = judged'.state
      /\ printed'.line = IF judged'.state = shown THEN NoLine
                         ELSE LinkLine(shown, judged'.state, judged'.last_fault)
  BY DEF Observe
<1>2. ShownInv' BY <1>1 DEF ShownInv
<1>3. judged'.state = "Absent" => judged'.last_fault # "None" \/ judged' = judged
  <2>1. answer \in Seq(Byte) /\ us \in 0 .. kMaxUs
    BY AnswersAssumption, ElapsedsAssumption
  <2> QED BY <2>1, JudgedSound DEF Observe, ObserveInv
<1>4. ASSUME printed'.line.was # printed'.line.now, printed'.line.now = "Absent",
             ~switched
      PROVE  printed'.line.fault # "None"
  <2>1. judged'.state # shown BY <1>1, <1>4 DEF NoLine
  <2>2. /\ printed'.line.now = judged'.state
        /\ printed'.line.fault = judged'.last_fault
    BY <1>1, <2>1 DEF LinkLine
  <2>3. judged.state = shown BY <1>4 DEF ObserveInv, ShownInv
  <2> QED BY <1>3, <1>4, <2>1, <2>2, <2>3
<1> QED BY <1>2, <1>4

(* The line `analog`: a fresh Master, and nothing the filter goes by.       *)
LEMMA LineKeeps ==
    ASSUME ObserveInv, AnalogLine
    PROVE  ObserveInv'
<1>1. /\ mode' = "Analog" /\ master' = FreshMaster /\ switched' = TRUE
      /\ printed' = [printed EXCEPT !.line = NoLine]
      /\ UNCHANGED <<link, shown, filter, now_us, frame, since, behind>>
  BY DEF AnalogLine
<1>2. FreshMaster \in [link : Link, stage : NegotiationStage]
  <2>1. 0 \in 0 .. kMaxUs BY MaxUsAssumption
  <2> QED BY <2>1 DEF FreshMaster, FreshLink, Link, LinkState, FaultCause,
                      NegotiationStage
<1>3. /\ printed' \in [trace : BOOLEAN,
                       line : [was : LinkState, now : LinkState, fault : FaultCause]]
      /\ printed'.trace = printed.trace
  <2>1. NoLine \in [was : LinkState, now : LinkState, fault : FaultCause]
    BY DEF NoLine, LinkState, FaultCause
  <2> QED BY <1>1, <2>1 DEF ObserveInv, TypeOK
<1>4. TypeOK' BY <1>1, <1>2, <1>3 DEF ObserveInv, TypeOK
<1>5. ClockInv'
  BY <1>1, <1>3 DEF ObserveInv, ClockInv, Waited, Age, Passed
<1>6. ShownInv' BY <1>1 DEF ShownInv
<1> QED BY <1>4, <1>5, <1>6 DEF ObserveInv

LEMMA ObserveInvariance == Spec => []ObserveInv
<1>1. ObserveInv /\ [Next]_vars => ObserveInv'
  <2> SUFFICES ASSUME ObserveInv, [Next]_vars PROVE ObserveInv'
    OBVIOUS
  <2>1. CASE ObserveAny
    BY <2>1, ObserveTypes, ObserveClock, ObserveShows DEF ObserveAny, ObserveInv
  <2>2. CASE AnalogLine BY <2>2, LineKeeps
  <2>3. CASE UNCHANGED vars
    BY <2>3 DEF vars, ObserveInv, TypeOK, ClockInv, ShownInv, Waited, Age, Passed,
                judged
  <2> QED BY <2>1, <2>2, <2>3 DEF Next
<1> QED BY <1>1, InitObserve, PTL DEF Spec

-----------------------------------------------------------------------------
(* Every state of the observer is well typed.                               *)
THEOREM TypeCorrect == Spec => []TypeOK
<1>1. ObserveInv => TypeOK BY DEF ObserveInv
<1> QED BY <1>1, ObserveInvariance, PTL

(* A capture is never out of date, although the clock wraps: an answer that *)
(* is held back has been seen for less than the gap (trace_filter.h).       *)
THEOREM NewsFresh == Spec => []NewsIsNeverOld
<1>1. ObserveInv => NewsIsNeverOld
  <2> SUFFICES ASSUME ObserveInv, filter.has_printed, filter.in # frame.in
               PROVE  behind < kTraceGapUs
    BY DEF NewsIsNeverOld, ObserveInv, ClockInv
  <2>1. behind <= Age /\ Age < kTraceGapUs BY DEF ObserveInv, ClockInv
  <2>2. /\ behind \in 0 .. kTraceGapUs /\ kTraceGapUs \in Nat /\ kMaxUs \in Nat
        /\ now_us \in 0 .. kMaxUs /\ filter.printed_at_us \in 0 .. kMaxUs
    BY TraceGapAssumption, MaxUsAssumption DEF ObserveInv, TypeOK
  <2>3. Age \in 0 .. kMaxUs BY <2>2, ClockPassed DEF Age
  <2> QED BY <2>1, <2>2, <2>3
<1> QED BY <1>1, ObserveInvariance, PTL

(* A frame that only the controller changed waits for the gap in real time: *)
(* the wrap of the clock never lets it out early.                           *)
THEOREM GapHolds == Spec => GapHoldsBackNoise
<1> DEFINE Held == (/\ printed'.trace /\ now_us' # now_us
                    /\ filter.has_printed
                    /\ filter.out = frame'.out /\ filter.state = frame'.state)
                   => since' >= kTraceGapUs /\ filter.in # frame'.in
<1>1. ObserveInv /\ [Next]_vars => [Held]_vars
  <2> SUFFICES ASSUME ObserveInv, Next PROVE Held
    OBVIOUS
  <2>1. CASE ObserveAny BY <2>1, ObserveClock DEF ObserveAny
  <2>2. CASE AnalogLine BY <2>2 DEF AnalogLine
  <2> QED BY <2>1, <2>2 DEF Next
<1> QED BY <1>1, ObserveInvariance, PTL DEF Spec, GapHoldsBackNoise

(* A `link:` line into Absent gives the cause of the drop, in either mode,  *)
(* unless the mode was set since the last line.                             *)
THEOREM DropsNamed == Spec => DropsNameTheirCause
<1> DEFINE Named ==
        printed'.line.was # printed'.line.now /\ printed'.line.now = "Absent"
            => printed'.line.fault # "None" \/ switched
<1>1. ObserveInv /\ [Next]_vars => [Named]_vars
  <2> SUFFICES ASSUME ObserveInv, Next PROVE Named
    OBVIOUS
  <2>1. CASE ObserveAny BY <2>1, ObserveShows DEF ObserveAny
  <2>2. CASE AnalogLine
    <3>1. printed' = [printed EXCEPT !.line = NoLine]
          /\ printed \in [trace : BOOLEAN,
                line : [was : LinkState, now : LinkState, fault : FaultCause]]
      BY <2>2 DEF AnalogLine, ObserveInv, TypeOK
    <3> QED BY <3>1 DEF NoLine
  <2> QED BY <2>1, <2>2 DEF Next
<1> QED BY <1>1, ObserveInvariance, PTL DEF Spec, DropsNameTheirCause
-----------------------------------------------------------------------------
Character == Letters \cup {CR}

(* What each reader has kept of the characters typed since the line feed:   *)
(* all of them, or a full buffer that shows it was overrun.                 *)
ObserverKeeps ==
    /\ line \in [text : Seq(Character), is_overlong : BOOLEAN]
    /\ Len(line.text) <= kCommandBufferSize
    /\ IF line.is_overlong THEN Len(typed) > kCommandBufferSize
       ELSE line.text = typed

EmulatorKeeps ==
    /\ reader \in Seq(Character)
    /\ IF Len(typed) <= kLineBufferSize THEN reader = typed
       ELSE Len(reader) = kLineBufferSize

KeepsInv == typed \in Seq(Character) /\ ObserverKeeps /\ EmulatorKeeps

(* At most one character goes with the carriage return. *)
LEMMA LenWithoutCR ==
    ASSUME NEW text \in Seq(Character)
    PROVE  /\ WithoutCR(text) \in Seq(Character)
           /\ Len(WithoutCR(text)) \in {Len(text), Len(text) - 1}
           /\ text = <<>> => WithoutCR(text) = <<>>
<1>1. CASE text # <<>> /\ Last(text) = CR
  <2>1. Len(text) \in Nat \ {0} BY <1>1
  <2>2. WithoutCR(text) = SubSeq(text, 1, Len(text) - 1) BY <1>1 DEF WithoutCR, Front
  <2>3. /\ SubSeq(text, 1, Len(text) - 1) \in Seq(Character)
        /\ Len(SubSeq(text, 1, Len(text) - 1)) = Len(text) - 1
    BY <2>1, SubSeqProperties
  <2> QED BY <1>1, <2>2, <2>3
<1>2. CASE ~(text # <<>> /\ Last(text) = CR)
  BY <1>2 DEF WithoutCR
<1> QED BY <1>1, <1>2

LEMMA BufferSizes ==
    /\ Len(kAnalogCommand) \in Nat \ {0}
    /\ kCommandBufferSize = Len(kAnalogCommand) + 2
    /\ kLineBufferSize = kMaxLineLen + 2
    /\ kMaxLineLen \in Nat
BY CommandAssumption, LineLenAssumption DEF kCommandBufferSize, kLineBufferSize

LEMMA KeepsInit == LineInit => KeepsInv
BY BufferSizes DEF LineInit, KeepsInv, ObserverKeeps, EmulatorKeeps, EmptyLine, Character

LEMMA KeepsStep == KeepsInv /\ [LineNext]_lineVars => KeepsInv'
<1> SUFFICES ASSUME KeepsInv, [LineNext]_lineVars PROVE KeepsInv'
  OBVIOUS
<1> USE BufferSizes
<1>1. ASSUME NEW c \in Letters \cup {CR}, Type(c) PROVE KeepsInv'
  <2>1. /\ typed' = Append(typed, c) /\ typed \in Seq(Character) /\ c \in Character
        /\ line' = taken(line, c) /\ c # LF
        /\ reader' = IF Len(reader) < kLineBufferSize THEN Append(reader, c)
                     ELSE reader
    BY <1>1 DEF Type, KeepsInv, Character, take_char, read_char
  <2>2. typed' \in Seq(Character) /\ Len(typed') = Len(typed) + 1
    BY <2>1
  <2>3. ObserverKeeps'
    <3>1. CASE Len(line.text) < kCommandBufferSize
      <4>1. /\ line' = [line EXCEPT !.text = Append(line.text, c)]
            /\ line.text \in Seq(Character)
        BY <2>1, <3>1 DEF taken, KeepsInv, ObserverKeeps
      <4>2. /\ line'.text = Append(line.text, c)
            /\ line'.is_overlong = line.is_overlong
            /\ line' \in [text : Seq(Character), is_overlong : BOOLEAN]
        <5>1. line \in [text : Seq(Character), is_overlong : BOOLEAN]
          BY DEF KeepsInv, ObserverKeeps
        <5>2. Append(line.text, c) \in Seq(Character)
          BY <4>1, <2>1
        <5> QED BY <4>1, <5>1, <5>2
      <4>3. Len(line'.text) <= kCommandBufferSize
        BY <4>1, <4>2, <3>1
      <4> QED BY <4>2, <4>3, <2>1, <2>2 DEF KeepsInv, ObserverKeeps
    <3>2. CASE ~(Len(line.text) < kCommandBufferSize)
      <4>1. line' = [line EXCEPT !.is_overlong = TRUE]
        BY <2>1, <3>2 DEF taken
      <4>2. /\ line'.text = line.text /\ line'.is_overlong = TRUE
            /\ line' \in [text : Seq(Character), is_overlong : BOOLEAN]
        BY <4>1 DEF KeepsInv, ObserverKeeps
      <4>3. Len(typed') > kCommandBufferSize
        <5>1. CASE line.is_overlong
          BY <5>1, <2>1, <2>2 DEF KeepsInv, ObserverKeeps
        <5>2. CASE ~line.is_overlong
          BY <5>2, <3>2, <2>1, <2>2 DEF KeepsInv, ObserverKeeps
        <5> QED BY <5>1, <5>2
      <4> QED BY <4>2, <4>3 DEF KeepsInv, ObserverKeeps
    <3> QED BY <3>1, <3>2
  <2>4. EmulatorKeeps'
    <3>1. CASE Len(typed) < kLineBufferSize
      BY <3>1, <2>1, <2>2 DEF KeepsInv, EmulatorKeeps
    <3>2. CASE ~(Len(typed) < kLineBufferSize)
      <4>1. Len(reader) = kLineBufferSize /\ reader \in Seq(Character)
        BY <3>2, <2>1 DEF KeepsInv, EmulatorKeeps
      <4> QED BY <4>1, <3>2, <2>1, <2>2 DEF EmulatorKeeps
    <3> QED BY <3>1, <3>2
  <2> QED BY <2>2, <2>3, <2>4 DEF KeepsInv
<1>2. CASE EndLine
  <2>1. line' = EmptyLine /\ reader' = <<>> /\ typed' = <<>>
    BY <1>2 DEF EndLine, take_char, read_char
  <2> QED BY <2>1 DEF KeepsInv, ObserverKeeps, EmulatorKeeps, EmptyLine, Character
<1>3. CASE UNCHANGED lineVars
  BY <1>3 DEF lineVars, KeepsInv, ObserverKeeps, EmulatorKeeps
<1> QED BY <1>1, <1>2, <1>3 DEF LineNext

LEMMA Keeps == LineSpec => []KeepsInv
BY KeepsInit, KeepsStep, PTL DEF LineSpec

-----------------------------------------------------------------------------
(* The observer obeys its one command and no other line, however long the   *)
(* lines are and whatever command the firmware is built with: a line its    *)
(* buffer could not hold is longer than the command, carriage return or not.*)
THEOREM ObserverJudges == LineSpec => ObserverJudgesWholeLines
<1>1. KeepsInv /\ EndLine =>
        event' = IF WithoutCR(typed) = <<>> THEN "Pending"
                 ELSE IF WithoutCR(typed) = kAnalogCommand THEN "Analog"
                 ELSE "Unknown"
  <2> SUFFICES ASSUME KeepsInv, EndLine
               PROVE  event' = IF WithoutCR(typed) = <<>> THEN "Pending"
                               ELSE IF WithoutCR(typed) = kAnalogCommand THEN "Analog"
                               ELSE "Unknown"
    OBVIOUS
  <2>1. event' = judge(line) BY DEF EndLine
  <2>2. CASE line.is_overlong
    <3>1. Len(typed) > kCommandBufferSize /\ typed \in Seq(Character)
      BY <2>2 DEF KeepsInv, ObserverKeeps
    <3>2. Len(WithoutCR(typed)) > Len(kAnalogCommand)
      <4>1. Len(WithoutCR(typed)) \in {Len(typed), Len(typed) - 1}
        BY <3>1, LenWithoutCR
      <4>2. Len(typed) \in Nat BY <3>1
      <4> QED BY <4>1, <4>2, <3>1, BufferSizes
    <3>3. WithoutCR(typed) # <<>> /\ WithoutCR(typed) # kAnalogCommand
      BY <3>2, BufferSizes
    <3> QED BY <2>1, <2>2, <3>3 DEF judge
  <2>3. CASE ~line.is_overlong
    BY <2>1, <2>3 DEF judge, KeepsInv, ObserverKeeps
  <2> QED BY <2>2, <2>3
<1> QED BY <1>1, Keeps, PTL DEF LineSpec, ObserverJudgesWholeLines

(* The emulator's model is given the line that was typed or none: a line    *)
(* its buffer cut is still too long, for every limit, since the buffer has  *)
(* room for one character more than a carriage return can take away.        *)
THEOREM EmulatorReads == LineSpec => EmulatorReadsWholeLines
<1>1. KeepsInv /\ EndLine =>
        result' = IF Len(WithoutCR(typed)) > kMaxLineLen THEN RefusedLine
                  ELSE AcceptedLine(WithoutCR(typed))
  <2> SUFFICES ASSUME KeepsInv, EndLine
               PROVE  result' = IF Len(WithoutCR(typed)) > kMaxLineLen THEN RefusedLine
                                ELSE AcceptedLine(WithoutCR(typed))
    OBVIOUS
  <2>1. result' = applied(reader) BY DEF EndLine
  <2>2. CASE Len(typed) <= kLineBufferSize
    BY <2>1, <2>2 DEF applied, KeepsInv, EmulatorKeeps
  <2>3. CASE ~(Len(typed) <= kLineBufferSize)
    <3>1. /\ reader \in Seq(Character) /\ typed \in Seq(Character)
          /\ Len(reader) = kLineBufferSize
      BY <2>3 DEF KeepsInv, EmulatorKeeps
    <3>2. Len(WithoutCR(reader)) > kMaxLineLen
      <4>1. Len(WithoutCR(reader)) \in {Len(reader), Len(reader) - 1}
        BY <3>1, LenWithoutCR
      <4> QED BY <4>1, <3>1, BufferSizes
    <3>3. Len(WithoutCR(typed)) > kMaxLineLen
      <4>1. Len(WithoutCR(typed)) \in {Len(typed), Len(typed) - 1}
        BY <3>1, LenWithoutCR
      <4>2. Len(typed) \in Nat BY <3>1
      <4> QED BY <4>1, <4>2, <2>3, BufferSizes
    <3> QED BY <2>1, <3>2, <3>3 DEF applied
  <2> QED BY <2>2, <2>3
<1> QED BY <1>1, Keeps, PTL DEF LineSpec, EmulatorReadsWholeLines

-----------------------------------------------------------------------------
(* Where the CPU is: in the probe, in a byte of a frame, or in either. *)
IsProbing == cpu \in {"low", "high", "rx"}
IsSending == cpu \in {"poll", "recover"}
IsBusy == IsProbing \/ IsSending

(* What it sends: the sequence, the byte on its way and the flag that asks *)
(* for an ACK, and what the jumper makes of a byte.                         *)
Sequence == kSequences[seq]
Sent == IF IsProbing THEN kProbeByte ELSE ToBits(Sequence[Len(got) + 1])
Flag == IF IsSending /\ Len(got) + 1 < Len(Sequence) THEN 1 ELSE 0
Echo(bits_) == IF "data" \in wires THEN bits_ ELSE kReleasedByte

Typed ==
    /\ sm \in MasterSm
    /\ cpu \in {"probe", "low", "high", "rx", "start", "wait", "poll", "recover", "print"}
    /\ seq \in 1 .. 3
    /\ got \in Seq(Bits)
    /\ timer \in Nat
    /\ bits \in Seq(Bit)
    /\ disturbed \in BOOLEAN

(* What the state machine holds. *)
Holds ==
    /\ MasterAt(sm, Sent, Flag)
    /\ ~IsBusy => sm.pc = "pull" /\ sm.tx = <<>> /\ sm.rx = <<>>
    /\ IsBusy /\ sm.pc = "pull" =>
          \/ sm.tx = <<OutWord(Sent, Flag)>> /\ sm.rx = <<>>
          \/ sm.tx = <<>> /\ Len(sm.rx) = 1
    /\ cpu = "recover" =>
          sm.pc \in {"wait_ack", "push"} \/ (sm.pc = "pull" /\ sm.tx = <<>>)

(* The latest the program is at an instruction. *)
Due ==
    LET bit == 4 * kCyclesPerUs * Len(sm.isr)
        all == 4 * kCyclesPerUs * kWireBitsPerByte
    IN  CASE sm.pc = "pull"     -> kCyclesPerUs - 1
          [] sm.pc = "set_x"    -> 2 * kCyclesPerUs - 1
          [] sm.pc = "out"      -> 3 * kCyclesPerUs - 1 + bit
          [] sm.pc = "in"       -> 5 * kCyclesPerUs - 1 + bit
          [] sm.pc = "jmp_x"    -> 2 * kCyclesPerUs - 1 + bit
          [] sm.pc = "out_y"    -> 3 * kCyclesPerUs - 1 + all
          [] sm.pc = "jmp_y"    -> 4 * kCyclesPerUs - 1 + all
          [] sm.pc = "wait_ack" -> 5 * kCyclesPerUs - 1 + all
          [] sm.pc = "push"     -> 6 * kCyclesPerUs - 1 + all

(* A byte is on time until it waits for an ACK that no jumper gives. *)
HasAck == ~disturbed /\ "ack" \in wires

Punctual ==
    cpu = "poll" /\ sm.rx = <<>> /\ (sm.pc \in {"wait_ack", "push"} => Flag = 0 \/ HasAck) =>
        timer + sm.wait <= Due

(* What comes back of the byte on its way is its echo. *)
Echoes ==
    cpu = "poll" /\ ~disturbed =>
        /\ \A i \in 1 .. Len(sm.isr) : sm.isr[i] = Echo(Sent)[i]
        /\ sm.rx # <<>> => sm.rx = <<Echo(Sent)>>
        /\ Flag = 1 /\ (sm.pc = "push" \/ sm.rx # <<>>) => "ack" \in wires

(* What has come of the frame is the echo of what was sent, all of it with *)
(* the ACK jumper in place and none of it without.                         *)
Lines ==
    /\ cpu \in {"wait", "poll", "recover"} => Len(got) < Len(Sequence)
    /\ cpu \in {"wait", "poll", "recover", "print"} /\ ~disturbed =>
        /\ Len(got) <= Len(Sequence)
        /\ \A i \in 1 .. Len(got) : got[i] = Echo(ToBits(Sequence[i]))
        /\ "ack" \notin wires /\ Len(Sequence) > 1 => got = <<>>
    /\ cpu = "recover" /\ ~disturbed => "ack" \notin wires /\ Len(Sequence) > 1
    /\ cpu = "print" /\ ~disturbed =>
        Len(got) = IF "ack" \in wires \/ Len(Sequence) = 1 THEN Len(Sequence) ELSE 0

(* The bits the probe has read so far are the first of the probe byte, and *)
(* it is at the edge of the next.                                          *)
Read == Len(bits)

Probes ==
    IsProbing /\ ~disturbed =>
        IF "clk_to_ground" \in wires THEN cpu \in {"low", "high"} /\ bits = <<>>
        ELSE /\ bits = SubSeq(kProbeByte, 1, Read) /\ Read <= kWireBitsPerByte
             /\ cpu = "low" =>
                   /\ Read < kWireBitsPerByte
                   /\ \/ sm.pc = "pull" /\ sm.tx # <<>> /\ Read = 0
                      \/ sm.pc = "set_x" /\ Read = 0
                      \/ sm.pc \in {"out", "in", "jmp_x"} /\ Len(sm.isr) = Read
             /\ cpu = "high" =>
                   /\ Read < kWireBitsPerByte
                   /\ \/ sm.pc = "in" /\ Len(sm.isr) = Read
                      \/ sm.pc = "jmp_x" /\ Len(sm.isr) = Read + 1
             /\ cpu = "rx" => Read = kWireBitsPerByte

(* PrintsWhatIsWired is not inductive: it speaks of the frame when it ends.  *)
LoopInv ==
    Typed /\ Holds /\ Punctual /\ Echoes /\ Lines /\ Probes /\ ProbeShowsWire

-----------------------------------------------------------------------------
(* A bit of a byte is 0 or 1. *)
LEMMA BitsOfByte ==
    ASSUME NEW byte \in 0 .. 255
    PROVE  ToBits(byte) \in Bits
<1>1. ASSUME NEW i \in 1 .. kWireBitsPerByte
      PROVE  (byte \div 2 ^ (i - 1)) % 2 \in Bit
  <2>1. i \in 1 .. 8 BY ByteAssumption, Widths
  <2>2. 2 ^ (i - 1) \in Nat \ {0}
    <3>0. /\ 2 ^ 0 = 1 /\ 2 ^ 1 = 2 /\ 2 ^ 2 = 4 /\ 2 ^ 3 = 8
          /\ 2 ^ 4 = 16 /\ 2 ^ 5 = 32 /\ 2 ^ 6 = 64 /\ 2 ^ 7 = 128
      OBVIOUS
    <3>1. CASE i = 1
      <4>1. i - 1 = 0 BY <3>1
      <4> QED BY <3>0, <4>1
    <3>2. CASE i = 2
      <4>1. i - 1 = 1 BY <3>2
      <4> QED BY <3>0, <4>1
    <3>3. CASE i = 3
      <4>1. i - 1 = 2 BY <3>3
      <4> QED BY <3>0, <4>1
    <3>4. CASE i = 4
      <4>1. i - 1 = 3 BY <3>4
      <4> QED BY <3>0, <4>1
    <3>5. CASE i = 5
      <4>1. i - 1 = 4 BY <3>5
      <4> QED BY <3>0, <4>1
    <3>6. CASE i = 6
      <4>1. i - 1 = 5 BY <3>6
      <4> QED BY <3>0, <4>1
    <3>7. CASE i = 7
      <4>1. i - 1 = 6 BY <3>7
      <4> QED BY <3>0, <4>1
    <3>8. CASE i = 8
      <4>1. i - 1 = 7 BY <3>8
      <4> QED BY <3>0, <4>1
    <3> QED BY <2>1, <3>1, <3>2, <3>3, <3>4, <3>5, <3>6, <3>7, <3>8
  <2>3. PICK p \in Nat \ {0} : p = 2 ^ (i - 1) BY <2>2
  <2>4. byte \div p \in Nat OBVIOUS
  <2>5. (byte \div p) % 2 \in {0, 1} BY <2>4
  <2> QED BY <2>3, <2>5 DEF Bit
<1> QED BY <1>1 DEF ToBits, Bits

(* What is sent is bytes. *)
LEMMA SequencesOfBytes ==
    /\ kProbeByte \in Bits
    /\ Len(kSequences) = 3 /\ DOMAIN kSequences = 1 .. 3
    /\ \A s \in 1 .. 3 :
          /\ Len(kSequences[s]) \in Nat \ {0}
          /\ \A i \in 1 .. Len(kSequences[s]) : ToBits(kSequences[s][i]) \in Bits
<1>1. kProbeByte \in Bits BY BitsOfByte DEF kProbeByte
<1>2. Len(kSequences) = 3 /\ DOMAIN kSequences = 1 .. 3 BY DEF kSequences
<1>3. kSequences[1] = kSeqPoll /\ kSequences[2] = kSeqPattern /\ kSequences[3] = kSeqSingle
  BY DEF kSequences
<1>4. kSeqPoll \in Seq(0 .. 255) /\ Len(kSeqPoll) = 5
  BY DEF kSeqPoll
<1>5. kSeqPattern \in Seq(0 .. 255) /\ Len(kSeqPattern) = 9
  BY DEF kSeqPattern
<1>6. kSeqSingle \in Seq(0 .. 255) /\ Len(kSeqSingle) = 1
  BY DEF kSeqSingle
<1>7. ASSUME NEW s \in 1 .. 3
      PROVE  kSequences[s] \in Seq(0 .. 255) /\ Len(kSequences[s]) \in Nat \ {0}
  <2>1. CASE s = 1 BY <2>1, <1>3, <1>4
  <2>2. CASE s = 2 BY <2>2, <1>3, <1>5
  <2>3. CASE s = 3 BY <2>3, <1>3, <1>6
  <2> QED BY <2>1, <2>2, <2>3
<1>8. ASSUME NEW s \in 1 .. 3, NEW i \in 1 .. Len(kSequences[s])
      PROVE  ToBits(kSequences[s][i]) \in Bits
  <2>1. PICK bytes \in Seq(0 .. 255) : bytes = kSequences[s] BY <1>7
  <2>2. bytes[i] \in 0 .. 255
    <3>1. i \in 1 .. Len(bytes) BY <2>1
    <3> QED BY <2>1, <3>1, ElementOfSeq
  <2> QED BY <2>1, <2>2, BitsOfByte
<1> QED BY <1>1, <1>2, <1>7, <1>8

(* So is what is sent now. *)
LEMMA SentIsByte ==
    ASSUME Typed, Lines, IsBusy
    PROVE  Sent \in Bits
<1>1. CASE IsProbing BY <1>1, SequencesOfBytes DEF Sent
<1>2. CASE ~IsProbing
  <2>1. cpu \in {"poll", "recover"} BY <1>2 DEF IsBusy, IsSending
  <2>2. Len(got) < Len(Sequence) BY <2>1 DEF Lines
  <2>3. Len(got) + 1 \in 1 .. Len(Sequence)
    BY <2>2, SequencesOfBytes DEF Typed, Sequence
  <2>4. ToBits(Sequence[Len(got) + 1]) \in Bits
    BY <2>3, SequencesOfBytes DEF Typed, Sequence
  <2> QED BY <1>2, <2>4 DEF Sent
<1> QED BY <1>1, <1>2

(* At `pull` it does not matter which byte comes next. *)
LEMMA AnyAtPull ==
    ASSUME NEW m \in MasterSm, m.pc = "pull", NEW byte, NEW flag, NEW byte2, NEW flag2,
           MasterAt(m, byte, flag)
    PROVE  MasterAt(m, byte2, flag2)
BY DEF MasterAt

(* A word put into the empty FIFO. *)
LEMMA WordPut ==
    ASSUME NEW m \in MasterSm, m.pc = "pull", m.tx = <<>>, m.rx = <<>>,
           NEW byte \in Bits, NEW flag \in Bit, NEW byte2, NEW flag2,
           MasterAt(m, byte2, flag2)
    PROVE  LET e == put(m, OutWord(byte, flag))
           IN  /\ e \in MasterSm /\ e.pc = "pull" /\ e.tx = <<OutWord(byte, flag)>>
               /\ e.rx = <<>> /\ e.isr = <<>> /\ e.wait = m.wait /\ m.wait < kCyclesPerUs
               /\ MasterAt(e, byte, flag)
<1>1. PICK e : e = put(m, OutWord(byte, flag)) OBVIOUS
<1>2. PICK w \in Seq(Bit) : w = OutWord(byte, flag) BY AnOutWord
<1>3. Len(m.tx) < kFifoDepth BY DEF kFifoDepth
<1>4. PICK t \in Seq(Seq(Bit)) : t = <<w>>
  <2>1. <<w>> \in Seq(Seq(Bit)) OBVIOUS
  <2> QED BY <2>1
<1>5. Append(m.tx, w) = t BY <1>4
<1>6. e = [m EXCEPT !.tx = t] BY <1>1, <1>2, <1>3, <1>5 DEF put
<1>7. e \in MasterSm /\ e.pc = "pull" /\ e.tx = t /\ e.rx = <<>> /\ e.isr = m.isr
      /\ e.wait = m.wait /\ e.clk = m.clk
  BY <1>6 DEF MasterSm
<1>8. m.isr = <<>> /\ m.wait < kCyclesPerUs /\ m.clk = 1 BY DEF MasterAt
<1>9. MasterAt(e, byte, flag) BY <1>7, <1>8 DEF MasterAt
<1> QED BY <1>1, <1>2, <1>4, <1>7, <1>8, <1>9

(* A queue of one is not empty. *)
LEMMA OneItem ==
    ASSUME NEW S, NEW q \in Seq(S), Len(q) = 1
    PROVE  q # <<>>
OBVIOUS

(* A byte taken from the FIFO. *)
LEMMA ByteDropped ==
    ASSUME NEW m \in MasterSm, m.pc = "pull", Len(m.rx) = 1, NEW byte, NEW flag,
           MasterAt(m, byte, flag)
    PROVE  LET e == dropped_byte(m)
           IN  /\ e \in MasterSm /\ e.pc = "pull" /\ e.tx = m.tx /\ e.rx = <<>>
               /\ Head(m.rx) \in Bits
               /\ MasterAt(e, byte, flag)
<1>1. PICK e : e = dropped_byte(m) OBVIOUS
<1>2. PICK q \in Seq(Bits) : q = m.rx /\ Len(q) = 1 BY DEF MasterSm
<1>3. PICK r \in Seq(Bits) : r = Tail(m.rx) /\ Len(r) = 0
  <2>1. q # <<>> BY <1>2, OneItem
  <2>2. Tail(q) \in Seq(Bits) /\ Len(Tail(q)) = 0 BY <1>2, <2>1, HeadTailProperties
  <2> QED BY <1>2, <2>2
<1>4. r = <<>> BY <1>3, EmptySeq
<1>5. e = [m EXCEPT !.rx = r] BY <1>1, <1>3 DEF dropped_byte
<1>6. e \in MasterSm /\ e.pc = "pull" /\ e.tx = m.tx /\ e.rx = r /\ e.isr = m.isr
      /\ e.wait = m.wait /\ e.clk = m.clk
  BY <1>5 DEF MasterSm
<1>7. MasterAt(e, byte, flag) BY <1>6 DEF MasterAt
<1>8. Head(m.rx) \in Bits
  <2>1. q # <<>> BY <1>2, OneItem
  <2>2. Head(q) \in Bits BY <2>1, HeadTailProperties
  <2> QED BY <1>2, <2>2
<1> QED BY <1>1, <1>4, <1>6, <1>7, <1>8

(* Whatever the program was at, once CLK was high. *)
LEMMA Recovered ==
    ASSUME NEW m \in MasterSm, m.clk = 1, NEW byte, NEW flag
    PROVE  LET e == recover(m)
           IN  /\ e \in MasterSm /\ e.pc = "pull" /\ e.tx = <<>> /\ e.rx = <<>>
               /\ MasterAt(e, byte, flag)
<1>1. PICK e : e = recover(m) OBVIOUS
<1>2. PICK w \in 0 .. 2 * kCyclesPerUs - 1 : w = m.wait % kCyclesPerUs /\ w < kCyclesPerUs
  BY Widths DEF MasterSm
<1>3. PICK t \in Seq(Seq(Bit)) : t = <<>>
  <2>1. <<>> \in Seq(Seq(Bit)) OBVIOUS
  <2> QED BY <2>1
<1>4. PICK r \in Seq(Bits) : r = <<>>
  <2>1. <<>> \in Seq(Bits) OBVIOUS
  <2> QED BY <2>1
<1>5. PICK i \in Seq(Bit) : i = <<>>
  <2>1. <<>> \in Seq(Bit) OBVIOUS
  <2> QED BY <2>1
<1>6. e = [m EXCEPT !.tx = t, !.rx = r, !.isr = i, !.wait = w, !.pc = "pull"]
  BY <1>1, <1>2, <1>3, <1>4, <1>5 DEF recover
<1>7. e \in MasterSm /\ e.pc = "pull" /\ e.tx = t /\ e.rx = r /\ e.isr = i
      /\ e.wait = w /\ e.clk = m.clk
  BY <1>6, ZenonT(60) DEF MasterSm
<1>8. MasterAt(e, byte, flag) BY <1>2, <1>5, <1>7 DEF MasterAt
<1> QED BY <1>1, <1>3, <1>4, <1>7, <1>8

-----------------------------------------------------------------------------
(* The boot. *)
LEMMA LoopInitInv == LoopInit => LoopInv
<1> SUFFICES ASSUME LoopInit PROVE LoopInv OBVIOUS
<1>1. MasterAtBoot \in MasterSm
  <2>1. 0 \in 0 .. 2 * kCyclesPerUs - 1 /\ 0 \in 0 .. kWireBitsPerByte - 1 BY Widths
  <2>2. <<>> \in Seq(Bit) /\ <<>> \in Seq(Seq(Bit)) /\ <<>> \in Seq(Bits) OBVIOUS
  <2> QED BY <2>1, <2>2 DEF MasterAtBoot, MasterSm, Bit
<1>2. MasterAtBoot.pc = "pull" /\ MasterAtBoot.tx = <<>> /\ MasterAtBoot.rx = <<>>
      /\ MasterAtBoot.isr = <<>> /\ MasterAtBoot.wait = 0 /\ MasterAtBoot.clk = 1
  BY DEF MasterAtBoot
<1>3. MasterAt(MasterAtBoot, Sent, Flag) BY <1>2, Widths DEF MasterAt
<1>4. Typed
  <2>1. <<>> \in Seq(Bits) /\ <<>> \in Seq(Bit) OBVIOUS
  <2>2. sm = MasterAtBoot /\ cpu = "probe" /\ seq = 1 /\ got = <<>> /\ timer = 0 /\ bits = <<>>
        /\ disturbed = FALSE
    BY DEF LoopInit
  <2>3. seq \in 1 .. 3 /\ timer \in Nat BY <2>2
  <2> QED BY <1>1, <2>1, <2>2, <2>3 DEF Typed
<1>5. Holds BY <1>2, <1>3 DEF LoopInit, Holds, IsBusy, IsProbing, IsSending
<1> QED BY <1>4, <1>5 DEF LoopInit, LoopInv, Punctual, Echoes, Lines, Probes, IsProbing, ProbeShowsWire

(* A step of the person's. *)
LEMMA MoveKeeps == LoopInv /\ Move => LoopInv'
<1> SUFFICES ASSUME LoopInv, Move PROVE LoopInv' OBVIOUS
<1>1. /\ sm' = sm /\ cpu' = cpu /\ seq' = seq /\ got' = got /\ timer' = timer /\ bits' = bits
      /\ disturbed' = TRUE
  BY DEF Move, frameVars
<1>2. Sent' = Sent /\ Flag' = Flag /\ IsBusy' = IsBusy /\ IsProbing' = IsProbing
      /\ Sequence' = Sequence /\ Due' = Due
  BY <1>1 DEF Sent, Flag, IsBusy, IsProbing, IsSending, Sequence, Due
<1>3. Typed' BY <1>1 DEF LoopInv, Typed
<1>4. Holds' BY <1>1, <1>2 DEF LoopInv, Holds
<1>5. Punctual' BY <1>1, <1>2 DEF LoopInv, Punctual, HasAck
<1>6. Echoes' /\ Probes' /\ ProbeShowsWire' BY <1>1 DEF Echoes, Probes, ProbeShowsWire
<1>7. Lines' BY <1>1, <1>2 DEF LoopInv, Lines
<1> QED BY <1>3, <1>4, <1>5, <1>6, <1>7 DEF LoopInv

-----------------------------------------------------------------------------
(* The steps of the probe. *)
LEMMA ProbeKeeps == LoopInv /\ Probe => LoopInv'
<1> SUFFICES ASSUME LoopInv, Probe PROVE LoopInv' OBVIOUS
<1>1. /\ cpu = "probe" /\ cpu' = "low" /\ bits' = <<>> /\ disturbed' = FALSE
      /\ sm' = put(sm, OutWord(kProbeByte, 0))
      /\ seq' = seq /\ got' = got /\ timer' = timer /\ wires' = wires
  BY DEF Probe, OutWord, frameVars
<1>2. /\ sm \in MasterSm /\ sm.pc = "pull" /\ sm.tx = <<>> /\ sm.rx = <<>>
      /\ MasterAt(sm, Sent, Flag)
  BY <1>1 DEF LoopInv, Typed, Holds, IsBusy, IsProbing, IsSending
<1>3. /\ sm' \in MasterSm /\ sm'.pc = "pull" /\ sm'.tx = <<OutWord(kProbeByte, 0)>>
      /\ sm'.rx = <<>> /\ sm'.isr = <<>>
      /\ MasterAt(sm', kProbeByte, 0)
  BY <1>1, <1>2, WordPut, SequencesOfBytes DEF Bit
<1>4. IsProbing' /\ ~IsSending' /\ Sent' = kProbeByte /\ Flag' = 0
  BY <1>1 DEF IsProbing, IsSending, Sent, Flag
<1>5. Typed'
  <2>1. <<>> \in Seq(Bit) OBVIOUS
  <2> QED BY <1>1, <1>3, <2>1 DEF LoopInv, Typed
<1>6. Holds' BY <1>1, <1>3, <1>4 DEF Holds, IsBusy
<1>7. Probes'
  <2>1. SubSeq(kProbeByte, 1, 0) = <<>> /\ 0 < kWireBitsPerByte /\ 0 <= kWireBitsPerByte
    BY AByte, SequencesOfBytes, Widths
  <2>2. sm'.tx # <<>> BY <1>3
  <2>3. Read' = 0 BY <1>1 DEF Read
  <2>4. cpu' = "low" /\ bits' = <<>> /\ sm'.pc = "pull" BY <1>1, <1>3
  <2> QED BY <2>1, <2>2, <2>3, <2>4 DEF Probes
<1>8. Punctual' /\ Echoes' /\ Lines' /\ ProbeShowsWire'
  BY <1>1 DEF Punctual, Echoes, Lines, ProbeShowsWire
<1> QED BY <1>5, <1>6, <1>7, <1>8 DEF LoopInv

(* CLK is low: the probe has one bit more to read, at the next rise. *)
LEMMA ClkFellKeeps == LoopInv /\ ClkFell => LoopInv'
<1> SUFFICES ASSUME LoopInv, ClkFell PROVE LoopInv' OBVIOUS
<1>1. /\ cpu = "low" /\ cpu' = "high" /\ clk = 0 /\ sm' = sm /\ bits' = bits
      /\ seq' = seq /\ got' = got /\ timer' = timer /\ wires' = wires /\ disturbed' = disturbed
  BY DEF ClkFell, frameVars
<1>2. IsProbing /\ IsProbing' /\ ~IsSending /\ ~IsSending' /\ Sent' = Sent /\ Flag' = Flag
  BY <1>1 DEF IsProbing, IsSending, Sent, Flag
<1>3. Typed' BY <1>1 DEF LoopInv, Typed
<1>4. Holds' BY <1>1, <1>2 DEF LoopInv, Holds, IsBusy
<1>5. Probes'
  <2>1. clk = 0 /\ MasterAt(sm, Sent, Flag) BY <1>1 DEF LoopInv, Holds
  <2>2. sm.clk = 0 => sm.pc = "in" BY <2>1 DEF MasterAt
  <2>3. "clk_to_ground" \notin wires => sm.pc = "in" BY <2>1, <2>2 DEF clk
  <2> QED BY <1>1, <1>2, <2>3 DEF LoopInv, Probes, Read
<1>6. Punctual' /\ Echoes' /\ Lines' /\ ProbeShowsWire'
  BY <1>1 DEF Punctual, Echoes, Lines, ProbeShowsWire
<1> QED BY <1>3, <1>4, <1>5, <1>6 DEF LoopInv

(* The bit that is read at the rise is the next of the probe byte. *)
LEMMA ClkRoseKeeps == LoopInv /\ ClkRose => LoopInv'
<1> SUFFICES ASSUME LoopInv, ClkRose PROVE LoopInv' OBVIOUS
<1>1. /\ cpu = "high" /\ clk = 1 /\ sm' = sm /\ bits' = Append(bits, sm.cmd)
      /\ cpu' = (IF Len(bits') < kWireBitsPerByte THEN "low" ELSE "rx")
      /\ seq' = seq /\ got' = got /\ timer' = timer /\ wires' = wires /\ disturbed' = disturbed
  BY DEF ClkRose, frameVars
<1>2. IsProbing /\ IsProbing' /\ ~IsSending /\ ~IsSending' /\ Sent' = Sent /\ Flag' = Flag
      /\ Sent = kProbeByte
  BY <1>1 DEF IsProbing, IsSending, Sent, Flag
<1>3. bits \in Seq(Bit) /\ sm.cmd \in Bit BY DEF LoopInv, Typed, MasterSm
<1>4. bits' \in Seq(Bit) /\ Len(bits') = Len(bits) + 1 BY <1>1, <1>3, AppendProperties
<1>5. Typed'
  <2>1. cpu' \in {"low", "rx"} BY <1>1
  <2> QED BY <1>1, <1>4, <2>1 DEF LoopInv, Typed
<1>6. Holds' BY <1>1, <1>2 DEF LoopInv, Holds, IsBusy
<1>7. Probes'
  <2> SUFFICES ASSUME ~disturbed PROVE Probes' BY <1>1 DEF Probes
  <2>1. "clk_to_ground" \notin wires /\ sm.clk = 1
    <3>1. clk = 1 /\ sm.clk \in {0, 1} BY <1>1 DEF LoopInv, Typed, MasterSm, Bit
    <3>2. CASE "clk_to_ground" \in wires BY <3>1, <3>2 DEF clk
    <3>3. CASE "clk_to_ground" \notin wires BY <3>1, <3>3 DEF clk
    <3> QED BY <3>2, <3>3
  <2>2. sm.pc # "in"
    <3>1. MasterAt(sm, Sent, Flag) BY DEF LoopInv, Holds
    <3>2. sm.clk = (IF sm.pc = "in" THEN 0 ELSE 1) BY <3>1 DEF MasterAt
    <3> QED BY <2>1, <3>2
  <2>3. /\ bits = SubSeq(kProbeByte, 1, Read) /\ Read < kWireBitsPerByte
        /\ sm.pc = "jmp_x" /\ Len(sm.isr) = Read + 1
    BY <1>1, <1>2, <2>1, <2>2 DEF LoopInv, Probes
  <2>4. sm.cmd = kProbeByte[Len(sm.isr)]
    BY <1>2, <2>3 DEF LoopInv, Holds, MasterAt
  <2>5. Read \in Nat /\ Read' = Read + 1 BY <1>3, <1>4 DEF Read
  <2>6. bits' = SubSeq(kProbeByte, 1, Read + 1)
    <3>1. kProbeByte \in Seq(Bit) /\ Len(kProbeByte) = kWireBitsPerByte BY AByte, SequencesOfBytes
    <3>2. Read \in 0 .. Len(kProbeByte) - 1 BY <2>3, <2>5, <3>1, Widths
    <3>3. Append(SubSeq(kProbeByte, 1, Read), kProbeByte[Read + 1]) = SubSeq(kProbeByte, 1, Read + 1)
      BY <3>1, <3>2, Grown
    <3> QED BY <1>1, <2>3, <2>4, <3>3
  <2>7. Read' <= kWireBitsPerByte BY <2>3, <2>5, Widths
  <2>8. cpu' = (IF Read' < kWireBitsPerByte THEN "low" ELSE "rx") BY <1>1 DEF Read
  <2>9. ~(Read' < kWireBitsPerByte) => Read' = kWireBitsPerByte BY <2>7, <2>5, Widths
  <2> QED BY <1>1, <2>1, <2>3, <2>5, <2>6, <2>7, <2>8, <2>9 DEF Probes
<1>8. Punctual' /\ Echoes' /\ Lines' /\ ProbeShowsWire'
  <2>1. cpu' \in {"low", "rx"} BY <1>1
  <2> QED BY <2>1 DEF Punctual, Echoes, Lines, ProbeShowsWire
<1> QED BY <1>5, <1>6, <1>7, <1>8 DEF LoopInv

(* The probe ends when its byte has come: all its bits are read. *)
LEMMA ProbedKeeps == LoopInv /\ Probed => LoopInv'
<1> SUFFICES ASSUME LoopInv, Probed PROVE LoopInv' OBVIOUS
<1>1. /\ cpu = "rx" /\ cpu' = "start" /\ sm.rx # <<>> /\ sm' = dropped_byte(sm) /\ bits' = bits
      /\ seq' = seq /\ got' = got /\ timer' = timer /\ wires' = wires /\ disturbed' = disturbed
  BY DEF Probed, frameVars, has_byte
<1>2. /\ sm \in MasterSm /\ sm.pc = "pull" /\ sm.tx = <<>> /\ Len(sm.rx) = 1
      /\ MasterAt(sm, Sent, Flag)
  BY <1>1 DEF LoopInv, Typed, Holds, IsBusy, IsProbing, MasterAt
<1>3. /\ sm' \in MasterSm /\ sm'.pc = "pull" /\ sm'.tx = <<>> /\ sm'.rx = <<>>
      /\ MasterAt(sm', Sent, Flag)
  BY <1>1, <1>2, ByteDropped
<1>4. MasterAt(sm', Sent', Flag') BY <1>3, AnyAtPull
<1>5. ~IsBusy' BY <1>1 DEF IsBusy, IsProbing, IsSending
<1>6. Typed' BY <1>1, <1>3 DEF LoopInv, Typed
<1>7. Holds' BY <1>1, <1>3, <1>4, <1>5 DEF Holds
<1>8. ProbeShowsWire'
  <2>1. ~disturbed => /\ "clk_to_ground" \notin wires
                      /\ bits = SubSeq(kProbeByte, 1, kWireBitsPerByte)
    BY <1>1 DEF LoopInv, Probes, IsProbing
  <2> QED BY <1>1, <2>1, AByte, SequencesOfBytes DEF ProbeShowsWire
<1>9. Punctual' /\ Echoes' /\ Lines' /\ Probes'
  BY <1>1 DEF Punctual, Echoes, Lines, Probes, IsProbing
<1> QED BY <1>6, <1>7, <1>8, <1>9 DEF LoopInv

(* An edge that never comes: CLK is grounded, and nothing was read. *)
LEMMA ProbeTimeOutKeeps == LoopInv /\ ProbeTimeOut => LoopInv'
<1> SUFFICES ASSUME LoopInv, ProbeTimeOut PROVE LoopInv' OBVIOUS
<1>1. /\ cpu \in {"low", "high"} /\ cpu' = "start" /\ sm' = recover(sm) /\ bits' = <<>>
      /\ (cpu = "low" /\ clk = 1) \/ (cpu = "high" /\ clk = 0)
      /\ sm.pc = "pull" /\ sm.tx = <<>>
      /\ seq' = seq /\ got' = got /\ timer' = timer /\ wires' = wires /\ disturbed' = disturbed
  BY DEF ProbeTimeOut, IsWaitingForEdge, frameVars
<1>2. sm \in MasterSm /\ sm.clk = 1 BY <1>1 DEF LoopInv, Typed, Holds, MasterAt
<1>3. /\ sm' \in MasterSm /\ sm'.pc = "pull" /\ sm'.tx = <<>> /\ sm'.rx = <<>>
      /\ MasterAt(sm', Sent', Flag')
  BY <1>1, <1>2, Recovered
<1>4. ~IsBusy' BY <1>1 DEF IsBusy, IsProbing, IsSending
<1>5. Typed'
  <2>1. <<>> \in Seq(Bit) OBVIOUS
  <2> QED BY <1>1, <1>3, <2>1 DEF LoopInv, Typed
<1>6. Holds' BY <1>1, <1>3, <1>4 DEF Holds
<1>7. ProbeShowsWire'
  <2>1. ~disturbed => "clk_to_ground" \in wires
    BY <1>1 DEF LoopInv, Probes, IsProbing
  <2> QED BY <1>1, <2>1 DEF ProbeShowsWire
<1>8. Punctual' /\ Echoes' /\ Lines' /\ Probes'
  BY <1>1 DEF Punctual, Echoes, Lines, Probes, IsProbing
<1> QED BY <1>5, <1>6, <1>7, <1>8 DEF LoopInv

-----------------------------------------------------------------------------
(* The steps of the frame. *)
LEMMA StartFrameKeeps == LoopInv /\ StartFrame => LoopInv'
<1> SUFFICES ASSUME LoopInv, StartFrame PROVE LoopInv' OBVIOUS
<1>1. /\ cpu = "start" /\ cpu' = "wait" /\ timer' = kAttSetupUs * kCyclesPerUs /\ got' = <<>>
      /\ sm' = sm /\ seq' = seq /\ bits' = bits /\ wires' = wires /\ disturbed' = FALSE
  BY DEF StartFrame
<1>2. /\ sm \in MasterSm /\ sm.pc = "pull" /\ sm.tx = <<>> /\ sm.rx = <<>>
      /\ MasterAt(sm, Sent, Flag)
  BY <1>1 DEF LoopInv, Typed, Holds, IsBusy, IsProbing, IsSending
<1>3. MasterAt(sm', Sent', Flag') BY <1>1, <1>2, AnyAtPull
<1>4. ~IsBusy' BY <1>1 DEF IsBusy, IsProbing, IsSending
<1>5. Typed'
  <2>1. <<>> \in Seq(Bits) OBVIOUS
  <2>2. timer' \in Nat BY <1>1, UsAssumption, Widths
  <2> QED BY <1>1, <2>1, <2>2 DEF LoopInv, Typed
<1>6. Holds' BY <1>1, <1>2, <1>3, <1>4 DEF Holds
<1>7. Lines'
  <2>1. Len(got') = 0 BY <1>1
  <2>2. Sequence' = kSequences[seq] BY <1>1 DEF Sequence
  <2>3. Len(kSequences[seq]) \in Nat \ {0} BY SequencesOfBytes DEF LoopInv, Typed
  <2> QED BY <1>1, <2>1, <2>2, <2>3 DEF Lines
<1>8. Punctual' /\ Echoes' /\ Probes' /\ ProbeShowsWire'
  BY <1>1 DEF Punctual, Echoes, Probes, IsProbing, ProbeShowsWire
<1> QED BY <1>5, <1>6, <1>7, <1>8 DEF LoopInv

(* A byte starts on an idle state machine, with its whole budget. *)
LEMMA PutByteKeeps == LoopInv /\ PutByte => LoopInv'
<1> SUFFICES ASSUME LoopInv, PutByte PROVE LoopInv' OBVIOUS
<1>1. /\ cpu = "wait" /\ cpu' = "poll" /\ timer = 0 /\ timer' = timer
      /\ got' = got /\ seq' = seq /\ bits' = bits /\ wires' = wires /\ disturbed' = disturbed
      /\ sm' = put(sm, OutWord(ToBits(Sequence[Len(got) + 1]),
                               IF Len(got) + 1 = Len(Sequence) THEN 0 ELSE 1))
  BY DEF PutByte, frameVars, Sequence, OutWord
<1>2. /\ sm \in MasterSm /\ sm.pc = "pull" /\ sm.tx = <<>> /\ sm.rx = <<>>
      /\ MasterAt(sm, Sent, Flag)
  BY <1>1 DEF LoopInv, Typed, Holds, IsBusy, IsProbing, IsSending
<1>3. Len(got) \in Nat /\ Len(Sequence) \in Nat /\ Len(got) < Len(Sequence)
  BY <1>1, SequencesOfBytes DEF LoopInv, Typed, Lines, Sequence
<1>4. ~IsProbing' /\ IsSending' /\ IsBusy' /\ Sequence' = Sequence
  BY <1>1 DEF IsProbing, IsSending, IsBusy, Sequence
<1>5. Sent' = ToBits(Sequence[Len(got) + 1]) BY <1>1, <1>4 DEF Sent
<1>6. Flag' = (IF Len(got) + 1 = Len(Sequence) THEN 0 ELSE 1)
  BY <1>1, <1>3, <1>4 DEF Flag
<1>7. Lines' BY <1>1, <1>4 DEF LoopInv, Lines, Echo, Sequence
<1>8. sm' = put(sm, OutWord(Sent', Flag')) BY <1>1, <1>5, <1>6
<1>9. Sent' \in Bits /\ Flag' \in Bit
  <2>1. Len(got) + 1 \in 1 .. Len(Sequence) BY <1>3
  <2> QED BY <2>1, <1>5, <1>6, SequencesOfBytes DEF LoopInv, Typed, Sequence, Bit
<1>10. /\ sm' \in MasterSm /\ sm'.pc = "pull" /\ sm'.tx = <<OutWord(Sent', Flag')>>
       /\ sm'.rx = <<>> /\ sm'.isr = <<>> /\ sm'.wait = sm.wait /\ sm.wait < kCyclesPerUs
       /\ MasterAt(sm', Sent', Flag')
  BY <1>2, <1>8, <1>9, WordPut
<1>11. Typed' BY <1>1, <1>10 DEF LoopInv, Typed
<1>12. Holds' BY <1>1, <1>4, <1>10 DEF Holds
<1>13. Punctual'
  <2>1. sm.wait \in Nat BY <1>2, Widths DEF MasterSm
  <2>2. Due' = kCyclesPerUs - 1 BY <1>10 DEF Due
  <2>3. timer' + sm'.wait <= kCyclesPerUs - 1 BY <1>1, <1>10, <2>1, Widths
  <2> QED BY <2>2, <2>3 DEF Punctual
<1>14. Echoes' BY <1>10 DEF Echoes
<1>15. Probes' /\ ProbeShowsWire' BY <1>1 DEF Probes, IsProbing, ProbeShowsWire
<1> QED BY <1>7, <1>11, <1>12, <1>13, <1>14, <1>15 DEF LoopInv

(* The byte that has come is the echo of the one sent. *)
LEMMA GetByteKeeps == LoopInv /\ GetByte => LoopInv'
<1> SUFFICES ASSUME LoopInv, GetByte PROVE LoopInv' OBVIOUS
<1>1. /\ cpu = "poll" /\ sm.rx # <<>> /\ sm' = dropped_byte(sm) /\ got' = Append(got, Head(sm.rx))
      /\ seq' = seq /\ bits' = bits /\ wires' = wires /\ disturbed' = disturbed
  BY DEF GetByte, has_byte
<1>2. IF Len(got') < Len(kSequences[seq])
      THEN cpu' = "wait" /\ timer' = kByteGapUs * kCyclesPerUs
      ELSE cpu' = "print" /\ timer' = 0
  BY DEF GetByte
<1>3. /\ sm \in MasterSm /\ sm.pc = "pull" /\ sm.tx = <<>> /\ Len(sm.rx) = 1
      /\ MasterAt(sm, Sent, Flag)
  BY <1>1 DEF LoopInv, Typed, Holds, IsBusy, IsSending, MasterAt
<1>4. /\ sm' \in MasterSm /\ sm'.pc = "pull" /\ sm'.tx = <<>> /\ sm'.rx = <<>>
      /\ Head(sm.rx) \in Bits /\ MasterAt(sm', Sent, Flag)
  BY <1>1, <1>3, ByteDropped
<1>5. MasterAt(sm', Sent', Flag') BY <1>4, AnyAtPull
<1>6. cpu' \in {"wait", "print"} BY <1>2
<1>7. ~IsBusy' BY <1>6 DEF IsBusy, IsProbing, IsSending
<1>8. PICK n \in Nat : n = Len(got) BY DEF LoopInv, Typed
<1>9. /\ got' \in Seq(Bits) /\ Len(got') = n + 1 /\ got'[n + 1] = Head(sm.rx)
      /\ \A i \in 1 .. n : got'[i] = got[i]
  BY <1>1, <1>4, <1>8, AppendProperties DEF LoopInv, Typed
<1>10. PICK len \in Nat : len = Len(Sequence) /\ len = Len(kSequences[seq]) /\ Sequence' = Sequence
  BY <1>1, SequencesOfBytes DEF LoopInv, Typed, Sequence
<1>11. n < len BY <1>1, <1>8, <1>10 DEF LoopInv, Lines
<1>12. Typed'
  <2>1. timer' \in Nat BY <1>2, UsAssumption, Widths
  <2> QED BY <1>1, <1>4, <1>6, <1>9, <2>1 DEF LoopInv, Typed
<1>13. Holds' BY <1>4, <1>5, <1>6, <1>7 DEF Holds
<1>14. Lines'
  <2>1. cpu' = "wait" => Len(got') < Len(Sequence') BY <1>2, <1>10
  <2>2. ASSUME ~disturbed
        PROVE  /\ Len(got') <= len
               /\ \A i \in 1 .. Len(got') : got'[i] = Echo(ToBits(Sequence[i]))
               /\ "ack" \in wires \/ ~(len > 1)
    <3>1. \A i \in 1 .. n : got[i] = Echo(ToBits(Sequence[i]))
      BY <1>1, <1>8, <2>2 DEF LoopInv, Lines
    <3>2. sm.rx = <<Echo(Sent)>> BY <1>1, <2>2 DEF LoopInv, Echoes
    <3>3. Head(sm.rx) = Echo(Sent) BY <3>2
    <3>4. Sent = ToBits(Sequence[n + 1]) BY <1>1, <1>8 DEF Sent, IsProbing
    <3>5. ASSUME NEW i \in 1 .. n + 1 PROVE got'[i] = Echo(ToBits(Sequence[i]))
      <4>1. CASE i = n + 1 BY <4>1, <1>9, <3>3, <3>4
      <4>2. CASE i # n + 1
        <5>1. i \in 1 .. n BY <4>2
        <5> QED BY <5>1, <1>9, <3>1
      <4> QED BY <4>1, <4>2
    <3>6. ASSUME "ack" \notin wires, len > 1 PROVE FALSE
      <4>1. n = 0 BY <1>1, <1>8, <1>10, <2>2, <3>6 DEF LoopInv, Lines
      <4>2. Flag = 1 BY <1>1, <1>8, <1>10, <3>6, <4>1 DEF Flag, IsSending
      <4> QED BY <1>1, <2>2, <3>6, <4>2 DEF LoopInv, Echoes
    <3> QED BY <1>9, <1>11, <3>5, <3>6
  <2>3. ASSUME NEW i \in 1 .. Len(got')
        PROVE  Echo(ToBits(Sequence[i]))' = Echo(ToBits(Sequence[i]))
    BY <1>1, <1>10 DEF Echo
  <2>4. ASSUME cpu' = "print", ~disturbed
        PROVE  Len(got') = IF "ack" \in wires \/ len = 1 THEN len ELSE 0
    <3>1. ~(Len(got') < len) BY <1>2, <1>10, <2>4
    <3>2. Len(got') = len BY <3>1, <1>9, <1>11
    <3>3. len = 1 \/ len > 1 BY <1>11
    <3> QED BY <2>2, <2>4, <3>2, <3>3
  <2>5. ~disturbed =>
            /\ Len(got') <= Len(Sequence')
            /\ \A i \in 1 .. Len(got') : got'[i] = Echo(ToBits(Sequence[i]))'
            /\ ~("ack" \notin wires' /\ Len(Sequence') > 1)
    BY <1>1, <1>10, <2>2, <2>3
  <2>6. cpu' = "print" /\ ~disturbed =>
            Len(got') = IF "ack" \in wires' \/ Len(Sequence') = 1 THEN Len(Sequence') ELSE 0
    BY <1>1, <1>10, <2>4
  <2>7. disturbed' = disturbed /\ cpu' \in {"wait", "print"} BY <1>1, <1>6
  <2> QED BY <2>1, <2>5, <2>6, <2>7 DEF Lines
<1>15. Punctual' /\ Echoes' /\ Probes' /\ ProbeShowsWire'
  BY <1>6 DEF Punctual, Echoes, Probes, IsProbing, ProbeShowsWire
<1> QED BY <1>12, <1>13, <1>14, <1>15 DEF LoopInv

(* Once it has all the bits, at the latest, the program waits for ACK, or   *)
(* has the byte, within six us.                                             *)
LEMMA DueSoon ==
    ASSUME LoopInv
    PROVE  Due \in Int /\ Due <= 6 * kCyclesPerUs - 1 + 4 * kCyclesPerUs * kWireBitsPerByte
<1>1. PICK k \in Nat : k = kCyclesPerUs /\ k >= 1 BY Widths
<1>2. PICK n \in Nat : n = kWireBitsPerByte BY Widths
<1>3. PICK r \in Nat : r = Len(sm.isr)
  BY DEF LoopInv, Typed, MasterSm
<1>4. sm.pc \in {"out", "in", "jmp_x"} => r <= n
  <2>1. MasterAt(sm, Sent, Flag) BY DEF LoopInv, Holds
  <2>2. sm.pc \in {"out", "in"} => Len(sm.isr) < kWireBitsPerByte BY <2>1 DEF MasterAt
  <2>3. sm.pc = "jmp_x" => Len(sm.isr) \in 1 .. kWireBitsPerByte BY <2>1 DEF MasterAt
  <2> QED BY <1>2, <1>3, <2>2, <2>3
<1>5. r <= n => 4 * k * r <= 4 * k * n BY <1>1
<1>6. 4 * k * r \in Nat /\ 4 * k * n \in Nat OBVIOUS
<1>7. sm.pc \in {"pull", "set_x", "out", "in", "jmp_x", "out_y", "jmp_y", "wait_ack", "push"}
  BY DEF LoopInv, Typed, MasterSm
<1>8. PICK bit \in Nat : bit = 4 * k * r /\ (r <= n => bit <= 4 * k * n) BY <1>5, <1>6
<1>9. PICK all \in Nat : all = 4 * k * n BY <1>6
<1>10. Due = CASE sm.pc = "pull"     -> k - 1
               [] sm.pc = "set_x"    -> 2 * k - 1
               [] sm.pc = "out"      -> 3 * k - 1 + bit
               [] sm.pc = "in"       -> 5 * k - 1 + bit
               [] sm.pc = "jmp_x"    -> 2 * k - 1 + bit
               [] sm.pc = "out_y"    -> 3 * k - 1 + all
               [] sm.pc = "jmp_y"    -> 4 * k - 1 + all
               [] sm.pc = "wait_ack" -> 5 * k - 1 + all
               [] sm.pc = "push"     -> 6 * k - 1 + all
  BY <1>1, <1>2, <1>3, <1>8, <1>9 DEF Due
<1>11. Due \in Int /\ Due <= 6 * k - 1 + all
  BY <1>1, <1>4, <1>7, <1>8, <1>9, <1>10
<1> QED BY <1>1, <1>2, <1>9, <1>11

(* Left alone, the budget runs out only where no jumper gives the ACK. *)
LEMMA TimeOutKeeps == LoopInv /\ TimeOut => LoopInv'
<1> SUFFICES ASSUME LoopInv, TimeOut PROVE LoopInv' OBVIOUS
<1>1. /\ cpu = "poll" /\ sm.rx = <<>> /\ timer > kByteBudgetUs * kCyclesPerUs
      /\ cpu' = "recover" /\ timer' = 0 /\ sm' = sm /\ seq' = seq /\ got' = got
      /\ bits' = bits /\ wires' = wires /\ disturbed' = disturbed
  BY DEF TimeOut, has_byte
<1>2. ~(timer + sm.wait <= Due)
  <2>1. PICK k \in Nat : k = kCyclesPerUs BY Widths
  <2>2. PICK n \in Nat : n = kWireBitsPerByte BY Widths
  <2>3. PICK a \in Nat : a = kAckTimeoutUs /\ a >= 6 BY AckTimeoutAssumption
  <2>4. (4 * n + a) * k = 4 * k * n + a * k BY <2>1, <2>2, <2>3
  <2>5. a * k >= 6 * k BY <2>1, <2>3
  <2>6. PICK all \in Nat : all = 4 * k * n OBVIOUS
  <2>7. timer > all + 6 * k
    BY <1>1, <2>1, <2>2, <2>3, <2>4, <2>5, <2>6 DEF kByteBudgetUs, LoopInv, Typed
  <2>8. Due \in Int /\ Due <= 6 * k - 1 + all BY <2>1, <2>2, <2>6, DueSoon
  <2>9. timer \in Nat /\ sm.wait \in Nat BY Widths DEF LoopInv, Typed, MasterSm
  <2> QED BY <2>7, <2>8, <2>9
<1>3. sm.pc \in {"wait_ack", "push"} /\ Flag # 0 /\ ~HasAck
  BY <1>1, <1>2 DEF LoopInv, Punctual
<1>4. IsSending /\ IsSending' /\ ~IsProbing /\ ~IsProbing' /\ Sequence' = Sequence
  BY <1>1 DEF IsSending, IsProbing, Sequence
<1>5. Sent' = Sent /\ Flag' = Flag /\ IsBusy' BY <1>1, <1>4 DEF Sent, Flag, IsBusy
<1>6. Typed' BY <1>1 DEF LoopInv, Typed
<1>7. Holds' BY <1>1, <1>3, <1>4, <1>5 DEF LoopInv, Holds, IsBusy
<1>8. Lines'
  <2>1. Len(Sequence) > 1
    <3>1. Len(got) + 1 < Len(Sequence) BY <1>3 DEF Flag
    <3>2. Len(got) \in Nat /\ Len(Sequence) \in Nat
      BY SequencesOfBytes DEF LoopInv, Typed, Sequence
    <3> QED BY <3>1, <3>2
  <2>2. ~disturbed => "ack" \notin wires BY <1>3 DEF HasAck
  <2> QED BY <1>1, <2>1, <2>2 DEF LoopInv, Lines, Echo, Sequence
<1>9. Punctual' /\ Echoes' /\ Probes' /\ ProbeShowsWire'
  BY <1>1 DEF Punctual, Echoes, Probes, IsProbing, ProbeShowsWire
<1> QED BY <1>6, <1>7, <1>8, <1>9 DEF LoopInv

(* After recovery the state machine is idle again. *)
LEMMA RecoverKeeps == LoopInv /\ Recover => LoopInv'
<1> SUFFICES ASSUME LoopInv, Recover PROVE LoopInv' OBVIOUS
<1>1. /\ cpu = "recover" /\ cpu' = "print" /\ sm' = recover(sm) /\ seq' = seq /\ got' = got
      /\ timer' = timer /\ bits' = bits /\ wires' = wires /\ disturbed' = disturbed
  BY DEF Recover, frameVars
<1>2. sm \in MasterSm /\ sm.clk = 1
  BY <1>1 DEF LoopInv, Typed, Holds, MasterAt
<1>3. /\ sm' \in MasterSm /\ sm'.pc = "pull" /\ sm'.tx = <<>> /\ sm'.rx = <<>>
      /\ MasterAt(sm', Sent', Flag')
  BY <1>1, <1>2, Recovered
<1>4. ~IsBusy' BY <1>1 DEF IsBusy, IsProbing, IsSending
<1>5. Typed' BY <1>1, <1>3 DEF LoopInv, Typed
<1>6. Holds' BY <1>1, <1>3, <1>4 DEF Holds
<1>7. Lines'
  <2>1. ~disturbed => "ack" \notin wires /\ Len(Sequence) > 1 /\ got = <<>>
    BY <1>1 DEF LoopInv, Lines
  <2>2. Len(Sequence) \in Nat BY SequencesOfBytes DEF LoopInv, Typed, Sequence
  <2>3. ~disturbed =>
            /\ "ack" \notin wires' /\ Len(Sequence') > 1 /\ Len(Sequence') \in Nat
            /\ got' = <<>> /\ Len(got') = 0
    BY <1>1, <2>1, <2>2 DEF Sequence
  <2>4. ~disturbed =>
            /\ Len(got') <= Len(Sequence')
            /\ \A i \in 1 .. Len(got') : got'[i] = Echo(ToBits(Sequence[i]))'
            /\ Len(got') = IF "ack" \in wires' \/ Len(Sequence') = 1 THEN Len(Sequence') ELSE 0
    <3>1. ASSUME ~disturbed, NEW i \in 1 .. Len(got')
          PROVE  got'[i] = Echo(ToBits(Sequence[i]))'
      <4>1. Len(got') = 0 BY <2>3, <3>1
      <4> QED BY <4>1
    <3>2. PICK len : len = Len(Sequence') OBVIOUS
    <3>3. ~disturbed =>
              Len(got') <= len /\ Len(got') = IF "ack" \in wires' \/ len = 1 THEN len ELSE 0
      BY <2>3, <3>2
    <3> QED BY <3>1, <3>2, <3>3
  <2>5. cpu' = "print" /\ disturbed' = disturbed BY <1>1
  <2> QED BY <2>3, <2>4, <2>5 DEF Lines
<1>8. Punctual' /\ Echoes' /\ Probes' /\ ProbeShowsWire'
  BY <1>1 DEF Punctual, Echoes, Probes, IsProbing, ProbeShowsWire
<1> QED BY <1>5, <1>6, <1>7, <1>8 DEF LoopInv

(* The next sequence, or the probe, starts with nothing received. *)
LEMMA PrintLineKeeps == LoopInv /\ PrintLine => LoopInv'
<1> SUFFICES ASSUME LoopInv, PrintLine PROVE LoopInv' OBVIOUS
<1>1. /\ cpu = "print" /\ sm' = sm /\ got' = <<>> /\ timer' = timer /\ bits' = bits
      /\ wires' = wires /\ disturbed' = disturbed
  BY DEF PrintLine
<1>2. IF seq < 3 THEN seq' = seq + 1 /\ cpu' = "start" ELSE seq' = 1 /\ cpu' = "probe"
  BY SequencesOfBytes DEF PrintLine
<1>3. /\ sm \in MasterSm /\ sm.pc = "pull" /\ sm.tx = <<>> /\ sm.rx = <<>>
      /\ MasterAt(sm, Sent, Flag)
  BY <1>1 DEF LoopInv, Typed, Holds, IsBusy, IsProbing, IsSending
<1>4. MasterAt(sm', Sent', Flag') BY <1>1, <1>3, AnyAtPull
<1>5. cpu' \in {"start", "probe"} BY <1>2
<1>6. ~IsBusy' BY <1>5 DEF IsBusy, IsProbing, IsSending
<1>7. seq \in 1 .. 3 BY DEF LoopInv, Typed
<1>8. seq' \in 1 .. 3 /\ ~(cpu' = "start" /\ seq' = 1) BY <1>2, <1>7
<1>9. Typed'
  <2>1. <<>> \in Seq(Bits) OBVIOUS
  <2> QED BY <1>1, <1>5, <1>8, <2>1 DEF LoopInv, Typed
<1>10. Holds' BY <1>1, <1>3, <1>4, <1>5, <1>6 DEF Holds
<1>11. Punctual' /\ Echoes' /\ Lines' /\ Probes' /\ ProbeShowsWire'
  BY <1>5, <1>8 DEF Punctual, Echoes, Lines, Probes, IsProbing, ProbeShowsWire
<1> QED BY <1>9, <1>10, <1>11 DEF LoopInv

-----------------------------------------------------------------------------
(* A cycle: what it leaves alone, and what the program does in it. *)
CycleFrame ==
    /\ cpu' = cpu /\ seq' = seq /\ got' = got /\ bits' = bits
    /\ wires' = wires /\ disturbed' = disturbed
    /\ Sent' = Sent /\ Flag' = Flag /\ Sequence' = Sequence
    /\ IsBusy' = IsBusy /\ IsProbing' = IsProbing

(* A cycle moves the state machine and the clock only. *)
LEMMA CycleLeaves == Cycle => CycleFrame
<1> SUFFICES ASSUME Cycle PROVE CycleFrame OBVIOUS
<1>1. /\ cpu' = cpu /\ seq' = seq /\ got' = got /\ bits' = bits
      /\ wires' = wires /\ disturbed' = disturbed
  BY DEF Cycle, frameVars
<1>2. IsProbing' = IsProbing /\ IsSending' = IsSending /\ Sequence' = Sequence
  BY <1>1 DEF IsProbing, IsSending, Sequence
<1>3. IsBusy' = IsBusy /\ Sent' = Sent /\ Flag' = Flag
  BY <1>1, <1>2 DEF IsBusy, Sent, Flag
<1> QED BY <1>1, <1>2, <1>3 DEF CycleFrame

(* DATA and ACK are what the jumpers carry to them. *)
LEMMA Levels ==
    ASSUME Typed
    PROVE  data \in Bit /\ ack \in Bit /\ sm.cmd \in Bit /\ sm.clk \in Bit
<1>1. sm.cmd \in Bit /\ sm.clk \in Bit BY DEF Typed, MasterSm
<1> QED BY <1>1 DEF data, ack, Bit

(* The program in a cycle, while it has a byte under way. *)
LEMMA BusyCycle ==
    ASSUME LoopInv, Cycle, IsBusy
    PROVE  /\ Sent \in Bits /\ Flag \in Bit
           /\ sm' \in MasterSm /\ MasterAt(sm', Sent, Flag)
           /\ MasterGoes(sm, sm', data, ack, Flag)
<1>1. Sent \in Bits BY SentIsByte DEF LoopInv
<1>2. Flag \in Bit BY DEF Flag, Bit
<1>3. sm \in MasterSm /\ MasterAt(sm, Sent, Flag)
      /\ (sm.pc = "pull" => sm.tx = <<>> \/ (sm.tx = <<OutWord(Sent, Flag)>> /\ sm.rx = <<>>))
  BY DEF LoopInv, Typed, Holds
<1>4. data \in Bit /\ ack \in Bit BY Levels DEF LoopInv
<1>5. PICK e : e = MasterCycle(sm, data, ack) OBVIOUS
<1>6. e \in MasterSm /\ MasterAt(e, Sent, Flag) /\ MasterGoes(sm, e, data, ack, Flag)
  BY <1>1, <1>2, <1>3, <1>4, <1>5, MasterAtTick
<1>7. sm' = e BY <1>5 DEF Cycle
<1> QED BY <1>1, <1>2, <1>6, <1>7

(* And while it has none. *)
LEMMA IdleCycle ==
    ASSUME LoopInv, Cycle, ~IsBusy
    PROVE  /\ cpu = "wait" /\ sm' \in MasterSm
           /\ sm'.pc = "pull" /\ sm'.tx = <<>> /\ sm'.rx = <<>>
           /\ MasterAt(sm', Sent, Flag)
<1>1. cpu = "wait"
  BY DEF Cycle, IsWaiting, IsWaitingForEdge, IsBusy, IsProbing, IsSending
<1>2. /\ sm \in MasterSm /\ sm.pc = "pull" /\ sm.tx = <<>> /\ sm.rx = <<>>
      /\ MasterAt(sm, Sent, Flag)
  BY DEF LoopInv, Typed, Holds
<1>3. MasterAt(sm, kProbeByte, 0) BY <1>2, AnyAtPull
<1>4. kProbeByte \in Bits /\ 0 \in Bit BY SequencesOfBytes DEF Bit
<1>5. data \in Bit /\ ack \in Bit BY Levels DEF LoopInv
<1>6. PICK e : e = MasterCycle(sm, data, ack) OBVIOUS
<1>7. e \in MasterSm /\ MasterAt(e, kProbeByte, 0) /\ MasterGoes(sm, e, data, ack, 0)
  BY <1>2, <1>3, <1>4, <1>5, <1>6, MasterAtTick
<1>8. e.pc = "pull" /\ e.tx = <<>> /\ e.rx = <<>>
  BY <1>2, <1>7 DEF MasterGoes
<1>9. sm' = e BY <1>6 DEF Cycle
<1>10. MasterAt(sm', Sent, Flag) BY <1>7, <1>8, <1>9, AnyAtPull
<1> QED BY <1>1, <1>7, <1>8, <1>9, <1>10

(* A cycle keeps the state machine between its instructions. *)
LEMMA CycleHolds ==
    ASSUME LoopInv, Cycle
    PROVE  Typed' /\ Holds'
<1>1. CycleFrame BY CycleLeaves
<1>2. Typed'
  <2>1. sm' \in MasterSm BY BusyCycle, IdleCycle
  <2>2. timer' \in Nat
    <3>1. cpu = "wait" => timer > 0
      BY DEF Cycle, IsWaiting, IsWaitingForEdge
    <3>2. timer \in Nat BY DEF LoopInv, Typed
    <3>3. timer' = CASE cpu = "wait" -> timer - 1
                     [] cpu = "poll" -> timer + 1
                     [] OTHER -> timer
      BY DEF Cycle
    <3> QED BY <3>1, <3>2, <3>3
  <2> QED BY <1>1, <2>1, <2>2 DEF CycleFrame, LoopInv, Typed
<1>3. CASE ~IsBusy
  <2>1. /\ cpu = "wait" /\ sm'.pc = "pull" /\ sm'.tx = <<>> /\ sm'.rx = <<>>
        /\ MasterAt(sm', Sent, Flag)
    BY <1>3, IdleCycle
  <2> QED BY <1>1, <1>2, <1>3, <2>1 DEF CycleFrame, Holds
<1>4. CASE IsBusy
  <2>1. MasterAt(sm', Sent, Flag) /\ MasterGoes(sm, sm', data, ack, Flag)
    BY <1>4, BusyCycle
  <2>2. /\ MasterAt(sm, Sent, Flag)
        /\ sm.pc = "pull" =>
              \/ sm.tx = <<OutWord(Sent, Flag)>> /\ sm.rx = <<>>
              \/ sm.tx = <<>> /\ Len(sm.rx) = 1
        /\ cpu = "recover" =>
              sm.pc \in {"wait_ack", "push"} \/ (sm.pc = "pull" /\ sm.tx = <<>>)
    BY <1>4 DEF LoopInv, Holds
  <2>3. sm'.pc = "pull" =>
              \/ sm'.tx = <<OutWord(Sent, Flag)>> /\ sm'.rx = <<>>
              \/ sm'.tx = <<>> /\ Len(sm'.rx) = 1
    <3>1. sm.pc = "push" /\ sm'.pc = "pull" => sm'.tx = <<>> /\ sm'.rx = <<sm.isr>>
      BY <2>1 DEF MasterGoes
    <3>2. Len(<<sm.isr>>) = 1 OBVIOUS
    <3>3. sm'.pc = "pull" /\ sm.pc # "push" =>
              sm.pc = "pull" /\ sm'.tx = sm.tx /\ sm'.rx = sm.rx
      BY <2>1 DEF MasterGoes
    <3> QED BY <2>2, <3>1, <3>2, <3>3
  <2>4. cpu = "recover" =>
              sm'.pc \in {"wait_ack", "push"} \/ (sm'.pc = "pull" /\ sm'.tx = <<>>)
    BY <2>1, <2>2 DEF MasterGoes
  <2> QED BY <1>1, <1>2, <1>4, <2>1, <2>3, <2>4 DEF CycleFrame, Holds
<1> QED BY <1>2, <1>3, <1>4

(* What has come, and what the probe found, are not for a cycle to change. *)
LEMMA CycleLines ==
    ASSUME LoopInv, Cycle
    PROVE  Lines' /\ ProbeShowsWire'
<1>1. CycleFrame BY CycleLeaves
<1>2. cpu # "start" BY DEF Cycle, IsWaiting, IsWaitingForEdge
<1>3. Lines' BY <1>1 DEF CycleFrame, LoopInv, Lines, Echo, Sequence
<1> QED BY <1>1, <1>2, <1>3 DEF CycleFrame, ProbeShowsWire

(* A cycle brings the edge that the probe waits for, and no further one. *)
LEMMA CycleProbes ==
    ASSUME LoopInv, Cycle
    PROVE  Probes'
<1>1. CycleFrame BY CycleLeaves
<1> SUFFICES ASSUME IsProbing, ~disturbed PROVE Probes' BY <1>1 DEF CycleFrame, Probes
<1>2. Read' = Read BY <1>1 DEF CycleFrame, Read
<1>3. CASE "clk_to_ground" \in wires
  BY <1>1, <1>3 DEF CycleFrame, LoopInv, Probes
<1>4. CASE "clk_to_ground" \notin wires
  <2>1. /\ bits = SubSeq(kProbeByte, 1, Read) /\ Read <= kWireBitsPerByte
        /\ cpu = "low" =>
              /\ Read < kWireBitsPerByte
              /\ \/ sm.pc = "pull" /\ sm.tx # <<>> /\ Read = 0
                 \/ sm.pc = "set_x" /\ Read = 0
                 \/ sm.pc \in {"out", "in", "jmp_x"} /\ Len(sm.isr) = Read
        /\ cpu = "high" =>
              /\ Read < kWireBitsPerByte
              /\ \/ sm.pc = "in" /\ Len(sm.isr) = Read
                 \/ sm.pc = "jmp_x" /\ Len(sm.isr) = Read + 1
        /\ cpu = "rx" => Read = kWireBitsPerByte
    BY <1>4 DEF LoopInv, Probes
  <2>2. MasterAt(sm, Sent, Flag) /\ MasterGoes(sm, sm', data, ack, Flag)
    BY BusyCycle DEF IsBusy, LoopInv, Holds
  <2>3. cpu = "low" => clk = 1
    BY DEF Cycle, IsWaiting, IsWaitingForEdge
  <2>4. cpu = "high" => clk = 0
    BY DEF Cycle, IsWaiting, IsWaitingForEdge
  <2>5. sm.clk = clk BY <1>4 DEF clk
  <2>6. (sm.clk = 1 => sm.pc # "in") /\ (sm.clk = 0 => sm.pc = "in")
    <3>1. sm.clk = (IF sm.pc = "in" THEN 0 ELSE 1) BY <2>2 DEF MasterAt
    <3> QED BY <3>1
  <2>7. ASSUME cpu = "low"
        PROVE  \/ sm'.pc = "pull" /\ sm'.tx # <<>> /\ Read = 0
               \/ sm'.pc = "set_x" /\ Read = 0
               \/ sm'.pc \in {"out", "in", "jmp_x"} /\ Len(sm'.isr) = Read
    <3>1. sm.pc # "in" BY <2>3, <2>5, <2>6, <2>7
    <3>2. CASE sm.pc = "pull"
      <4>1. sm.tx # <<>> /\ Read = 0 BY <2>1, <2>7, <3>2
      <4> QED BY <2>2, <3>2, <4>1 DEF MasterGoes
    <3>3. CASE sm.pc = "set_x"
      <4>1. sm.isr = <<>> /\ Read = 0 /\ Len(<<>>) = 0 BY <2>1, <2>2, <2>7, <3>3 DEF MasterAt
      <4>2. sm'.isr = sm.isr /\ sm'.pc \in {"set_x", "out"} BY <2>2, <3>3 DEF MasterGoes
      <4> QED BY <4>1, <4>2
    <3>4. CASE sm.pc \in {"out", "jmp_x"}
      <4>1. Len(sm.isr) = Read /\ Read < kWireBitsPerByte BY <2>1, <2>7, <3>4
      <4>2. Len(sm.isr) # kWireBitsPerByte BY <4>1, Widths
      <4>3. sm'.isr = sm.isr /\ sm'.pc \in {"out", "in", "jmp_x"}
        BY <2>2, <3>4, <4>2 DEF MasterGoes
      <4> QED BY <4>1, <4>3
    <3> QED BY <2>1, <2>7, <3>1, <3>2, <3>3, <3>4
  <2>8. ASSUME cpu = "high"
        PROVE  \/ sm'.pc = "in" /\ Len(sm'.isr) = Read
               \/ sm'.pc = "jmp_x" /\ Len(sm'.isr) = Read + 1
    <3>1. sm.pc = "in" BY <2>4, <2>5, <2>6, <2>8
    <3>2. Len(sm.isr) = Read BY <2>1, <2>8, <3>1
    <3>3. \/ sm'.pc = "in" /\ sm'.isr = sm.isr
          \/ sm'.pc = "jmp_x" /\ sm'.isr = Append(sm.isr, data)
      BY <2>2, <3>1 DEF MasterGoes
    <3>4. sm.isr \in Seq(Bit) /\ data \in Bit BY Levels DEF LoopInv, Typed, MasterSm
    <3>5. Len(Append(sm.isr, data)) = Len(sm.isr) + 1 BY <3>4, AppendProperties
    <3> QED BY <3>2, <3>3, <3>5
  <2> QED BY <1>1, <1>2, <1>4, <2>1, <2>7, <2>8 DEF CycleFrame, Probes
<1> QED BY <1>3, <1>4

(* The echo of a byte, bit by bit. *)
LEMMA EchoIsByte ==
    ASSUME LoopInv, IsBusy
    PROVE  /\ Echo(Sent) \in Seq(Bit) /\ Len(Echo(Sent)) = kWireBitsPerByte
           /\ \A i \in 1 .. kWireBitsPerByte :
                 Echo(Sent)[i] = IF "data" \in wires THEN Sent[i] ELSE 1
<1>1. Sent \in Bits BY SentIsByte DEF LoopInv
<1>2. CASE "data" \in wires
  <2>1. Echo(Sent) = Sent BY <1>2 DEF Echo
  <2> QED BY <1>1, <1>2, <2>1, AByte
<1>3. CASE "data" \notin wires
  <2>1. Echo(Sent) = kReleasedByte BY <1>3 DEF Echo
  <2> QED BY <1>3, <2>1, AByte, ReleasedIsByte
<1> QED BY <1>2, <1>3

(* A cycle shifts in the bit that is wired, and no other. *)
LEMMA CycleEchoes ==
    ASSUME LoopInv, Cycle
    PROVE  Echoes'
<1>1. CycleFrame BY CycleLeaves
<1> SUFFICES ASSUME cpu = "poll", ~disturbed PROVE Echoes' BY <1>1 DEF CycleFrame, Echoes
<1>2. IsBusy /\ sm.rx = <<>>
  BY DEF Cycle, IsWaiting, IsWaitingForEdge, has_byte, IsBusy, IsSending
<1>3. /\ MasterAt(sm, Sent, Flag) /\ MasterGoes(sm, sm', data, ack, Flag)
      /\ MasterAt(sm', Sent, Flag)
  BY <1>2, BusyCycle DEF LoopInv, Holds
<1>4. /\ \A i \in 1 .. Len(sm.isr) : sm.isr[i] = Echo(Sent)[i]
      /\ Flag = 1 /\ sm.pc = "push" => "ack" \in wires
  BY DEF LoopInv, Echoes
<1>5. sm.isr \in Seq(Bit) /\ sm.cmd \in Bit /\ data \in Bit /\ ack \in Bit
  BY Levels DEF LoopInv, Typed, MasterSm
<1>6. PICK r \in Nat : r = Len(sm.isr) BY <1>5
<1>7. /\ Echo(Sent) \in Seq(Bit) /\ Len(Echo(Sent)) = kWireBitsPerByte
      /\ \A i \in 1 .. kWireBitsPerByte :
            Echo(Sent)[i] = IF "data" \in wires THEN Sent[i] ELSE 1
  BY <1>2, EchoIsByte
<1>8. Echo(Sent)' = Echo(Sent) BY <1>1 DEF CycleFrame, Echo
<1>9. \A i \in 1 .. Len(sm'.isr) : sm'.isr[i] = Echo(Sent)[i]
  <2>1. CASE sm'.isr = sm.isr BY <2>1, <1>4
  <2>2. CASE sm.pc = "in" /\ sm'.isr = Append(sm.isr, data)
    <3>1. sm.cmd = Sent[r + 1] /\ r < kWireBitsPerByte BY <1>3, <1>6, <2>2 DEF MasterAt
    <3>2. data = IF "data" \in wires THEN sm.cmd ELSE 1 BY DEF data
    <3>3. r + 1 \in 1 .. kWireBitsPerByte BY <3>1, Widths
    <3>4. data = Echo(Sent)[r + 1] BY <1>7, <3>1, <3>2, <3>3
    <3>5. /\ Len(Append(sm.isr, data)) = r + 1 /\ Append(sm.isr, data)[r + 1] = data
          /\ \A i \in 1 .. r : Append(sm.isr, data)[i] = sm.isr[i]
      BY <1>5, <1>6, AppendProperties
    <3>6. ASSUME NEW i \in 1 .. r + 1 PROVE Append(sm.isr, data)[i] = Echo(Sent)[i]
      <4>1. CASE i = r + 1 BY <4>1, <3>4, <3>5
      <4>2. CASE i # r + 1
        <5>1. i \in 1 .. r BY <4>2
        <5> QED BY <5>1, <3>5, <1>4, <1>6
      <4> QED BY <4>1, <4>2
    <3> QED BY <2>2, <3>5, <3>6
  <2>3. CASE sm'.isr = <<>>
    <3>1. Len(sm'.isr) = 0 BY <2>3
    <3> QED BY <3>1
  <2> QED BY <1>3, <2>1, <2>2, <2>3 DEF MasterGoes
<1>10. sm'.rx # <<>> => sm.pc = "push" /\ sm'.rx = <<Echo(Sent)>>
  <2> SUFFICES ASSUME sm'.rx # <<>> PROVE sm.pc = "push" /\ sm'.rx = <<Echo(Sent)>> OBVIOUS
  <2>1. sm.pc = "push" /\ sm'.rx = <<sm.isr>> BY <1>2, <1>3 DEF MasterGoes
  <2>2. Len(sm.isr) = kWireBitsPerByte BY <1>3, <2>1 DEF MasterAt
  <2>3. sm.isr = Echo(Sent) BY <1>4, <1>5, <1>7, <2>2, SeqEqual
  <2> QED BY <2>1, <2>3
<1>11. Flag = 1 /\ sm'.pc = "push" => "ack" \in wires
  <2> SUFFICES ASSUME Flag = 1, sm'.pc = "push" PROVE "ack" \in wires OBVIOUS
  <2>1. \/ sm.pc = "push"
        \/ sm.pc = "wait_ack" /\ ack = 0
    BY <1>3 DEF MasterGoes
  <2>2. CASE sm.pc = "push" BY <2>2, <1>4
  <2>3. CASE ack = 0 BY <2>3 DEF ack
  <2> QED BY <2>1, <2>2, <2>3
<1> QED BY <1>1, <1>4, <1>8, <1>9, <1>10, <1>11 DEF CycleFrame, Echoes

(* A cycle keeps the byte on time: no instruction takes more than its share. *)
LEMMA CyclePunctual ==
    ASSUME LoopInv, Cycle
    PROVE  Punctual'
<1>1. CycleFrame BY CycleLeaves
<1> SUFFICES ASSUME cpu = "poll", sm'.rx = <<>>,
                    sm'.pc \in {"wait_ack", "push"} => Flag = 0 \/ HasAck
             PROVE  (timer + sm.wait <= Due)'
  BY <1>1 DEF CycleFrame, Punctual, HasAck
<1>2. IsBusy /\ sm.rx = <<>>
  BY DEF Cycle, IsWaiting, IsWaitingForEdge, has_byte, IsBusy, IsSending
<1>3. /\ MasterAt(sm, Sent, Flag) /\ MasterGoes(sm, sm', data, ack, Flag)
      /\ MasterAt(sm', Sent, Flag)
  BY <1>2, BusyCycle DEF LoopInv, Holds
<1>4. HasAck => ack = 0
  <2>1. ~att_is_high BY DEF att_is_high
  <2> QED BY <2>1 DEF HasAck, ack
<1>5. sm.pc \in {"wait_ack", "push"} => Flag = 0 \/ HasAck
  <2>1. sm.pc = "wait_ack" => sm'.pc \in {"wait_ack", "push"} BY <1>3 DEF MasterGoes
  <2>2. sm.pc = "push" => sm'.pc = "push"
    <3>1. sm.pc = "push" => sm'.pc = "push" \/ sm'.rx = <<sm.isr>> BY <1>3 DEF MasterGoes
    <3>2. <<sm.isr>> # <<>> OBVIOUS
    <3> QED BY <3>1, <3>2
  <2> QED BY <2>1, <2>2
<1>6. timer + sm.wait <= Due BY <1>2, <1>5 DEF LoopInv, Punctual
<1>7. timer' = timer + 1
  BY DEF Cycle
<1>8. PICK k \in Nat : k = kCyclesPerUs /\ k >= 1 BY Widths
<1>9. PICK r \in Nat : r = Len(sm.isr) BY DEF LoopInv, Typed, MasterSm
<1>10. PICK n \in Nat : n = kWireBitsPerByte BY Widths
<1>11. PICK t \in Nat : t = timer BY DEF LoopInv, Typed
<1>12. PICK w \in Nat : w = sm.wait BY Widths DEF LoopInv, Typed, MasterSm
<1>13. PICK all \in Nat : all = 4 * k * n OBVIOUS
<1>14. PICK bit \in Nat : bit = 4 * k * r OBVIOUS
<1>15. Due = CASE sm.pc = "pull"     -> k - 1
               [] sm.pc = "set_x"    -> 2 * k - 1
               [] sm.pc = "out"      -> 3 * k - 1 + bit
               [] sm.pc = "in"       -> 5 * k - 1 + bit
               [] sm.pc = "jmp_x"    -> 2 * k - 1 + bit
               [] sm.pc = "out_y"    -> 3 * k - 1 + all
               [] sm.pc = "jmp_y"    -> 4 * k - 1 + all
               [] sm.pc = "wait_ack" -> 5 * k - 1 + all
               [] sm.pc = "push"     -> 6 * k - 1 + all
  BY <1>8, <1>9, <1>10, <1>13, <1>14 DEF Due
<1>16. ASSUME NEW q \in Nat, q = Len(sm'.isr), NEW later \in Nat, later = 4 * k * q
       PROVE  Due' = CASE sm'.pc = "pull"     -> k - 1
                       [] sm'.pc = "set_x"    -> 2 * k - 1
                       [] sm'.pc = "out"      -> 3 * k - 1 + later
                       [] sm'.pc = "in"       -> 5 * k - 1 + later
                       [] sm'.pc = "jmp_x"    -> 2 * k - 1 + later
                       [] sm'.pc = "out_y"    -> 3 * k - 1 + all
                       [] sm'.pc = "jmp_y"    -> 4 * k - 1 + all
                       [] sm'.pc = "wait_ack" -> 5 * k - 1 + all
                       [] sm'.pc = "push"     -> 6 * k - 1 + all
  BY <1>8, <1>10, <1>13, <1>16 DEF Due
<1>17. CASE sm.wait # 0
  <2>1. sm'.wait = w - 1 /\ sm'.pc = sm.pc /\ sm'.isr = sm.isr
    BY <1>3, <1>12, <1>17 DEF MasterGoes
  <2>2. Due' = Due BY <2>1 DEF Due
  <2>3. Due \in Int BY DueSoon
  <2> QED BY <2>1, <2>2, <2>3, <1>6, <1>7, <1>11, <1>12
<1>18. CASE sm.wait = 0
  <2>1. sm'.wait = (IF sm.pc = "out" THEN 2 * k ELSE k) - 1
    BY <1>3, <1>8, <1>18 DEF MasterGoes
  <2>2. t <= Due BY <1>6, <1>11, <1>18
  <2>3. CASE sm.pc = "in"
    <3>1. sm'.pc = "jmp_x" /\ sm'.isr = Append(sm.isr, data) BY <1>3, <1>18, <2>3 DEF MasterGoes
    <3>2. sm.isr \in Seq(Bit) /\ data \in Bit BY Levels DEF LoopInv, Typed, MasterSm
    <3>3. Len(sm'.isr) = r + 1 BY <3>1, <3>2, <1>9, AppendProperties
    <3>4. PICK q \in Nat : q = Len(sm'.isr) /\ q = r + 1 BY <3>3
    <3>5. PICK later \in Nat : later = 4 * k * q OBVIOUS
    <3>6. later = bit + 4 * k BY <3>4, <3>5, <1>14
    <3>7. Due' = 2 * k - 1 + later BY <3>1, <3>4, <3>5, <1>16
    <3>8. Due = 5 * k - 1 + bit BY <2>3, <1>15
    <3>9. sm'.wait = k - 1 BY <2>1, <2>3
    <3> QED BY <3>6, <3>7, <3>8, <3>9, <2>2, <1>7, <1>11
  <2>4. CASE sm.pc # "in"
    <3>1. sm.pc # "push" /\ ~(sm.pc = "pull" /\ sm.tx = <<>>)
      <4>1. sm.pc = "push" => sm'.rx = <<sm.isr>> BY <1>3, <1>18 DEF MasterGoes
      <4>2. <<sm.isr>> # <<>> /\ Len(<<>>) # 1 OBVIOUS
      <4>3. sm.pc = "pull" /\ sm.tx = <<>> => Len(sm.rx) = 1 BY <1>2 DEF LoopInv, Holds
      <4> QED BY <4>1, <4>2, <4>3, <1>2
    <3>2. sm'.isr = sm.isr BY <1>3, <1>18, <2>4, <3>1 DEF MasterGoes
    <3>3. Due' = CASE sm'.pc = "pull"     -> k - 1
                       [] sm'.pc = "set_x"    -> 2 * k - 1
                       [] sm'.pc = "out"      -> 3 * k - 1 + bit
                       [] sm'.pc = "in"       -> 5 * k - 1 + bit
                       [] sm'.pc = "jmp_x"    -> 2 * k - 1 + bit
                       [] sm'.pc = "out_y"    -> 3 * k - 1 + all
                       [] sm'.pc = "jmp_y"    -> 4 * k - 1 + all
                       [] sm'.pc = "wait_ack" -> 5 * k - 1 + all
                       [] sm'.pc = "push"     -> 6 * k - 1 + all
      BY <1>9, <1>14, <1>16, <3>2
    <3>4. CASE sm.pc = "pull"
      <4>1. sm'.pc = "set_x" BY <1>3, <1>18, <3>1, <3>4 DEF MasterGoes
      <4>2. Due = k - 1 BY <3>4, <1>15
      <4>3. Due' = 2 * k - 1 BY <3>3, <4>1
      <4>4. sm'.wait = k - 1 BY <3>4, <2>1
      <4> QED BY <4>2, <4>3, <4>4, <2>2, <1>7, <1>11
    <3>5. CASE sm.pc = "set_x"
      <4>1. sm'.pc = "out" BY <1>3, <1>18, <3>5 DEF MasterGoes
      <4>2. Due = 2 * k - 1 BY <3>5, <1>15
      <4>3. Due' = 3 * k - 1 + bit BY <3>3, <4>1
      <4>4. sm'.wait = k - 1 BY <3>5, <2>1
      <4> QED BY <4>2, <4>3, <4>4, <2>2, <1>7, <1>11
    <3>6. CASE sm.pc = "out"
      <4>1. sm'.pc = "in" BY <1>3, <1>18, <3>6 DEF MasterGoes
      <4>2. Due = 3 * k - 1 + bit BY <3>6, <1>15
      <4>3. Due' = 5 * k - 1 + bit BY <3>3, <4>1
      <4>4. sm'.wait = 2 * k - 1 BY <3>6, <2>1
      <4> QED BY <4>2, <4>3, <4>4, <2>2, <1>7, <1>11
    <3>7. CASE sm.pc = "jmp_x"
      <4>1. sm'.pc = "out" \/ (sm'.pc = "out_y" /\ r = n)
        BY <1>3, <1>9, <1>10, <1>18, <3>7 DEF MasterGoes
      <4>2. r = n => bit = all BY <1>13, <1>14
      <4>3. Due' \in {3 * k - 1 + bit, 3 * k - 1 + all} /\ Due' >= 3 * k - 1 + bit
        BY <4>1, <4>2, <3>3
      <4>4. Due = 2 * k - 1 + bit BY <3>7, <1>15
      <4>5. sm'.wait = k - 1 BY <3>7, <2>1
      <4> QED BY <4>3, <4>4, <4>5, <2>2, <1>7, <1>11
    <3>8. CASE sm.pc = "out_y"
      <4>1. sm'.pc = "jmp_y" BY <1>3, <1>18, <3>8 DEF MasterGoes
      <4>2. Due = 3 * k - 1 + all BY <3>8, <1>15
      <4>3. Due' = 4 * k - 1 + all BY <3>3, <4>1
      <4>4. sm'.wait = k - 1 BY <3>8, <2>1
      <4> QED BY <4>2, <4>3, <4>4, <2>2, <1>7, <1>11
    <3>9. CASE sm.pc = "jmp_y"
      <4>1. sm'.pc \in {"wait_ack", "push"} BY <1>3, <1>18, <3>9 DEF MasterGoes
      <4>2. Due' \in {5 * k - 1 + all, 6 * k - 1 + all} BY <4>1, <3>3
      <4>3. Due = 4 * k - 1 + all BY <3>9, <1>15
      <4>4. sm'.wait = k - 1 BY <3>9, <2>1
      <4> QED BY <4>2, <4>3, <4>4, <2>2, <1>7, <1>8, <1>11
    <3>10. CASE sm.pc = "wait_ack"
      <4>1. Flag = 1 BY <1>3, <3>10 DEF MasterAt
      <4>2. ack = 0 BY <4>1, <3>10, <1>4, <1>5
      <4>3. sm'.pc = "push" BY <1>3, <1>18, <3>10, <4>2 DEF MasterGoes
      <4>4. Due = 5 * k - 1 + all BY <3>10, <1>15
      <4>5. Due' = 6 * k - 1 + all BY <3>3, <4>3
      <4>6. sm'.wait = k - 1 BY <3>10, <2>1
      <4> QED BY <4>4, <4>5, <4>6, <2>2, <1>7, <1>11
    <3>11. sm.pc \in {"pull", "set_x", "out", "in", "jmp_x", "out_y", "jmp_y", "wait_ack", "push"}
      BY DEF LoopInv, Typed, MasterSm
    <3> QED BY <2>4, <3>1, <3>4, <3>5, <3>6, <3>7, <3>8, <3>9, <3>10, <3>11
  <2> QED BY <2>3, <2>4
<1> QED BY <1>17, <1>18

(* A cycle of the program keeps all parts. *)
LEMMA CycleKeeps == LoopInv /\ Cycle => LoopInv'
BY CycleHolds, CycleLines, CycleProbes, CycleEchoes, CyclePunctual DEF LoopInv

-----------------------------------------------------------------------------
(* What is printed follows from what the invariant says of the frame. *)
LEMMA InvShowsJumpers == LoopInv => LineShowsJumpers
<1> SUFFICES ASSUME LoopInv, cpu = "print", ~disturbed
             PROVE  LET sent  == kSequences[seq]
                        count == IF "ack" \in wires \/ Len(sent) = 1 THEN Len(sent) ELSE 0
                    IN  got = [i \in 1 .. count |->
                                 IF "data" \in wires THEN ToBits(sent[i]) ELSE kReleasedByte]
  BY DEF LineShowsJumpers
<1>1. PICK count \in Nat :
        count = IF "ack" \in wires \/ Len(Sequence) = 1 THEN Len(Sequence) ELSE 0
  BY SequencesOfBytes DEF LoopInv, Typed, Sequence
<1>2. Len(got) = count BY <1>1 DEF LoopInv, Lines
<1>3. \A i \in 1 .. count : got[i] = Echo(ToBits(Sequence[i]))
  BY <1>2 DEF LoopInv, Lines
<1>4. got \in Seq(Bits) BY DEF LoopInv, Typed
<1>5. got = [i \in 1 .. count |-> got[i]] BY <1>2, <1>4
<1>6. got = [i \in 1 .. count |-> Echo(ToBits(Sequence[i]))] BY <1>3, <1>5
<1> QED BY <1>1, <1>6 DEF Echo, Sequence

(* Every step keeps the invariant, the moved jumpers too. *)
LEMMA LoopInvAlways == LoopSpec => []LoopInv
<1>1. LoopInit => LoopInv BY LoopInitInv
<1>2. LoopInv /\ [LoopNext]_loopVars => LoopInv'
  <2> SUFFICES ASSUME LoopInv, [LoopNext]_loopVars PROVE LoopInv' OBVIOUS
  <2>1. CASE Cpu
    BY <2>1, ProbeKeeps, ClkFellKeeps, ClkRoseKeeps, ProbedKeeps, ProbeTimeOutKeeps,
       StartFrameKeeps, PutByteKeeps, GetByteKeeps, TimeOutKeeps, RecoverKeeps, PrintLineKeeps
    DEF Cpu
  <2>2. CASE Cycle BY <2>2, CycleKeeps
  <2>3. CASE Move BY <2>3, MoveKeeps
  <2>4. CASE UNCHANGED loopVars
    <3>1. /\ sm' = sm /\ cpu' = cpu /\ seq' = seq /\ got' = got /\ timer' = timer
          /\ bits' = bits /\ wires' = wires /\ disturbed' = disturbed
      BY <2>4 DEF loopVars, frameVars
    <3>2. /\ IsProbing' = IsProbing /\ IsSending' = IsSending /\ IsBusy' = IsBusy
          /\ Sequence' = Sequence /\ Sent' = Sent /\ Flag' = Flag /\ Due' = Due
          /\ HasAck' = HasAck /\ Read' = Read
      BY <3>1 DEF IsProbing, IsSending, IsBusy, Sequence, Sent, Flag, Due, HasAck, Read
    <3>3. Typed' BY <3>1 DEF LoopInv, Typed
    <3>4. Holds' BY <3>1, <3>2 DEF LoopInv, Holds
    <3>5. Punctual' BY <3>1, <3>2 DEF LoopInv, Punctual
    <3>6. Echoes' BY <3>1, <3>2 DEF LoopInv, Echoes, Echo
    <3>7. Lines' BY <3>1, <3>2 DEF LoopInv, Lines, Echo, Sequence
    <3>8. Probes' BY <3>1, <3>2 DEF LoopInv, Probes
    <3>9. ProbeShowsWire' BY <3>1 DEF LoopInv, ProbeShowsWire
    <3> QED BY <3>3, <3>4, <3>5, <3>6, <3>7, <3>8, <3>9 DEF LoopInv
  <2> QED BY <2>1, <2>2, <2>3, <2>4 DEF LoopNext
<1> QED BY <1>1, <1>2, PTL DEF LoopSpec

(* What the loopback firmware prints of a frame or a probe that was left    *)
(* alone is what is wired, however many moves there were before.            *)
THEOREM PrintsWiring == LoopSpec => []PrintsWhatIsWired
<1>1. LoopInv => PrintsWhatIsWired
  BY InvShowsJumpers DEF PrintsWhatIsWired, LoopInv
<1> QED BY <1>1, LoopInvAlways, PTL
=============================================================================
