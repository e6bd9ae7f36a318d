---------------------------- MODULE GuitarProofs ----------------------------
(***************************************************************************)
(* The guitar's two ends.  Gamepad and its BusyCount, for every controller, *)
(* every delay, every summary length and every width of the poll counter;   *)
(* the whammy of GuitarAlone, for every byte of its axis; and the emulated SG*)
(* of SgAlone, for frames of any length and any bytes, cut anywhere, and any*)
(* command lines between them.                                              *)
(***************************************************************************)
EXTENDS BusyCount, GuitarAlone, SgAlone, LogicProofs

(* Remainders of successive numbers. *)
LEMMA NextRemainder ==
    ASSUME NEW n \in Nat, NEW k \in Nat \ {0}, (n + 1) % k # 0
    PROVE  (n + 1) % k = (n % k) + 1
<1> DEFINE q  == n \div k
           r  == n % k
           q2 == (n + 1) \div k
           r2 == (n + 1) % k
<1>1. q \in Int /\ r \in 0 .. k - 1 /\ n = k * q + r
  BY SMT
<1>2. q2 \in Int /\ r2 \in 1 .. k - 1 /\ n + 1 = k * q2 + r2
  BY SMT
<1>3. r2 = r + 1
  <2> HIDE DEF q, r, q2, r2
  <2> DEFINE d == q2 - q
  <2>1. d \in Int BY <1>1, <1>2
  <2>2. k * d = r + 1 - r2
    <3>1. k * d = k * q2 - k * q BY <1>1, <1>2, SMT
    <3> QED BY <3>1, <1>1, <1>2, SMT
  <2> HIDE DEF d
  <2>3. ~(d >= 1)
    <3>1. d >= 1 => k * d >= k BY <2>1, SMT
    <3> QED BY <3>1, <2>1, <2>2, <1>1, <1>2, SMT
  <2>4. ~(d <= -1)
    <3>1. d <= -1 => k * d <= -k BY <2>1, SMT
    <3> QED BY <3>1, <2>1, <2>2, <1>1, <1>2, SMT
  <2>5. d = 0 BY <2>1, <2>3, <2>4
  <2> QED BY <2>2, <2>5, <1>1, <1>2, SMT
<1> QED BY <1>3

LEMMA WrapRemainder ==
    ASSUME NEW m \in Nat \ {0}, NEW n \in 0 .. m - 1
    PROVE  /\ (n + 1) % m \in 0 .. m - 1
           /\ (n + 1) % m = n + 1 \/ (n + 1) % m = 0
  BY SMTT(30)

LEMMA ZeroRemainder ==
    ASSUME NEW k \in Nat \ {0}
    PROVE  0 % k = 0
  BY SMT

-----------------------------------------------------------------------------
(* What one step of the gamepad means to the master: a frame judged, or     *)
(* nothing.  So GamepadSpec implements Negotiation's Spec, and everything   *)
(* proved of the master holds in the firmware that polls through it.        *)
LEMMA NextIsNegotiation ==
    [GamepadNext]_gamepadVars => [Next]_vars
<1> SUFFICES ASSUME [GamepadNext]_gamepadVars PROVE [Next]_vars
  OBVIOUS
<1>1. CASE PollAny
  BY <1>1 DEF PollAny, Poll, Next
<1>2. CASE UsbTask \/ CheckReady \/ Send \/ HostTakes
  BY <1>2 DEF UsbTask, CheckReady, Send, HostTakes, masterVars, vars
<1>3. CASE Bus
  BY <1>3 DEF Bus, GetReport, Attach, Suspend, Resume, Detach, masterVars, vars
<1>4. CASE UNCHANGED gamepadVars
  BY <1>4 DEF gamepadVars, masterVars, vars
<1> QED BY <1>1, <1>2, <1>3, <1>4 DEF GamepadNext, Firmware

THEOREM GamepadNegotiates == GamepadSpec => Spec
<1>1. GamepadInit => Init BY DEF GamepadInit
<1> QED BY <1>1, NextIsNegotiation, PTL DEF GamepadSpec, Spec

-----------------------------------------------------------------------------
(* The report is set from the link in the very step that moves the link, so *)
(* the two can only disagree if report_for does.                            *)
THEOREM NeutralAlways == GamepadSpec => []NeutralUnlessStreaming
<1>1. GamepadInit => NeutralUnlessStreaming
  BY DEF GamepadInit, NeutralUnlessStreaming
<1>2. NeutralUnlessStreaming /\ [GamepadNext]_gamepadVars => NeutralUnlessStreaming'
  <2> SUFFICES ASSUME NeutralUnlessStreaming, [GamepadNext]_gamepadVars
               PROVE  NeutralUnlessStreaming'
    OBVIOUS
  <2> USE DEF NeutralUnlessStreaming
  <2>1. ASSUME NEW frame \in Answers, NEW us \in Elapseds, Poll(frame, us)
        PROVE  NeutralUnlessStreaming'
    BY <2>1 DEF Poll, report_for
  <2>2. CASE UNCHANGED <<link, report>>
    BY <2>2
  <2>3. CASE UsbTask \/ CheckReady \/ Send \/ HostTakes
    BY <2>2, <2>3 DEF UsbTask, CheckReady, Send, HostTakes, masterVars
  <2>4. CASE Bus
    BY <2>2, <2>4 DEF Bus, GetReport, Attach, Suspend, Resume, Detach, masterVars
  <2>5. CASE UNCHANGED gamepadVars
    BY <2>2, <2>5 DEF gamepadVars, masterVars
  <2> QED
    BY <2>1, <2>3, <2>4, <2>5 DEF GamepadNext, Firmware, PollAny
<1> QED BY <1>1, <1>2, PTL DEF GamepadSpec

-----------------------------------------------------------------------------
(* BusyFitsSummary is not inductive: between the poll being counted and the *)
(* summary it says nothing.  The missing part: until the count is due to    *)
(* start over, the frame under way has been counted as a poll and may still *)
(* be counted busy, or has been.                                            *)
BusyInv ==
    /\ pc \in {"task", "poll", "check", "send"}
    /\ polls \in 0 .. PollsModulus - 1
    /\ busy \in Nat
    /\ BusyFitsSummary
    /\ pc = "check" /\ polls % kPollsPerSummary # 0
            => busy + 1 <= polls % kPollsPerSummary
    /\ pc = "send" /\ polls % kPollsPerSummary # 0
            => busy <= polls % kPollsPerSummary

LEMMA BusyInit == GamepadInit => BusyInv
  BY SummaryAssumption, ModulusAssumption, ZeroRemainder
  DEF GamepadInit, BusyInv, BusyFitsSummary

(* The poll counter, wrapped or not, keeps the count within the summary. *)
LEMMA BusyPoll ==
    ASSUME BusyInv, NEW frame \in Answers, NEW us \in Elapseds, Poll(frame, us)
    PROVE  BusyInv'
<1>1. pc = "poll" /\ pc' = "check" /\ busy' = busy /\ polls' = counted
  BY DEF Poll
<1>2. /\ polls' \in 0 .. PollsModulus - 1
      /\ polls' = polls + 1 \/ polls' = 0
  BY <1>1, WrapRemainder, ModulusAssumption DEF BusyInv, counted
<1>3. ASSUME polls' % kPollsPerSummary # 0
      PROVE  busy' + 1 <= polls' % kPollsPerSummary
  <2>1. polls' = polls + 1
    BY <1>2, <1>3, ZeroRemainder, SummaryAssumption
  <2>2. polls' % kPollsPerSummary = (polls % kPollsPerSummary) + 1
    <3>1. polls \in Nat BY ModulusAssumption DEF BusyInv
    <3>2. (polls + 1) % kPollsPerSummary # 0 BY <2>1, <1>3
    <3>3. (polls + 1) % kPollsPerSummary = (polls % kPollsPerSummary) + 1
      BY <3>1, <3>2, NextRemainder, SummaryAssumption
    <3> QED BY <2>1, <3>3
  <2>3. polls % kPollsPerSummary \in Nat
    BY SummaryAssumption DEF BusyInv
  <2> QED
    BY <1>1, <2>2, <2>3 DEF BusyInv, BusyFitsSummary
<1> QED
  BY <1>1, <1>2, <1>3 DEF BusyInv, BusyFitsSummary

LEMMA BusyNext == BusyInv /\ [GamepadNext]_gamepadVars => BusyInv'
<1> SUFFICES ASSUME BusyInv, [GamepadNext]_gamepadVars PROVE BusyInv'
  OBVIOUS
<1>1. polls % kPollsPerSummary \in Nat
  BY SummaryAssumption DEF BusyInv
<1> USE DEF BusyInv, BusyFitsSummary
<1>2. CASE UsbTask
  BY <1>2 DEF UsbTask
<1>3. CASE PollAny
  BY <1>3, BusyPoll DEF PollAny
<1>4. CASE CheckReady
  BY <1>4, <1>1 DEF CheckReady
<1>5. CASE Send
  BY <1>5, <1>1 DEF Send, Summarised
<1>6. CASE HostTakes
  BY <1>6 DEF HostTakes
<1>7. CASE Bus
  BY <1>7 DEF Bus, GetReport, Attach, Suspend, Resume, Detach
<1>8. CASE UNCHANGED gamepadVars
  BY <1>8 DEF gamepadVars
<1> QED
  BY <1>2, <1>3, <1>4, <1>5, <1>6, <1>7, <1>8 DEF GamepadNext, Firmware

(* The busy count fits its summary, the short one at the wrap included.     *)
THEOREM BusyFits == GamepadSpec => []BusyFitsSummary
<1>1. BusyInv => BusyFitsSummary BY DEF BusyInv
<1> QED BY <1>1, BusyInit, BusyNext, PTL DEF GamepadSpec

-----------------------------------------------------------------------------
(* The counts only watch: every behaviour that BusyCount describes is one   *)
(* of the gamepad's, so what is proved of GamepadSpec holds with them.      *)
THEOREM CountsWatch == CountSpec => GamepadSpec
<1>1. CountInit => GamepadInit
  BY DEF CountInit
<1>2. [CountNext]_countVars => [GamepadNext]_gamepadVars
  <2>1. Counted => GamepadNext
    BY DEF Counted, GamepadNext, Firmware
  <2>2. Interrupted => GamepadNext
    BY DEF Interrupted, GamepadNext, Bus
  <2>3. Elsewhere => GamepadNext
    BY DEF Elsewhere, GamepadNext, Firmware, Bus
  <2>4. UNCHANGED countVars => UNCHANGED gamepadVars
    BY DEF countVars
  <2> QED BY <2>1, <2>2, <2>3, <2>4 DEF CountNext
<1> QED BY <1>1, <1>2, PTL DEF CountSpec, GamepadSpec

(* BusyCountsUnsent says nothing between the two reads.  There the report   *)
(* under way is still to be counted as unsent: if nothing interrupted, as   *)
(* the first read found; if something did, either way.                      *)
CountInv ==
    /\ pc \in {"task", "poll", "check", "send"}
    /\ busy \in Nat /\ unsent \in Nat /\ raced \in Nat /\ was_raced \in BOOLEAN
    /\ pc # "send" => /\ was_raced = FALSE
                      /\ busy - unsent \in -raced .. raced
    /\ pc = "send" /\ was_raced = FALSE => busy - Unsent \in -raced .. raced
    /\ pc = "send" /\ was_raced = TRUE => busy - unsent \in 1 - raced .. raced

(* Arithmetic the provers do not fold by themselves.                        *)
LEMMA NoDifference == 0 - 0 \in -0 .. 0
  BY SMT

(* Nothing is counted before the first poll.                                *)
LEMMA CountInitially == CountInit => CountInv
<1> SUFFICES ASSUME CountInit PROVE CountInv
  OBVIOUS
<1>1. pc = "task" /\ busy = 0 /\ unsent = 0 /\ raced = 0 /\ was_raced = FALSE
  BY DEF CountInit, GamepadInit
<1> QED BY <1>1, NoDifference DEF CountInv

(* The second read, and the summary when it is due.                         *)
LEMMA CountSent ==
    ASSUME CountInv, Counted
    PROVE  CountInv'
<1>1. /\ pc = "send" /\ pc' = "task"
      /\ busy' = Summarised(busy) /\ unsent' = Summarised(Unsent)
      /\ raced' = Summarised(raced) /\ was_raced' = FALSE
  BY DEF Counted, Send
<1>2. Unsent \in Nat /\ (Unsent = unsent \/ Unsent = unsent + 1)
  BY DEF Unsent, CountInv
<1>3. busy - Unsent \in -raced .. raced
  BY <1>1, <1>2 DEF CountInv
<1>4. CASE polls % kPollsPerSummary = 0
  BY <1>1, <1>4, NoDifference DEF Summarised, CountInv
<1>5. CASE polls % kPollsPerSummary # 0
  BY <1>1, <1>2, <1>3, <1>5 DEF Summarised, CountInv
<1> QED BY <1>4, <1>5

(* An interrupt between the reads: the count it may put out by one is the   *)
(* count of raced polls' own.                                               *)
LEMMA CountInterrupted ==
    ASSUME CountInv, Interrupted
    PROVE  CountInv'
<1>1. /\ pc = "send" /\ pc' = pc /\ busy' = busy /\ unsent' = unsent
      /\ raced' = IF was_raced THEN raced ELSE raced + 1
      /\ was_raced' = TRUE
  BY DEF Interrupted, Suspend, Resume, Detach
<1>2. CASE was_raced = TRUE
  BY <1>1, <1>2 DEF CountInv
<1>3. CASE was_raced = FALSE
  <2>1. busy - Unsent \in -raced .. raced /\ (Unsent = unsent \/ Unsent = unsent + 1)
    BY <1>1, <1>3 DEF CountInv, Unsent
  <2> QED BY <1>1, <1>3, <2>1 DEF CountInv
<1> QED BY <1>2, <1>3 DEF CountInv

(* Away from the second read: the first one, and steps that change neither  *)
(* the counts nor readiness between the two.                                *)
LEMMA CountElsewhere ==
    ASSUME CountInv, Elsewhere
    PROVE  CountInv'
<1>1. unsent' = unsent /\ raced' = raced /\ was_raced' = was_raced
  BY DEF Elsewhere
<1>2. CASE UsbTask \/ PollAny \/ GetReport \/ Attach
  <2>1. pc # "send" /\ pc' \in {"task", "poll", "check"} /\ busy' = busy
    BY <1>2 DEF UsbTask, PollAny, Poll, GetReport, Attach
  <2> QED BY <1>1, <2>1 DEF CountInv
<1>3. CASE CheckReady
  <2>1. /\ pc = "check" /\ pc' = "send" /\ is_report_ready' = is_report_ready
        /\ busy' = IF is_report_ready THEN busy ELSE busy + 1
    BY <1>3 DEF CheckReady, is_report_ready
  <2>2. Unsent' = IF is_report_ready THEN unsent ELSE unsent + 1
    BY <1>1, <2>1 DEF Unsent, handed_over
  <2> QED BY <1>1, <2>1, <2>2 DEF CountInv
<1>4. CASE HostTakes
  <2>1. pc' = pc /\ busy' = busy /\ ~is_report_ready /\ ~is_report_ready'
    BY <1>4 DEF HostTakes, is_report_ready
  <2>2. Unsent' = Unsent
    BY <1>1, <2>1 DEF Unsent, handed_over
  <2> QED BY <1>1, <2>1, <2>2 DEF CountInv
<1>5. CASE pc # "send" /\ (Suspend \/ Resume \/ Detach)
  <2>1. pc # "send" /\ pc' = pc /\ busy' = busy
    BY <1>5 DEF Suspend, Resume, Detach
  <2> QED BY <1>1, <2>1 DEF CountInv
<1> QED BY <1>2, <1>3, <1>4, <1>5 DEF Elsewhere

(* A step of nobody.                                                        *)
LEMMA CountUnchanged ==
    ASSUME CountInv, UNCHANGED countVars
    PROVE  CountInv'
<1>1. /\ pc' = pc /\ busy' = busy /\ unsent' = unsent /\ raced' = raced
      /\ was_raced' = was_raced /\ is_report_ready' = is_report_ready
  BY DEF countVars, gamepadVars, is_report_ready
<1>2. Unsent' = Unsent
  BY <1>1 DEF Unsent, handed_over
<1> QED BY <1>1, <1>2 DEF CountInv

(* The busy count is that of the reports not sent, but for the raced polls. *)
THEOREM BusyCounts == CountSpec => []BusyCountsUnsent
<1>1. CountInv /\ [CountNext]_countVars => CountInv'
  BY CountSent, CountInterrupted, CountElsewhere, CountUnchanged DEF CountNext
<1>2. CountInv => BusyCountsUnsent
  BY DEF CountInv, BusyCountsUnsent
<1> QED BY <1>1, <1>2, CountInitially, PTL DEF CountSpec

-----------------------------------------------------------------------------
(* The whammy of a report. *)
WhammyOf(id, axis) ==
    IF id = Analog THEN whammy_from_axis(axis) ELSE 0

(* A frame of the guitar decodes, and in analog mode carries the bar.       *)
LEMMA SentFrame ==
    ASSUME NEW id \in ControllerId, NEW buttons, NEW axis
    PROVE  LET f == decode(Sends(id, buttons, axis))
           IN  /\ f.id = id
               /\ id = Analog => f.payload[6] = axis
<1> USE DEF ControllerId, Digital, Analog, Config
<1> DEFINE low  == ButtonsByte(1, buttons)
           high == ButtonsByte(2, buttons)
           s    == Sends(id, buttons, axis)
<1>0. PICK l, h : l = low /\ h = high OBVIOUS
<1> HIDE DEF low, high
<1>1. CASE id = Digital
  <2>1. s = <<id, kReadyByte>> \o <<l, h>>
    BY <1>0, <1>1 DEF Sends, low, high
  <2>2. Len(s) = 4 /\ s[1] = id /\ s[2] = kReadyByte
    BY <2>1
  <2>3. decode(s) = Frame(id, AnnouncedPayload(s))
    <3>1. frame_len(id) = 4 /\ kPrefixLen = 2
      BY <1>1 DEF frame_len, payload_len, kPrefixLen, kBytesPerNibble
    <3> QED BY <1>1, <2>2, <3>1 DEF decode
  <2> QED BY <1>1, <2>3 DEF Frame
<1>2. CASE id = Config
  <2>1. s = <<id, kReadyByte>> \o <<0, 0, 0, 0, 0, 0>>
    BY <1>2 DEF Sends
  <2>2. Len(s) = 8 /\ s[1] = id /\ s[2] = kReadyByte
    BY <2>1
  <2>3. decode(s) = Frame(id, AnnouncedPayload(s))
    <3>1. frame_len(id) = 8 /\ kPrefixLen = 2
      BY <1>2 DEF frame_len, payload_len, kPrefixLen, kBytesPerNibble
    <3>2. PICK t : t = s OBVIOUS
    <3>3. Len(t) = 8 /\ t[1] = id /\ t[2] = kReadyByte BY <2>2, <3>2
    <3>4. decode(t) = Frame(id, AnnouncedPayload(t))
      BY <1>2, <3>1, <3>3 DEF decode
    <3> QED BY <3>2, <3>4
  <2> QED BY <1>2, <2>3 DEF Frame
<1>3. CASE id = Analog
  <2>1. s = <<id, kReadyByte>> \o <<l, h, 128, 128, 128, axis>>
    BY <1>0, <1>3 DEF Sends, kStickCentred, low, high
  <2>2. Len(s) = 8 /\ s[1] = id /\ s[2] = kReadyByte /\ s[8] = axis
    BY <2>1
  <2>3. decode(s) = Frame(id, AnnouncedPayload(s))
    BY <1>3, <2>2 DEF decode, frame_len, payload_len, kPrefixLen,
             kBytesPerNibble
  <2>4. AnnouncedPayload(s)[6] = axis
    BY <1>3, <2>2 DEF AnnouncedPayload, payload_len, kPrefixLen,
             kBytesPerNibble, kMaxPayloadLen
  <2> QED BY <2>3, <2>4 DEF Frame
<1> QED BY <1>1, <1>2, <1>3

(* The third byte of a report, which has none of the buttons in it. *)
LEMMA WhammyByte ==
    ASSUME NEW f
    PROVE  build_report(map_frame(f))[3] =
               IF f.id = Analog THEN whammy_from_axis(f.payload[6]) ELSE 0
<1>1. kButtonCount = 10 BY DEF kButtonCount, ButtonOrder
<1>2. kWhammyOffset = 2 /\ kReportLen = 3
  BY <1>1 DEF kWhammyOffset, kReportLen, kButtonBytes, kBitsPerByte
<1>3. ASSUME NEW g PROVE build_report(g)[3] = g.whammy
  BY <1>2 DEF build_report
<1>4. map_frame(f).whammy =
         IF f.id = Analog THEN whammy_from_axis(f.payload[6]) ELSE 0
  BY DEF map_frame, kWhammyIndex, kWhammyRest
<1> QED BY <1>3, <1>4

(* The byte built is that of the bar and the mode it was sent in. *)
PlayerInv ==
    /\ bar \in Byte /\ decoded.id \in ControllerId
    /\ built[3] = WhammyOf(decoded.id, bar)

(* A report shows the mode and the bar it was built of. *)
LEMMA Reported ==
    ASSUME NEW id \in ControllerId, NEW buttons, NEW axis, Mapped(id, buttons, axis)
    PROVE  decoded'.id = id /\ built'[3] = WhammyOf(id, axis)
<1>1. decoded' = decode(Sends(id, buttons, axis))
      /\ built' = build_report(map_frame(decoded'))
  BY DEF Mapped
<1> QED BY <1>1, SentFrame, WhammyByte DEF WhammyOf

(* PlayerInv holds of the first report ... *)
LEMMA PlayerBoots == PlayerInit => PlayerInv
<1> SUFFICES ASSUME PlayerInit PROVE PlayerInv OBVIOUS
<1>1. /\ bar = 127 /\ decoded = decode(Sends(Analog, {}, 127))
      /\ built = build_report(map_frame(decoded))
  BY DEF PlayerInit, kWhammyAxisRest
<1>2. Analog \in ControllerId BY DEF ControllerId
<1>3. decoded.id = Analog /\ decoded.payload[6] = 127
  BY <1>1, <1>2, SentFrame
<1> QED BY <1>1, <1>2, <1>3, WhammyByte DEF PlayerInv, WhammyOf, Byte

(* ... and is kept by a button, the bar and a change of mode. *)
LEMMA PlayerSteps ==
    ASSUME PlayerInv, [PlayerNext]_playerVars
    PROVE  PlayerInv'
<1>1. ASSUME NEW button \in Button, Toggle(button) PROVE PlayerInv'
  <2>1. bar' = bar /\ Mapped(decoded.id, held', bar) BY <1>1 DEF Toggle
  <2> QED BY <2>1, Reported DEF PlayerInv
<1>2. ASSUME NEW axis \in Axes, MoveBar(axis) PROVE PlayerInv'
  <2>1. bar' = axis /\ Mapped(decoded.id, held, axis) BY <1>2 DEF MoveBar
  <2> QED BY <1>2, <2>1, Reported, AxesAssumption DEF PlayerInv
<1>3. ASSUME NEW id \in ControllerId, ChangeMode(id) PROVE PlayerInv'
  <2>1. bar' = bar /\ Mapped(id, held, bar) BY <1>3 DEF ChangeMode
  <2> QED BY <2>1, Reported DEF PlayerInv
<1>4. CASE UNCHANGED playerVars BY <1>4 DEF playerVars, PlayerInv, WhammyOf
<1> QED BY <1>1, <1>2, <1>3, <1>4 DEF PlayerNext

(* The distance of the bar from its rest fits a byte: no remainder is taken. *)
LEMMA WhammyIsDistance ==
    ASSUME NEW axis \in Byte
    PROVE  whammy_from_axis(axis) = IF axis >= 127 THEN 0 ELSE (127 - axis) * 2
BY DEF whammy_from_axis, kWhammyAxisRest, kWhammyAxisScale, kWhammyRest, Byte

(* The whammy of a report is the distance of the bar from its               *)
(* rest, and none outside analog mode, for every byte the bar may send:     *)
(* never less for a bar pushed further, and at the stop all there is.       *)
THEOREM WhammyFollows == PlayerSpec => WhammyFollowsTheBar
<1> DEFINE Follows ==
        /\ decoded'.id # Analog => built'[3] = 0
        /\ decoded.id = Analog /\ decoded'.id = Analog /\ bar' <= bar
             => built'[3] >= built[3]
        /\ decoded'.id = Analog /\ bar' = 0 => built'[3] = 254
<1>1. PlayerInv /\ [PlayerNext]_playerVars => [Follows]_playerVars
  <2> SUFFICES ASSUME PlayerInv, [PlayerNext]_playerVars PROVE Follows
    OBVIOUS
  <2>1. PlayerInv' BY PlayerSteps
  <2>2. /\ bar \in Byte /\ bar' \in Byte
        /\ built[3] = WhammyOf(decoded.id, bar) /\ built'[3] = WhammyOf(decoded'.id, bar')
    BY <2>1 DEF PlayerInv
  <2>3. \A axis \in Byte : whammy_from_axis(axis) = IF axis >= 127 THEN 0 ELSE (127 - axis) * 2
    BY WhammyIsDistance
  <2> QED BY <2>2, <2>3 DEF WhammyOf, Byte
<1>2. PlayerInv /\ [PlayerNext]_playerVars => PlayerInv' BY PlayerSteps
<1> QED BY <1>1, <1>2, PlayerBoots, PTL DEF PlayerSpec, WhammyFollowsTheBar

-----------------------------------------------------------------------------
(* The emulator listened to the head of this frame, or of the last one: its *)
(* third byte out was the ready byte.                                       *)
Heard == Len(sent) >= 3 /\ sent[3] # kIdleByte

(* While the frame lasts, one byte and one ACK are out for every byte in,   *)
(* and the model has stopped answering exactly when the head was wrong.     *)
FrameInv ==
    selected =>
        /\ Len(sent) = Len(received) + 1
        /\ Len(acked) = Len(received)
        /\ model.is_broken <=> ~IsHeard(Len(received))

(* What the model holds for the next frame is what this one said, also when *)
(* lines typed after it changed the mode.                                   *)
HeldInv ==
    /\ Heard => Len(received) >= 2 /\ model.command = received[2]
    /\ model.has_argument <=> Heard /\ Len(received) >= 4
    /\ model.has_argument => model.argument = received[4]

FrameType ==
    /\ SoundModel(model)
    /\ selected \in BOOLEAN
    /\ received \in Seq(Byte) /\ sent \in Seq(Byte) /\ acked \in Seq(BOOLEAN)
    /\ model.index = Len(received) /\ Len(received) <= Len(MasterBytes)

(* AnswersFaithfully is not inductive alone: it says nothing of the model's *)
(* index and of is_broken, which decide the next byte.                      *)
IndInv == FrameType /\ FrameInv /\ HeldInv /\ AnswersFaithfully

-----------------------------------------------------------------------------
LEMMA InitInv == SgInit => IndInv
<1> SUFFICES ASSUME SgInit PROVE IndInv
  OBVIOUS
<1>1. /\ <<>> \in Seq(Byte) /\ <<>> \in Seq(BOOLEAN) /\ Len(<<>>) = 0
      /\ Len(MasterBytes) \in Nat
  BY MasterBytesAssumption
<1>2. PowerOnModel.index = 0 /\ PowerOnModel.has_argument = FALSE
  BY DEF PowerOnModel
<1>3. FrameType
  <2>1. SoundModel(model) BY PowerOnSound DEF SgInit
  <2>2. received = <<>> /\ model.index = 0 BY <1>2 DEF SgInit
  <2>3. model.index = Len(received) /\ Len(received) <= Len(MasterBytes)
    BY <1>1, <2>2
  <2> QED BY <1>1, <2>1, <2>3 DEF SgInit, FrameType
<1>4. FrameInv /\ AnswersFaithfully
  BY DEF SgInit, FrameInv, AnswersFaithfully
<1>5. HeldInv
  BY <1>1, <1>2 DEF SgInit, HeldInv, Heard
<1> QED BY <1>3, <1>4, <1>5 DEF IndInv

(* A new frame: the idle byte is out, nothing is in.                        *)
LEMMA SelectInv ==
    ASSUME IndInv, Select
    PROVE  IndInv'
<1>1. SoundModel(model) BY DEF IndInv, FrameType
<1>2. /\ selected' = TRUE /\ received' = <<>> /\ sent' = <<kIdleByte>>
      /\ acked' = <<>> /\ model' = reset(model)
  BY DEF Select
<1>3. SoundModel(model')
  BY <1>1, <1>2, ResetSound
<1>4. model'.index = 0 /\ model'.is_broken = FALSE /\ model'.has_argument = FALSE
  BY <1>1, <1>2, ResetKeeps
<1>5. /\ <<>> \in Seq(Byte) /\ <<>> \in Seq(BOOLEAN) /\ Len(<<>>) = 0
      /\ <<kIdleByte>> \in Seq(Byte) /\ Len(<<kIdleByte>>) = 1
      /\ <<kIdleByte>>[1] = kIdleByte
      /\ Len(MasterBytes) \in Nat
  BY MasterBytesAssumption, Bytes
<1>6. FrameType'
  BY <1>2, <1>3, <1>4, <1>5 DEF FrameType
<1>7. FrameInv'
  BY <1>2, <1>4, <1>5 DEF FrameInv, IsHeard
<1>8. HeldInv'
  BY <1>2, <1>4, <1>5 DEF HeldInv, Heard
<1>9. AnswersFaithfully'
  BY <1>2, <1>5 DEF AnswersFaithfully, FaithfulByte
<1> QED BY <1>6, <1>7, <1>8, <1>9 DEF IndInv

-----------------------------------------------------------------------------
(* The head of the frame is judged byte by byte: it is a right one as far   *)
(* as this byte if it was up to the one before and this one does not break  *)
(* the frame, and no later byte changes what was found.                     *)
LEMMA HeadJudged ==
    ASSUME IndInv, selected, NEW byte \in Byte, Receive(byte),
           NEW n \in Nat, n = Len(received)
    PROVE  /\ \A i \in 0 .. n : IsHeard(i)' <=> IsHeard(i)
           /\ IsHeard(n + 1)' <=> ~model'.is_broken
<1>1. /\ SoundModel(model) /\ received \in Seq(Byte)
      /\ model.index = n /\ (model.is_broken <=> ~IsHeard(n))
  BY DEF IndInv, FrameType, FrameInv
<1>2. /\ received' = Append(received, byte) /\ model' = step_model(model, byte)
  BY DEF Receive
<1>3. /\ \A i \in 1 .. n : received'[i] = received[i]
      /\ received'[n + 1] = byte
  BY <1>1, <1>2
<1>4. /\ model'.is_broken <=> model.is_broken \/ Breaks(model, byte)
      /\ model'.is_config = model.is_config
  BY <1>1, <1>2, StepModelKeeps
<1>5. ASSUME NEW i \in 0 .. n
      PROVE  IsHeard(i)' <=> IsHeard(i)
  <2>1. i \in Nat /\ (i >= 1 => 1 \in 1 .. n) /\ (i >= 2 => 2 \in 1 .. n)
    OBVIOUS
  <2> QED BY <1>3, <1>4, <2>1 DEF IsHeard
<1>6. IsHeard(n + 1)' <=> IsHeard(n) /\ ~Breaks(model, byte)
  <2>1. CASE n = 0
    BY <1>1, <1>3, <2>1 DEF IsHeard, Breaks, kWireIdIndex
  <2>2. CASE n = 1
    BY <1>1, <1>3, <1>4, <2>2
       DEF IsHeard, Breaks, is_command_accepted, kWireIdIndex
  <2>3. CASE n >= 2
    BY <1>1, <1>3, <1>4, <2>3 DEF IsHeard, Breaks, kWireIdIndex
  <2> QED BY <2>1, <2>2, <2>3
<1>7. IsHeard(n + 1)' <=> ~model'.is_broken
  BY <1>1, <1>4, <1>6
<1> QED BY <1>5, <1>7

(* The byte and the ACK given for this byte are the frame's next ones.      *)
LEMMA AnswerFaithful ==
    ASSUME IndInv, selected, NEW byte \in Byte, Receive(byte),
           NEW n \in Nat, n = Len(received)
    PROVE  /\ step_answer(model, byte).next = FaithfulByte(n + 1)'
           /\ step_answer(model, byte).should_ack = FaithfulAck(n)'
<1>1. /\ SoundModel(model) /\ model.index = n /\ model' = step_model(model, byte)
  BY DEF IndInv, FrameType, Receive
<1>2. /\ model'.is_config = model.is_config
      /\ model'.payload = model.payload /\ model'.fault = model.fault
      /\ mode_id(model') = mode_id(model)
      /\ last_index(model') = last_index(model)
      /\ \A i : byte_at(model', i) = byte_at(model, i)
  BY <1>1, StepModelKeeps
<1>3. IsHeard(n + 1)' <=> ~model'.is_broken
  BY HeadJudged
<1>4. last_index(model) = 2 + payload_len(mode_id(model))
      /\ payload_len(mode_id(model)) \in Nat
  BY DEF last_index, frame_len, kPrefixLen, payload_len, kBytesPerNibble, mode_id,
         Digital, Analog, Config
<1>5. step_answer(model, byte).next =
        IF model'.is_broken THEN kIdleByte ELSE byte_at(model, n + 1)
  BY <1>1, <1>2 DEF step_answer
<1>6. step_answer(model, byte).should_ack =
        (/\ ~model'.is_broken /\ n < last_index(model)
         /\ ~(model.fault.kind = "Ack" /\ n = model.fault.value))
  BY <1>1 DEF step_answer
<1>7. step_answer(model, byte).next = FaithfulByte(n + 1)'
  <2>1. CASE model'.is_broken
    BY <1>3, <1>5, <2>1 DEF FaithfulByte
  <2>2. CASE ~model'.is_broken /\ n = 0
    BY <1>2, <1>3, <1>5, <2>2 DEF FaithfulByte, byte_at, kWireIdIndex
  <2>3. CASE ~model'.is_broken /\ n = 1
    BY <1>2, <1>3, <1>5, <2>3
       DEF FaithfulByte, byte_at, kWireIdIndex, kWireReadyIndex
  <2>4. CASE ~model'.is_broken /\ n >= 2
    <3>1. FaithfulByte(n + 1)' =
            IF n - 1 > payload_len(mode_id(model)) THEN kIdleByte
            ELSE IF model.is_config THEN 0 ELSE model.payload[n - 1]
      <4>1. n + 1 >= 3 /\ n + 1 - 2 = n - 1 BY <2>4
      <4> QED BY <1>2, <1>3, <2>4, <4>1 DEF FaithfulByte
    <3>2. byte_at(model, n + 1) =
            IF n - 1 > payload_len(mode_id(model)) THEN kIdleByte
            ELSE IF model.is_config THEN 0 ELSE model.payload[n - 1]
      BY <1>4, <2>4 DEF byte_at, kConfigReplyByte, kWireIdIndex, kWireReadyIndex,
                        kWirePayloadStart
    <3> QED BY <1>5, <2>4, <3>1, <3>2
  <2> QED BY <2>1, <2>2, <2>3, <2>4
<1>8. step_answer(model, byte).should_ack = FaithfulAck(n)'
  <2>1. n < last_index(model) <=> n < 2 + payload_len(mode_id(model))
    BY <1>4
  <2>2. FaithfulAck(n)' =
            (/\ IsHeard(n + 1)' /\ n < 2 + payload_len(mode_id(model))
             /\ ~(model.fault.kind = "Ack" /\ model.fault.value = n))
    BY <1>2 DEF FaithfulAck
  <2> QED BY <1>3, <1>6, <2>1, <2>2
<1> QED BY <1>7, <1>8

(* What was out before this byte is unchanged by it.                        *)
LEMMA FaithfulUnchanged ==
    ASSUME IndInv, selected, NEW byte \in Byte, Receive(byte),
           NEW n \in Nat, n = Len(received)
    PROVE  /\ \A i \in 0 .. n : FaithfulByte(i)' = FaithfulByte(i)
           /\ \A i \in 0 .. n - 1 : FaithfulAck(i)' = FaithfulAck(i)
<1>1. SoundModel(model) /\ model' = step_model(model, byte)
  BY DEF IndInv, FrameType, Receive
<1>2. /\ model'.is_config = model.is_config
      /\ model'.payload = model.payload /\ model'.fault = model.fault
      /\ mode_id(model') = mode_id(model)
  BY <1>1, StepModelKeeps
<1>3. \A i \in 0 .. n : IsHeard(i)' <=> IsHeard(i)
  BY HeadJudged
<1>4. \A i \in 0 .. n : FaithfulByte(i)' = FaithfulByte(i)
  BY <1>2, <1>3 DEF FaithfulByte
<1>5. \A i \in 0 .. n - 1 : i + 1 \in 0 .. n
  OBVIOUS
<1>6. \A i \in 0 .. n - 1 : FaithfulAck(i)' = FaithfulAck(i)
  BY <1>2, <1>3, <1>5 DEF FaithfulAck
<1> QED BY <1>4, <1>6

-----------------------------------------------------------------------------
(* A byte in, a byte and an ACK out. *)
LEMMA ReceiveInv ==
    ASSUME IndInv, NEW byte \in Byte, Receive(byte),
           NEW n \in Nat, n = Len(received), n < Len(MasterBytes)
    PROVE  IndInv'
<1>1. /\ selected /\ SoundModel(model) /\ model.index = n
      /\ received \in Seq(Byte) /\ sent \in Seq(Byte) /\ acked \in Seq(BOOLEAN)
      /\ Len(sent) = n + 1 /\ Len(acked) = n
      /\ selected' = TRUE /\ model' = step_model(model, byte)
      /\ received' = Append(received, byte)
      /\ sent' = Append(sent, step_answer(model, byte).next)
      /\ acked' = Append(acked, step_answer(model, byte).should_ack)
      /\ Len(MasterBytes) \in Nat
  BY MasterBytesAssumption DEF IndInv, FrameType, FrameInv, Receive
<1>2. /\ step_answer(model, byte).next \in Byte
      /\ step_answer(model, byte).should_ack \in BOOLEAN
  BY <1>1, StepAnswerSound
<1>3. /\ Len(received') = n + 1 /\ Len(sent') = n + 2 /\ Len(acked') = n + 1
      /\ received' \in Seq(Byte) /\ sent' \in Seq(Byte) /\ acked' \in Seq(BOOLEAN)
      /\ \A i \in 1 .. n : received'[i] = received[i] /\ acked'[i] = acked[i]
      /\ \A i \in 1 .. n + 1 : sent'[i] = sent[i]
      /\ received'[n + 1] = byte
      /\ sent'[n + 2] = step_answer(model, byte).next
      /\ acked'[n + 1] = step_answer(model, byte).should_ack
  BY <1>1, <1>2
<1>4. /\ \A i \in 0 .. n : IsHeard(i)' <=> IsHeard(i)
      /\ IsHeard(n + 1)' <=> ~model'.is_broken
  BY <1>1, HeadJudged
<1>5. /\ model'.index = n + 1
      /\ model'.is_broken <=> model.is_broken \/ Breaks(model, byte)
      /\ model'.command = IF ~model'.is_broken /\ n = kWireIdIndex
                          THEN byte ELSE model.command
      /\ model'.argument = IF ~model'.is_broken /\ n = kWireArgumentIndex
                           THEN byte ELSE model.argument
      /\ model'.has_argument <=>
            model.has_argument \/ (~model'.is_broken /\ n = kWireArgumentIndex)
  BY <1>1, StepModelKeeps
<1>6. FrameType'
  <2>1. SoundModel(model') BY <1>1, StepModelSound
  <2>2. n + 1 <= Len(MasterBytes) BY <1>1
  <2> QED BY <1>1, <1>3, <1>5, <2>1, <2>2 DEF FrameType
<1>7. FrameInv'
  BY <1>3, <1>4 DEF FrameInv
<1>8. HeldInv'
  <2> USE DEF kWireIdIndex, kWireArgumentIndex
  <2>1. HeldInv /\ (model.is_broken <=> ~IsHeard(n)) /\ AnswersFaithfully
    BY <1>1 DEF IndInv, FrameInv
  <2>2. CASE n = 0
    BY <1>1, <1>3, <1>5, <2>1, <2>2 DEF HeldInv, Heard
  <2>3. CASE n = 1
    <3>1. ~Heard /\ ~model.has_argument
      BY <1>1, <2>1, <2>3 DEF HeldInv, Heard
    <3>2. sent'[3] = step_answer(model, byte).next /\ Len(sent') = 3
      BY <1>3, <2>3
    <3>3. Heard' <=> ~model'.is_broken
      <4>1. step_answer(model, byte).next =
                IF model'.is_broken THEN kIdleByte ELSE kReadyByte
        BY <1>1, <2>3 DEF step_answer, byte_at, kWireReadyIndex
      <4> QED BY <3>2, <4>1 DEF Heard, kIdleByte, kReadyByte
    <3> QED BY <1>3, <1>5, <2>3, <3>1, <3>3 DEF HeldInv
  <2>4. CASE n >= 2
    <3>1. Heard' <=> Heard
      <4>1. sent'[3] = sent[3] BY <1>3, <2>4
      <4> QED BY <1>1, <1>3, <2>4, <4>1 DEF Heard
    <3>2. Heard <=> ~model.is_broken
      <4>1. sent[3] = FaithfulByte(2)
        <5>1. 2 \in 0 .. Len(received) BY <2>4
        <5> QED BY <1>1, <2>1, <5>1 DEF AnswersFaithfully
      <4>2. IsHeard(2) <=> IsHeard(n)
        BY <2>4 DEF IsHeard
      <4> QED BY <1>1, <2>1, <2>4, <4>1, <4>2
              DEF Heard, FaithfulByte, kIdleByte, kReadyByte
    <3>3. ~Breaks(model, byte)
      <4>1. model.index = n BY <1>1
      <4> QED BY <2>4, <4>1 DEF Breaks
    <3>4. received'[2] = received[2] /\ (n >= 4 => received'[4] = received[4])
      BY <1>3, <2>4
    <3>5. model'.command = model.command /\ (model'.is_broken <=> model.is_broken)
      BY <1>5, <2>4, <3>3
    <3>6. CASE n = 3
      BY <1>3, <1>5, <2>1, <3>1, <3>2, <3>4, <3>5, <3>6 DEF HeldInv
    <3>7. CASE n # 3
      <4>1. /\ model'.argument = model.argument
            /\ model'.has_argument <=> model.has_argument
        BY <1>5, <3>7
      <4>2. n >= 4 <=> n + 1 >= 4 BY <3>7
      <4> QED BY <1>3, <2>1, <2>4, <3>1, <3>4, <3>5, <4>1, <4>2 DEF HeldInv
    <3> QED BY <3>6, <3>7
  <2> QED BY <2>2, <2>3, <2>4
<1>9. AnswersFaithfully'
  <2>1. /\ \A i \in 0 .. n : sent[i + 1] = FaithfulByte(i)
        /\ \A i \in 0 .. n - 1 : acked[i + 1] = FaithfulAck(i)
    BY <1>1 DEF IndInv, AnswersFaithfully
  <2>2. /\ \A i \in 0 .. n : FaithfulByte(i)' = FaithfulByte(i)
        /\ \A i \in 0 .. n - 1 : FaithfulAck(i)' = FaithfulAck(i)
    BY <1>1, FaithfulUnchanged
  <2>3. sent'[n + 2] = FaithfulByte(n + 1)' /\ acked'[n + 1] = FaithfulAck(n)'
    BY <1>1, <1>3, AnswerFaithful
  <2>4. ASSUME NEW i \in 0 .. n + 1
        PROVE  sent'[i + 1] = FaithfulByte(i)'
    <3>1. CASE i = n + 1 BY <2>3, <3>1
    <3>2. CASE i \in 0 .. n
      <4>1. i + 1 \in 1 .. n + 1 BY <3>2
      <4> QED BY <1>3, <2>1, <2>2, <3>2, <4>1
    <3> QED BY <3>1, <3>2
  <2>5. ASSUME NEW i \in 0 .. n
        PROVE  acked'[i + 1] = FaithfulAck(i)'
    <3>1. CASE i = n BY <2>3, <3>1
    <3>2. CASE i \in 0 .. n - 1
      <4>1. i + 1 \in 1 .. n BY <3>2
      <4> QED BY <1>3, <2>1, <2>2, <3>2, <4>1
    <3> QED BY <3>1, <3>2
  <2>6. Len(received') - 1 = n BY <1>3
  <2> QED BY <1>3, <2>4, <2>5, <2>6 DEF AnswersFaithfully
<1> QED BY <1>6, <1>7, <1>8, <1>9 DEF IndInv

(* A line typed between two frames leaves what was heard, and between two   *)
(* frames nothing is said of what is answered.                              *)
LEMMA CommandInv ==
    ASSUME IndInv, NEW line \in Lines, Command(line)
    PROVE  IndInv'
<1>1. /\ ~selected /\ selected' = selected /\ received' = received
      /\ sent' = sent /\ acked' = acked /\ model' = apply(model, line)
      /\ SoundModel(model) /\ IsLine(line)
  BY LinesAssumption DEF Command, IndInv, FrameType
<1>2. SoundModel(model')
  BY <1>1, ApplySound
<1>3. /\ model'.index = model.index /\ model'.command = model.command
      /\ model'.argument = model.argument
      /\ model'.has_argument = model.has_argument
  BY <1>1, ApplyKeeps
<1>4. FrameType' BY <1>1, <1>2, <1>3 DEF IndInv, FrameType
<1>5. FrameInv' /\ AnswersFaithfully'
  BY <1>1 DEF FrameInv, AnswersFaithfully
<1>6. HeldInv' BY <1>1, <1>3 DEF IndInv, HeldInv, Heard
<1> QED BY <1>4, <1>5, <1>6 DEF IndInv

LEMMA ReceiveOne ==
    ASSUME IndInv, ReceiveAny
    PROVE  \E byte \in Byte : Receive(byte)
<1>1. /\ Len(received) \in Nat /\ Len(received) < Len(MasterBytes)
      /\ \E byte \in MasterBytes[Len(received) + 1] : Receive(byte)
  BY DEF ReceiveAny, IndInv, FrameType
<1>2. MasterBytes[Len(received) + 1] \subseteq Byte
  <2>1. Len(received) + 1 \in 1 .. Len(MasterBytes)
    BY <1>1, MasterBytesAssumption
  <2> QED BY <2>1, MasterBytesAssumption
<1> QED BY <1>1, <1>2

LEMMA NextInv == IndInv /\ [SgNext]_sgVars => IndInv'
<1> SUFFICES ASSUME IndInv, [SgNext]_sgVars PROVE IndInv'
  OBVIOUS
<1>1. CASE Select BY <1>1, SelectInv
<1>2. CASE ReceiveAny
  <2>1. PICK byte \in Byte : Receive(byte) BY <1>2, ReceiveOne
  <2>2. PICK n \in Nat : n = Len(received) BY DEF IndInv, FrameType
  <2>3. n < Len(MasterBytes) BY <1>2, <2>2 DEF ReceiveAny
  <2> QED BY <2>1, <2>2, <2>3, ReceiveInv
<1>3. CASE Deselect
  <2>1. FrameInv' /\ AnswersFaithfully'
    BY <1>3 DEF Deselect, FrameInv, AnswersFaithfully
  <2> QED BY <1>3, <2>1 DEF Deselect, IndInv, FrameType, HeldInv, Heard
<1>4. CASE \E line \in Lines : Command(line)
  BY <1>4, CommandInv
<1>5. CASE UNCHANGED sgVars
  <2>1. /\ model' = model /\ selected' = selected /\ received' = received
        /\ sent' = sent /\ acked' = acked
    BY <1>5 DEF sgVars
  <2>2. FrameType' BY <2>1 DEF IndInv, FrameType
  <2>3. FrameInv' BY <2>1 DEF IndInv, FrameInv, IsHeard
  <2>4. HeldInv' BY <2>1 DEF IndInv, HeldInv, Heard
  <2>5. AnswersFaithfully'
    <3>1. \A i : IsHeard(i)' <=> IsHeard(i) BY <2>1 DEF IsHeard
    <3>2. \A i : FaithfulByte(i)' = FaithfulByte(i)
      BY <2>1, <3>1 DEF FaithfulByte
    <3>3. \A i : FaithfulAck(i)' = FaithfulAck(i)
      BY <2>1, <3>1 DEF FaithfulAck
    <3> QED BY <2>1, <3>2, <3>3 DEF IndInv, AnswersFaithfully
  <2> QED BY <2>2, <2>3, <2>4, <2>5 DEF IndInv
<1> QED BY <1>1, <1>2, <1>3, <1>4, <1>5 DEF SgNext

LEMMA Invariance == SgSpec => []IndInv
BY InitInv, NextInv, PTL DEF SgSpec

-----------------------------------------------------------------------------
(* Every state of the emulator is well typed, whatever a master clocks in.  *)
THEOREM TypeCorrect == SgSpec => []SgTypeOK
<1>1. IndInv => SgTypeOK
  BY DEF IndInv, FrameType, SoundModel, SgTypeOK
<1> QED BY <1>1, Invariance, PTL

(* Answering byte by byte, with one byte of look-ahead and one broken flag, *)
(* gives the frames R-EMU-01 and R-EMU-02 promise, for every master.        *)
THEOREM Faithful == SgSpec => []AnswersFaithfully
<1>1. IndInv => AnswersFaithfully BY DEF IndInv
<1> QED BY <1>1, Invariance, PTL

(* No byte of a frame changes the mode the frame is answered in.            *)
THEOREM ModeFixed == SgSpec => ModeFixedInFrame
<1>1. IndInv /\ [SgNext]_sgVars => [selected => mode_id(model') = mode_id(model)]_sgVars
  <2> SUFFICES ASSUME IndInv, SgNext, selected
               PROVE  mode_id(model') = mode_id(model)
    OBVIOUS
  <2>1. ReceiveAny \/ Deselect BY DEF SgNext, Select, Command
  <2>2. CASE ReceiveAny
    <3>1. PICK byte \in Byte : Receive(byte) BY <2>2, ReceiveOne
    <3>2. SoundModel(model) /\ model' = step_model(model, byte)
      BY <3>1 DEF Receive, IndInv, FrameType
    <3> QED BY <3>2, StepModelKeeps
  <2>3. CASE Deselect BY <2>3 DEF Deselect
  <2> QED BY <2>1, <2>2, <2>3
<1> QED BY <1>1, Invariance, PTL DEF SgSpec, ModeFixedInFrame

(* A command is obeyed at the next frame if the emulator heard the frame    *)
(* that carried it up to its argument, and never otherwise or again.        *)
THEOREM TakeEffectOnce == SgSpec => CommandsTakeEffectOnce
<1> DEFINE heard == Len(sent) >= 3 /\ sent[3] # kIdleByte
           Obeyed ==
              /\ model'.is_config =
                  IF heard /\ Commanded(kCmdConfig, kConfigEnter) THEN TRUE
                  ELSE IF heard /\ Commanded(kCmdConfig, kConfigLeave) THEN FALSE
                  ELSE model.is_config
              /\ model'.is_analog =
                  IF heard /\ Commanded(kCmdSetMode, kModeAnalog)
                     /\ model.fault.kind # "Decline" THEN TRUE
                  ELSE IF heard /\ Commanded(kCmdSetMode, kModeDigital) THEN FALSE
                  ELSE model.is_analog
<1>1. IndInv /\ [SgNext]_sgVars => [Select => Obeyed]_sgVars
  <2> SUFFICES ASSUME IndInv, Select PROVE Obeyed
    OBVIOUS
  <2>1. SoundModel(model) /\ model' = reset(model)
    BY DEF IndInv, FrameType, Select
  <2>2. /\ model'.is_config =
             (IF model.has_argument THEN apply_command(model) ELSE model).is_config
        /\ model'.is_analog =
             (IF model.has_argument THEN apply_command(model) ELSE model).is_analog
    BY <2>1, ResetKeeps
  <2>3. ASSUME NEW cmd, NEW arg
        PROVE  heard /\ Commanded(cmd, arg) <=>
                  model.has_argument /\ model.command = cmd /\ model.argument = arg
    BY DEF IndInv, HeldInv, Heard, Commanded
  <2>4. CASE ~model.has_argument
    BY <2>2, <2>3, <2>4
  <2>5. CASE model.has_argument
    <3>1. /\ model'.is_config = apply_command(model).is_config
          /\ model'.is_analog = apply_command(model).is_analog
      BY <2>2, <2>5
    <3> QED BY <2>1, <2>3, <2>5, <3>1, ApplyCommandObeys
  <2> QED BY <2>4, <2>5
<1> QED BY <1>1, Invariance, PTL DEF SgSpec, CommandsTakeEffectOnce
=============================================================================
