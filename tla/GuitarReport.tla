---------------------------- MODULE GuitarReport ----------------------------
(***************************************************************************)
(* From a decoded frame to the guitar's controls, and from those to the    *)
(* bytes of the HID report.  A GuitarState is the set of buttons that are  *)
(* pressed and the whammy.                                                 *)
(***************************************************************************)
EXTENDS Ps2Protocol
LOCAL INSTANCE FiniteSetsExt

(* The buttons in report order; kButtonIndex is the enumerator. *)
ButtonOrder == <<"FretGreen", "FretRed", "FretYellow", "FretBlue", "FretOrange",
                 "StrumUp", "StrumDown", "Start", "Select", "Tilt">>
kButtonCount == Len(ButtonOrder)
Button == {ButtonOrder[i] : i \in 1 .. kButtonCount}
kButtonIndex ==
    [b \in Button |-> (CHOOSE i \in 1 .. kButtonCount : ButtonOrder[i] = b) - 1]

-----------------------------------------------------------------------------
(* Where each control lives in the payload: its mask in the low or the high *)
(* buttons byte.                                                            *)
kMaskLow  == [Select |-> \h01, Start |-> \h08, StrumUp |-> \h10, StrumDown |-> \h40]
kMaskHigh == [Tilt |-> \h01, FretGreen |-> \h02, FretYellow |-> \h10,
              FretRed |-> \h20, FretBlue |-> \h40, FretOrange |-> \h80]

kButtonsLowIndex  == 1
kButtonsHighIndex == 2
kWhammyIndex      == 6

kWhammyAxisRest  == 127
kWhammyAxisScale == 2
kWhammyRest      == 0

GuitarState == [pressed : SUBSET Button, whammy : Byte]

(* Active low: a pressed button's bit is clear. *)
is_pressed(buttons, mask) == (buttons \div mask) % 2 = 0

(* Wrong: every id carries controls. *)
reports_controls_always(id) == id \in ControllerId

(* A closed set, so that an id added later reports nothing. *)
reports_controls(id) == id \in {Digital, Analog}

(* Wrong: the byte above the rest is not taken for the rest. *)
whammy_unclamped(axis) == ((256 + kWhammyAxisRest - axis) * kWhammyAxisScale) % 256

(* The bar falls from kWhammyAxisRest to 0: the distance, doubled, in a byte. *)
whammy_from_axis(axis) ==
    IF axis >= kWhammyAxisRest THEN kWhammyRest
    ELSE ((kWhammyAxisRest - axis) * kWhammyAxisScale) % 256

map_frame(frame) ==
    [pressed |->
        IF reports_controls(frame.id)
        THEN {b \in DOMAIN kMaskLow :
                is_pressed(frame.payload[kButtonsLowIndex], kMaskLow[b])}
             \cup {b \in DOMAIN kMaskHigh :
                is_pressed(frame.payload[kButtonsHighIndex], kMaskHigh[b])}
        ELSE {},
     whammy |->
        IF frame.id = Analog THEN whammy_from_axis(frame.payload[kWhammyIndex])
        ELSE kWhammyRest]

-----------------------------------------------------------------------------
(* The report: button N in bit N % 8 of byte N \div 8, then the whammy. *)
kBitsPerByte  == 8
kButtonBytes  == (kButtonCount + kBitsPerByte - 1) \div kBitsPerByte
kWhammyOffset == kButtonBytes
kReportLen    == kButtonBytes + 1

HidReport == [1 .. kReportLen -> Byte]

(* The bits of the pressed buttons that are in the i-th byte. *)
button_bits(pressed, i) ==
    LET bit(b) == 2 ^ (kButtonIndex[b] % kBitsPerByte)
    IN  MapThenSumSet(bit, {b \in pressed : kButtonIndex[b] \div kBitsPerByte = i - 1})

build_report(state) ==
    [i \in 1 .. kReportLen |->
        IF i = kWhammyOffset + 1 THEN state.whammy ELSE button_bits(state.pressed, i)]

(* No button set, the whammy at rest. *)
neutral_report == build_report([pressed |-> {}, whammy |-> kWhammyRest])

(* Wrong: one that looks at the frame only. *)
report_for_frame(now, outcome) ==
    IF outcome.ok THEN build_report(map_frame(outcome)) ELSE neutral_report

(* The controls of a good analog frame while the link streams; else none.   *)
report_for(now, outcome) ==
    IF now = "AnalogStreaming" /\ outcome.ok
    THEN build_report(map_frame(outcome)) ELSE neutral_report
=============================================================================
