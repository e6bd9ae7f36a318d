---------------------------- MODULE GuitarAlone ----------------------------
(***************************************************************************)
(* A player at the guitar: buttons pressed and released, the bar moved, the *)
(* controller's mode changed, and after each the frame the controller sends *)
(* and the report that map_frame and build_report make of it.  Which of the *)
(* reports the host is given is report_for's to say (Gamepad).              *)
(***************************************************************************)
EXTENDS GuitarReport

CONSTANT Axes  \* the whammy bytes to try

ASSUME AxesAssumption == Axes \subseteq Byte

VARIABLES
    held,    \* the buttons the player holds
    bar,     \* the whammy byte the guitar would send
    decoded, \* the decoded frame
    built    \* the report built of it

playerVars == <<held, bar, decoded, built>>

(* The guitar's own wiring: which payload bit each button pulls low, as     *)
(* measured on the SG and recorded in the vectors of the repository.        *)
Wired == [Select |-> <<1, 0>>, Start |-> <<1, 3>>, StrumUp |-> <<1, 4>>,
          StrumDown |-> <<1, 6>>, Tilt |-> <<2, 0>>, FretGreen |-> <<2, 1>>,
          FretYellow |-> <<2, 4>>, FretRed |-> <<2, 5>>, FretBlue |-> <<2, 6>>,
          FretOrange |-> <<2, 7>>]

(* One buttons byte: 1s, and a 0 for each button held. *)
ButtonsByte(index, buttons) ==
    LET lows == {Wired[b] : b \in buttons}
        weigh[n \in 0 .. 8] ==
            IF n = 0 THEN 0
            ELSE weigh[n - 1] + (IF <<index, n - 1>> \in lows THEN 0 ELSE 2 ^ (n - 1))
    IN  weigh[8]

kStickCentred == 128

(* What the controller sends after the address byte: its id and the ready   *)
(* byte, then the buttons, and the axes only in analog mode; in config mode *)
(* zeros.                                                                   *)
Sends(id, buttons, axis) ==
    <<id, kReadyByte>> \o
        CASE id = Digital -> <<ButtonsByte(1, buttons), ButtonsByte(2, buttons)>>
          [] id = Analog  -> <<ButtonsByte(1, buttons), ButtonsByte(2, buttons),
                               kStickCentred, kStickCentred, kStickCentred, axis>>
          [] id = Config  -> <<0, 0, 0, 0, 0, 0>>

(* build_report(map_frame(..)) of the frame, whatever its mode. *)
Mapped(id, buttons, axis) ==
    LET f == decode(Sends(id, buttons, axis))
    IN  decoded' = f /\ built' = build_report(map_frame(f))

PlayerInit ==
    /\ held = {}
    /\ bar = kWhammyAxisRest
    /\ decoded = decode(Sends(Analog, {}, kWhammyAxisRest))
    /\ built = build_report(map_frame(decoded))

Toggle(button) ==
    /\ held' = IF button \in held THEN held \ {button} ELSE held \cup {button}
    /\ UNCHANGED bar
    /\ Mapped(decoded.id, held', bar)

MoveBar(axis) ==
    /\ bar' = axis
    /\ UNCHANGED held
    /\ Mapped(decoded.id, held, axis)

ChangeMode(id) ==
    /\ UNCHANGED <<held, bar>>
    /\ Mapped(id, held, bar)

PlayerNext == \/ \E button \in Button : Toggle(button)
        \/ \E axis \in Axes : MoveBar(axis)
        \/ \E id \in ControllerId : ChangeMode(id)

PlayerSpec == PlayerInit /\ [][PlayerNext]_playerVars

PlayerTypeOK ==
    /\ held \subseteq Button
    /\ bar \in Axes \cup {kWhammyAxisRest}
    /\ decoded \in Frames
    /\ built \in HidReport

-----------------------------------------------------------------------------
(* How a host reads a report, from its descriptor: ten one-bit buttons from *)
(* bit 0 up, padding to the byte, one byte of X.                            *)
HostButtons(r) ==
    {b \in Button : LET n == kButtonIndex[b]
                    IN  (r[n \div 8 + 1] \div 2 ^ (n % 8)) % 2 = 1}

(* A report says what the player holds, read by its descriptor: wired,      *)
(* masked and packed ten times over, no button is another's.  Of a frame in *)
(* config mode, whose zeros would read as everything pressed, it says       *)
(* nothing held: map_frame does not leave that to its caller (ADR-0002).    *)
(* The padding stays clear (R-HID-01).                                      *)
ReportSaysWhatIsHeld ==
    /\ HostButtons(built) = IF decoded.id = Config THEN {} ELSE held
    /\ built[2] < 4

(* The whammy is the distance of the bar from its rest, and at rest outside *)
(* analog mode, whatever the payload holds (R-PROTO-04, ADR-0022): pushing  *)
(* the bar further never lowers it, and the stop is as far as it goes.      *)
WhammyFollowsTheBar ==
    [][/\ decoded'.id # Analog => built'[3] = 0
       /\ decoded.id = Analog /\ decoded'.id = Analog /\ bar' <= bar
            => built'[3] >= built[3]
       /\ decoded'.id = Analog /\ bar' = 0 => built'[3] = 254]_playerVars
=============================================================================
