---------------------------- MODULE ConsoleLines ----------------------------
(***************************************************************************)
(* The two readers of a serial console, a character at a time: the         *)
(* observer's, which knows one command, and the emulator's, which hands     *)
(* every line that is not too long to its model.  Both have a buffer that a *)
(* line may overrun; one operator types the same characters at both.        *)
(***************************************************************************)
EXTENDS Naturals, SequencesExt

CONSTANTS
    Letters,         \* the characters other than these two:
    CR, LF,          \* carriage return and line feed
    kAnalogCommand,  \* the observer's command
    kMaxLineLen,     \* the longest line the emulator accepts
    MaxTyped         \* bound: the characters typed before a line feed

ASSUME CharactersAssumption == CR # LF /\ CR \notin Letters /\ LF \notin Letters
ASSUME CommandAssumption == kAnalogCommand \in Seq(Letters) \ {<<>>}
ASSUME LineLenAssumption == kMaxLineLen \in Nat /\ MaxTyped \in Nat

VARIABLES
    line,    \* the observer's CommandLine
    event,   \* the LineEvent of the last character
    reader,  \* the emulator's LineReader: its text
    result,  \* what became of the last line the emulator read
    typed    \* the characters since the last line feed

lineVars == <<line, event, reader, result, typed>>

LineEvent == {"Pending", "Analog", "Unknown"}
EmptyLine == [text |-> <<>>, is_overlong |-> FALSE]

(* The line's text without the carriage return a terminal may end it with. *)
WithoutCR(text) ==
    IF text # <<>> /\ Last(text) = CR THEN Front(text) ELSE text

-----------------------------------------------------------------------------
(* The observer. *)
kCommandBufferSize == Len(kAnalogCommand) + 2

judge(l) ==
    LET text == WithoutCR(l.text)
    IN  IF ~l.is_overlong /\ text = <<>> THEN "Pending"
        ELSE IF ~l.is_overlong /\ text = kAnalogCommand THEN "Analog"
        ELSE "Unknown"

(* One more character of a line that has room for it or has not.            *)
taken(l, c) ==
    IF Len(l.text) < kCommandBufferSize THEN [l EXCEPT !.text = Append(@, c)]
    ELSE [l EXCEPT !.is_overlong = TRUE]

(* Wrong: a line feed clears the text only. *)
take_char_sticky(l, c) ==
    IF c = LF THEN [l EXCEPT !.text = <<>>] ELSE taken(l, c)

(* The line read so far, after one more character; a line feed clears it.   *)
take_char(l, c) == IF c = LF THEN EmptyLine ELSE taken(l, c)

-----------------------------------------------------------------------------
(* The emulator: a line that overruns the buffer is cut, and what is left   *)
(* must still be too long.  Wrong: room for the carriage return only.       *)
kLineBufferSize_exact == kMaxLineLen + 1
kLineBufferSize == kMaxLineLen + 2

read_char(text, c) ==
    IF c = LF THEN <<>>
    ELSE IF Len(text) < kLineBufferSize THEN Append(text, c) ELSE text

RefusedLine == [ok |-> FALSE]
AcceptedLine(text) == [ok |-> TRUE, text |-> text]

(* The length check of SgModel::apply; the parsing after it is left out. *)
applied(text) ==
    IF Len(WithoutCR(text)) > kMaxLineLen THEN RefusedLine
    ELSE AcceptedLine(WithoutCR(text))

-----------------------------------------------------------------------------
LineInit ==
    /\ line = EmptyLine
    /\ event = "Pending"
    /\ reader = <<>>
    /\ result = RefusedLine  \* stands for: none yet
    /\ typed = <<>>

Type(c) ==
    /\ c # LF
    /\ Len(typed) < MaxTyped
    /\ line' = take_char(line, c)
    /\ event' = "Pending"
    /\ reader' = read_char(reader, c)
    /\ typed' = Append(typed, c)
    /\ UNCHANGED result

EndLine ==
    /\ event' = judge(line)
    /\ line' = take_char(line, LF)
    /\ result' = applied(reader)
    /\ reader' = read_char(reader, LF)
    /\ typed' = <<>>

LineNext == (\E c \in Letters \cup {CR} : Type(c)) \/ EndLine

LineSpec == LineInit /\ [][LineNext]_lineVars

LineTypeOK ==
    /\ line.text \in Seq(Letters \cup {CR}) /\ Len(line.text) <= kCommandBufferSize
    /\ line.is_overlong \in BOOLEAN
    /\ event \in LineEvent
    /\ reader \in Seq(Letters \cup {CR}) /\ Len(reader) <= kLineBufferSize
    /\ result.ok \in BOOLEAN
    /\ typed \in Seq(Letters \cup {CR})

-----------------------------------------------------------------------------
(* The observer obeys the line `analog` and no other: a line is judged as   *)
(* it was typed, whole, whatever was typed before it, and never cut and     *)
(* read as a shorter command (command_line.h).                              *)
ObserverJudgesWholeLines ==
    [][EndLine =>
        event' = IF WithoutCR(typed) = <<>> THEN "Pending"
                 ELSE IF WithoutCR(typed) = kAnalogCommand THEN "Analog"
                 ELSE "Unknown"]_lineVars

(* The emulator's model gets the line that was typed or refuses it as too   *)
(* long: its buffer cuts a line silently, and no cut line passes for a      *)
(* shorter one, not even one with a carriage return in it.                  *)
EmulatorReadsWholeLines ==
    [][EndLine =>
        result' = IF Len(WithoutCR(typed)) > kMaxLineLen THEN RefusedLine
                  ELSE AcceptedLine(WithoutCR(typed))]_lineVars
=============================================================================
