----------------------------- MODULE TraceLine -----------------------------
(***************************************************************************)
(* The bus trace: the T1 line that src/core/bus_trace.cpp writes of a frame  *)
(* into its caller's buffer, and what tools/trace_decode.py reads from it.  *)
(*                                                                         *)
(* A line is a sequence of items, a label, a byte, a number or a mark, each *)
(* with its width in characters.  A frame is a sequence of WireBytes; its   *)
(* first `completed` ones completed.                                        *)
(***************************************************************************)
EXTENDS Integers, Sequences
LOCAL INSTANCE SequencesExt

-----------------------------------------------------------------------------
(* format_trace_line. *)
Label(text, width) == [is |-> text, value |-> 0, width |-> width]
Sep    == Label(",", 1)
Dec(v) == [is |-> "dec", value |-> v, width |-> Len(ToString(v))]
Hex(v) == [is |-> "hex", value |-> v, width |-> 2]

FreshWriter == [items |-> <<>>, size |-> 0, is_overflow |-> FALSE]

(* Wrong: what does not fit is left out, and what does still goes in. *)
Put_skipped(capacity, writer, item) ==
    IF writer.size + item.width > capacity THEN writer
    ELSE [writer EXCEPT !.items = Append(@, item), !.size = @ + item.width]

(* A number goes in whole or not at all, a text character by character: the *)
(* difference shows only in a line that is refused.                         *)
Put(capacity, writer, item) ==
    IF writer.size + item.width > capacity THEN [writer EXCEPT !.is_overflow = TRUE]
    ELSE [writer EXCEPT !.items = Append(@, item), !.size = @ + item.width]

List(count, item(_)) ==
    FlattenSeq([i \in 1 .. count |-> IF i = 1 THEN <<item(i)>> ELSE <<Sep, item(i)>>])

IsAttempted(i, completed) == i <= completed + 1

Items(frame, completed) ==
    LET Out(i) == Hex(frame[i].out)
        In(i)  == IF i <= completed THEN Hex(frame[i].in) ELSE Label("--", 2)
        Us(i)  == IF IsAttempted(i, completed) THEN Dec(frame[i].elapsed_us) ELSE Label("-", 1)
    IN  <<Label("T1 n=", 5), Dec(Len(frame)), Label(" k=", 3), Dec(completed)>>
            \o <<Label(" out=", 5)>> \o List(Len(frame), Out)
            \o <<Label(" in=", 4)>> \o List(Len(frame), In)
            \o <<Label(" us=", 4)>> \o List(Len(frame), Us)

(* The characters of a line that is not cut.                                *)
LineWidth(frame, completed) ==
    LET Wider(width, item) == width + item.width
    IN  FoldLeft(Wider, 0, Items(frame, completed))

format_trace_line(frame, completed, capacity) ==
    LET PutItem(writer, item) == Put(capacity, writer, item)
        written == FoldLeft(PutItem, FreshWriter, Items(frame, completed))
    IN  IF written.is_overflow THEN <<>> ELSE written.items

-----------------------------------------------------------------------------
(* trace_decode.py. *)
Labels == <<"T1 n=", " k=", " out=", " in=", " us=">>
LabelsOf(text) ==
    LET IsLabel(item) == item.is \in Range(Labels)
        labels == SelectSeq(text, IsLabel)
    IN  [i \in DOMAIN labels |-> labels[i].is]

Unreadable == [n |-> 0]

(* The items between the i-th label and the next.                           *)
Field(text, i) ==
    LET Place(j) == CHOOSE p \in DOMAIN text : text[p].is = Labels[j]
        end == IF i = Len(Labels) THEN Len(text) ELSE Place(i + 1) - 1
    IN  SubSeq(text, Place(i) + 1, end)

(* What lies between the commas, when there are n of them.                  *)
HasItems(field, n) ==
    /\ Len(field) = 2 * n - 1
    /\ \A p \in DOMAIN field : (p % 2 = 0) <=> (field[p].is = Sep.is)

ItemOf(field, i) == field[2 * i - 1]

parse(text) ==
    LET field == [i \in DOMAIN Labels |-> Field(text, i)]
        n == field[1][1].value
        k == field[2][1].value
        IsItem(j, i, kind) == ItemOf(field[j], i).is = kind
    IN  IF /\ LabelsOf(text) = Labels
           /\ \A j \in {1, 2} : Len(field[j]) = 1 /\ field[j][1].is = "dec"
           /\ n > 0 /\ k <= n
           /\ \A j \in 3 .. 5 : HasItems(field[j], n)
           /\ \A i \in 1 .. n :
                /\ IsItem(3, i, "hex")
                /\ IsItem(4, i, IF i <= k THEN "hex" ELSE "--")
                /\ IsItem(5, i, IF i <= k + 1 THEN "dec" ELSE "-")
        THEN [n |-> n, k |-> k,
              out |-> [i \in 1 .. n |-> ItemOf(field[3], i).value],
              in  |-> [i \in 1 .. k |-> ItemOf(field[4], i).value],
              us  |-> [i \in {j \in 1 .. n : j <= k + 1} |-> ItemOf(field[5], i).value]]
        ELSE Unreadable

(* The headline: the last byte waits for no ACK, so only its shift can have *)
(* failed.                                                                  *)
headline(n, k) ==
    IF k = n THEN "complete" ELSE IF k < n - 1 THEN "no ACK" ELSE "did not complete"

render(text) ==
    LET frame == parse(text)
    IN  IF frame = Unreadable THEN [frame |-> frame, headline |-> "unreadable"]
        ELSE [frame |-> frame, headline |-> headline(frame.n, frame.k)]
=============================================================================
