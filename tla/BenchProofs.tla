---------------------------- MODULE BenchProofs ----------------------------
(***************************************************************************)
(* The windows of the harness, for every script, every summary length, and *)
(* every number of polls a summary travels that is less than that.         *)
(***************************************************************************)
EXTENDS Bench, TLAPS

(* A line is on its way, or its answer waits, only where the harness waits  *)
(* for it; so nothing outdates the summaries while it reads them.           *)
LineInv ==
    /\ hpc \in {"write", "ok?", "drop", "read", "done"}
    /\ hpc \in {"write", "drop", "read"} => typed = <<>> /\ ~ok
    /\ hpc = "ok?" => typed = <<>> \/ ~ok

(* Of the summaries not yet read, in the order they will be read, only      *)
(* those may have a poll from before the line that are still discarded: one *)
(* that has arrived, the one on its way, the one the master is counting.    *)
StaleInv ==
    hpc = "read" =>
        /\ \A i \in 1 .. Len(arrived) :
                arrived[i].stale => i + discarded <= DISCARDED_SUMMARIES
        /\ flight # <<>> /\ flight[1].stale =>
                Len(arrived) + 1 + discarded <= DISCARDED_SUMMARIES
        /\ tally.stale =>
                Len(arrived) + Len(flight) + 1 + discarded <= DISCARDED_SUMMARIES

-----------------------------------------------------------------------------
(* Sequences of summaries, whatever a summary holds. *)
IsSeq(q) == \E X : q \in Seq(X)

LEMMA NoneSeq ==
    IsSeq(<<>>)
<1>1. <<>> \in Seq({}) OBVIOUS
<1> QED BY <1>1 DEF IsSeq

LEMMA OneSeq ==
    ASSUME NEW x
    PROVE  IsSeq(<<x>>) /\ Len(<<x>>) = 1 /\ <<x>>[1] = x /\ <<x>> # <<>>
<1>1. <<x>> \in Seq({x}) OBVIOUS
<1> QED BY <1>1 DEF IsSeq

LEMMA LenSeq ==
    ASSUME NEW q, IsSeq(q)
    PROVE  Len(q) \in Nat /\ DOMAIN q = 1 .. Len(q) /\ (q = <<>> <=> Len(q) = 0)
<1>1. PICK X : q \in Seq(X) BY DEF IsSeq
<1> QED BY <1>1

LEMMA TailSeq ==
    ASSUME NEW q, IsSeq(q), q # <<>>
    PROVE  /\ IsSeq(Tail(q)) /\ Len(Tail(q)) = Len(q) - 1
           /\ \A i \in 1 .. Len(Tail(q)) : Tail(q)[i] = q[i + 1]
           /\ Head(q) = q[1] /\ 1 \in 1 .. Len(q)
<1>1. PICK X : q \in Seq(X) BY DEF IsSeq
<1>2. Tail(q) \in Seq(X) BY <1>1
<1> QED BY <1>1, <1>2 DEF IsSeq

LEMMA AppendSeq ==
    ASSUME NEW q, IsSeq(q), NEW x
    PROVE  /\ IsSeq(Append(q, x)) /\ Len(Append(q, x)) = Len(q) + 1
           /\ \A i \in 1 .. Len(q) : Append(q, x)[i] = q[i]
           /\ Append(q, x)[Len(q) + 1] = x
<1>1. PICK X : q \in Seq(X) BY DEF IsSeq
<1>2. q \in Seq(X \cup {x}) /\ x \in X \cup {x} BY <1>1
<1>3. Append(q, x) \in Seq(X \cup {x}) BY <1>2
<1> QED BY <1>2, <1>3 DEF IsSeq

LEMMA OutdatedSeq ==
    ASSUME NEW q, IsSeq(q)
    PROVE  IsSeq(Outdated(q)) /\ Len(Outdated(q)) = Len(q)
<1> DEFINE X == {Outdated(q)[i] : i \in 1 .. Len(q)}
<1>1. Len(q) \in Nat /\ DOMAIN q = 1 .. Len(q) BY LenSeq
<1>2. Outdated(q) \in [1 .. Len(q) -> X]
  <2>1. \A i \in 1 .. Len(q) : Outdated(q)[i] \in X OBVIOUS
  <2>2. Outdated(q) = [i \in 1 .. Len(q) |-> Outdated(q)[i]]
    BY <1>1 DEF Outdated
  <2> HIDE DEF X
  <2> QED BY <2>1, <2>2
<1> HIDE DEF X
<1>3. Outdated(q) \in Seq(X) /\ Len(Outdated(q)) = Len(q) BY <1>1, <1>2
<1> QED BY <1>3 DEF IsSeq

-----------------------------------------------------------------------------
(* The counters: whether a poll of the summary is stale is no business of   *)
(* count_poll's, and every summary starts without one.                      *)
Tallies(R, C, P, W) == [polls : Nat, refused : R, changes : C, last_payload : P,
                        whammy : W, stale : BOOLEAN]
IsTally(t) == \E R, C, P, W : t \in Tallies(R, C, P, W)

LEMMA CountsPoll ==
    ASSUME NEW t, IsTally(t), NEW now, NEW outcome
    PROVE  /\ IsTally(noted_whammy(count_poll(t, now, outcome), now, outcome))
           /\ noted_whammy(count_poll(t, now, outcome), now, outcome).polls
                = t.polls + 1
           /\ noted_whammy(count_poll(t, now, outcome), now, outcome).stale <=> t.stale
<1> DEFINE c == count_poll(t, now, outcome)
           w == noted_whammy(c, now, outcome)
<1>1. PICK R, C, P, W : t \in Tallies(R, C, P, W) BY DEF IsTally
<1>2. PICK R2, C2, P2, W2 :
        /\ R2 = R \cup {t.refused + 1} /\ C2 = C \cup {t.changes + 1}
        /\ P2 = P \cup {outcome.payload} /\ W2 = W \cup {map_frame(outcome).whammy}
  OBVIOUS
<1>3. c \in Tallies(R2, C2, P2, W) /\ c.polls = t.polls + 1 /\ (c.stale <=> t.stale)
  <2>1. PICK r, g, p :
          /\ r = (IF now = "Absent" THEN t.refused + 1 ELSE t.refused)
          /\ g = (IF (now = "AnalogStreaming" /\ outcome.ok)
                      /\ t.last_payload \notin {<<>>, outcome.payload}
                  THEN t.changes + 1 ELSE t.changes)
          /\ p = (IF now = "AnalogStreaming" /\ outcome.ok
                  THEN outcome.payload ELSE t.last_payload)
    OBVIOUS
  <2>n. PICK n : n = t.polls + 1 OBVIOUS
  <2>2. c = [t EXCEPT !.polls = n, !.refused = r, !.changes = g, !.last_payload = p]
    BY <2>1, <2>n DEF count_poll
  <2>3. r \in R2 /\ g \in C2 /\ p \in P2 BY <1>1, <1>2, <2>1 DEF Tallies
  <2>4. t \in Tallies(R2, C2, P2, W) BY <1>1, <1>2 DEF Tallies
  <2>5. n \in Nat BY <1>1, <2>n DEF Tallies
  <2>d. PICK d : d = c OBVIOUS
  <2>6. d = [t EXCEPT !.polls = n, !.refused = r, !.changes = g, !.last_payload = p]
    BY <2>2, <2>d
  <2> HIDE DEF c
  <2>7. d \in Tallies(R2, C2, P2, W) /\ d.polls = n /\ (d.stale <=> t.stale)
    <3>1. d \in Tallies(R2, C2, P2, W)
      BY ONLY <2>3, <2>4, <2>5, <2>6 DEF Tallies
    <3>2. d.polls = n BY ONLY <2>3, <2>4, <2>5, <2>6 DEF Tallies
    <3>3. d.stale = t.stale BY ONLY <2>3, <2>4, <2>5, <2>6 DEF Tallies
    <3> QED BY ONLY <3>1, <3>2, <3>3
  <2> QED BY <2>7, <2>n, <2>d
<1> HIDE DEF c
<1>4. w \in Tallies(R2, C2, P2, W2) /\ w.polls = c.polls /\ (w.stale <=> c.stale)
  BY <1>2, <1>3 DEF noted_whammy, Tallies
<1> HIDE DEF w
<1>5. IsTally(w) /\ w.polls = t.polls + 1 /\ (w.stale <=> t.stale)
  BY <1>3, <1>4 DEF IsTally
<1> QED BY <1>5 DEF w, c

LEMMA EmptiedTally ==
    ASSUME NEW t, IsTally(t)
    PROVE  IsTally(Emptied(t)) /\ Emptied(t).polls = 0 /\ ~Emptied(t).stale
<1>1. PICK R, C, P, W : t \in Tallies(R, C, P, W) BY DEF IsTally
<1>2. /\ Emptied(t) \in Tallies(R \cup {0}, C \cup {0}, P, W)
      /\ Emptied(t).polls = 0 /\ ~Emptied(t).stale
  BY <1>1 DEF Emptied, Tallies
<1> QED BY <1>2 DEF IsTally

-----------------------------------------------------------------------------
(* The invariant. *)
JudgeInv ==
    /\ IsSeq(flight) /\ Len(flight) <= 1
    /\ IsSeq(arrived)
    /\ IsSeq(got)
    /\ IsTally(tally) /\ tally.polls < kPollsPerSummary
    /\ discarded \in 0 .. DISCARDED_SUMMARIES
    /\ LineInv
    /\ StaleInv
    /\ JudgesAfterItsLines

LEMMA InitJudges ==
    ASSUME Init
    PROVE  JudgeInv
<1>1. IsSeq(flight) /\ IsSeq(arrived) /\ IsSeq(got) BY NoneSeq DEF Init
<1>2. Len(flight) = 0 /\ Len(got) = 0 BY DEF Init
<1>3. IsTally(tally)
  <2>1. tally \in Tallies({0}, {0}, {<<>>}, {NoWhammy}) BY DEF Init, Tallies
  <2> QED BY <2>1 DEF IsTally
<1>4. tally.polls = 0 BY DEF Init
<1>5. LineInv /\ StaleInv BY DEF Init, LineInv, StaleInv
<1>6. JudgesAfterItsLines BY DEF Init, JudgesAfterItsLines
<1>7. discarded \in 0 .. DISCARDED_SUMMARIES BY DEF Init, DISCARDED_SUMMARIES
<1>8. tally.polls < kPollsPerSummary BY <1>4, PollsPerSummaryAssumption
<1>9. Len(flight) <= 1 BY <1>2
<1> QED BY <1>1, <1>3, <1>5, <1>6, <1>7, <1>8, <1>9 DEF JudgeInv

(* A poll: the summary that is due takes the place of one that has arrived  *)
(* by then, and the counters start over.                                    *)
LEMMA JudgeKeeps ==
    ASSUME JudgeInv, NEW a, Judge(a), UNCHANGED <<arrived, typed, ok, harnessVars>>
    PROVE  JudgeInv'
<1>1. PICK outcome : outcome = decode_poll(a) OBVIOUS
<1>2. PICK now : now = link'.state OBVIOUS
<1>3. PICK c : c = noted_whammy(count_poll(tally, now, outcome), now, outcome) OBVIOUS
<1>4. /\ IsTally(tally) /\ tally.polls < kPollsPerSummary
      /\ IsSeq(flight) /\ Len(flight) <= 1 /\ IsSeq(arrived)
  BY DEF JudgeInv
<1>5. IsTally(c) /\ c.polls = tally.polls + 1 /\ (c.stale <=> tally.stale)
  BY ONLY <1>3, <1>4, CountsPoll
<1>6. UNCHANGED <<arrived, typed, ok, at, hpc, discarded, got, verdict>>
  BY DEF harnessVars
<1>7. LineInv' /\ JudgesAfterItsLines' /\ IsSeq(arrived)' /\ IsSeq(got)'
        /\ (discarded \in 0 .. DISCARDED_SUMMARIES)'
  BY <1>6 DEF JudgeInv, LineInv, JudgesAfterItsLines, IsSeq
<1>8. CASE c.polls < kPollsPerSummary /\ tally' = c /\ flight' = flight
  <2>1. StaleInv' BY <1>5, <1>6, <1>8 DEF JudgeInv, StaleInv
  <2>2. IsTally(tally') /\ tally'.polls < kPollsPerSummary BY <1>5, <1>8
  <2>3. IsSeq(flight') /\ Len(flight') <= 1 BY <1>4, <1>8
  <2> QED BY <1>7, <2>1, <2>2, <2>3 DEF JudgeInv
<1>9. CASE /\ c.polls = kPollsPerSummary
           /\ flight' = <<summary_of(c, link', report')>> /\ tally' = Emptied(c)
           /\ flight # <<>> => tally.polls < MaxFlight
  <2>1. PICK s : s = summary_of(c, link', report') OBVIOUS
  <2>2. s.stale <=> tally.stale BY <1>5, <2>1 DEF summary_of
  <2>3. flight = <<>>
    <3>1. PICK n : n = tally.polls OBVIOUS
    <3>2. n + 1 = kPollsPerSummary BY <1>5, <1>9, <3>1
    <3>3. n \in Nat BY <1>4, <3>1 DEF IsTally, Tallies
    <3>4. ~(n < MaxFlight)
      BY ONLY <3>2, <3>3, MaxFlightAssumption, PollsPerSummaryAssumption
    <3> QED BY <1>9, <3>1, <3>4
  <2>4. Len(flight) = 0 BY <2>3
  <2>5. /\ IsSeq(flight') /\ Len(flight') = 1 /\ flight'[1] = s
        /\ flight' # <<>>
    BY <1>9, <2>1, OneSeq
  <2>6. IsTally(tally') /\ tally'.polls = 0 /\ ~tally'.stale
    BY <1>5, <1>9, EmptiedTally
  <2>7. Len(arrived) \in Nat BY <1>4, LenSeq
  <2>8. StaleInv'
    BY <1>6, <2>2, <2>4, <2>5, <2>6, <2>7
    DEF JudgeInv, StaleInv, DISCARDED_SUMMARIES
  <2>9. tally'.polls < kPollsPerSummary BY <2>6, PollsPerSummaryAssumption
  <2> QED BY <1>7, <2>5, <2>6, <2>8, <2>9 DEF JudgeInv
<1> QED BY <1>1, <1>2, <1>3, <1>8, <1>9 DEF Judge

LEMMA TakeLineKeeps ==
    ASSUME JudgeInv, TakeLine
    PROVE  JudgeInv'
<1>1. hpc \in {"ok?", "done"} BY DEF JudgeInv, LineInv, TakeLine
<1>2. UNCHANGED <<hpc, got, discarded>> BY DEF TakeLine, harnessVars
<1>3. IsSeq(flight') /\ Len(flight') <= 1 /\ IsSeq(arrived')
  BY OutdatedSeq DEF JudgeInv, TakeLine
<1>4. IsTally(tally') /\ tally'.polls < kPollsPerSummary
  <2>1. PICK R, C, P, W : tally \in Tallies(R, C, P, W) BY DEF JudgeInv, IsTally
  <2>n. tally.polls \in Nat BY <2>1 DEF Tallies
  <2>2. \/ tally' = [tally EXCEPT !.stale = TRUE]
        \/ tally' = [tally EXCEPT !.stale = FALSE]
    <3>1. tally' = [tally EXCEPT !.stale = tally.polls > 0] BY DEF TakeLine
    <3>2. (tally.polls > 0) = TRUE \/ (tally.polls > 0) = FALSE BY <2>n
    <3> QED BY <3>1, <3>2
  <2>3. tally' \in Tallies(R, C, P, W) BY <2>1, <2>2 DEF Tallies
  <2>4. tally'.polls = tally.polls BY <2>1, <2>2 DEF Tallies
  <2> QED BY <2>3, <2>4 DEF JudgeInv, IsTally
<1>5. LineInv' BY <1>1, <1>2 DEF TakeLine, LineInv
<1>6. StaleInv' BY <1>1, <1>2 DEF StaleInv
<1>7. JudgesAfterItsLines' BY <1>2 DEF JudgeInv, JudgesAfterItsLines
<1>8. IsSeq(got') /\ discarded' \in 0 .. DISCARDED_SUMMARIES
  BY <1>2 DEF JudgeInv
<1> QED BY <1>3, <1>4, <1>5, <1>6, <1>7, <1>8 DEF JudgeInv, DISCARDED_SUMMARIES

LEMMA ArriveKeeps ==
    ASSUME JudgeInv, Arrive
    PROVE  JudgeInv'
<1>1. UNCHANGED <<hpc, got, discarded, tally, typed, ok>>
  BY DEF Arrive, harnessVars, masterVars, emuVars
<1>2. IsSeq(flight) /\ flight # <<>> /\ Len(flight) = 1 /\ IsSeq(arrived)
  <2>1. IsSeq(flight) /\ Len(flight) <= 1 /\ IsSeq(arrived) BY DEF JudgeInv
  <2>2. flight # <<>> BY DEF Arrive
  <2>3. Len(flight) \in Nat /\ Len(flight) # 0 BY <2>1, <2>2, LenSeq
  <2>n. PICK n : n = Len(flight) OBVIOUS
  <2>4. n = 1 BY ONLY <2>1, <2>3, <2>n
  <2> QED BY <2>1, <2>2, <2>4, <2>n
<1>3. flight' = <<>> /\ IsSeq(flight') /\ Len(flight') = 0 BY NoneSeq DEF Arrive
<1>4. /\ IsSeq(arrived \o flight) /\ Len(arrived \o flight) = Len(arrived) + 1
      /\ \A i \in 1 .. Len(arrived) : (arrived \o flight)[i] = arrived[i]
      /\ (arrived \o flight)[Len(arrived) + 1] = flight[1]
  <2>1. PICK q, r : q = arrived /\ r = flight OBVIOUS
  <2>2. IsSeq(q) /\ IsSeq(r) /\ Len(r) = 1 BY <1>2, <2>1
  <2>s. PICK s : s = q \o r OBVIOUS
  <2>3. /\ IsSeq(s) /\ Len(s) = Len(q) + Len(r)
        /\ \A i \in 1 .. Len(q) : s[i] = q[i]
        /\ \A i \in 1 .. Len(r) : s[Len(q) + i] = r[i]
    <3>1. PICK X : q \in Seq(X) BY <2>2 DEF IsSeq
    <3>2. PICK Y : r \in Seq(Y) BY <2>2 DEF IsSeq
    <3>3. q \in Seq(X \cup Y) /\ r \in Seq(X \cup Y) BY ONLY <3>1, <3>2
    <3>4. s \in Seq(X \cup Y) BY ONLY <2>s, <3>3
    <3> QED BY ONLY <2>s, <3>3, <3>4 DEF IsSeq
  <2>4. 1 \in 1 .. Len(r) BY <2>2
  <2> QED BY ONLY <2>1, <2>2, <2>3, <2>4, <2>s
<1>5. Len(arrived) \in Nat BY <1>2, LenSeq
<1>6. IsSeq(arrived') BY <1>2, <1>4 DEF Arrive
<1>7. LineInv' /\ JudgesAfterItsLines' BY <1>1 DEF JudgeInv, LineInv, JudgesAfterItsLines
<1>8. StaleInv'
  <2>1. SUFFICES ASSUME hpc = "read" PROVE StaleInv' BY <1>1 DEF StaleInv
  <2>2. arrived' = arrived \o flight
    <3>1. Len(arrived) < MaxUnread BY <2>1 DEF Arrive
    <3>2. Len(arrived) # MaxUnread BY <1>5, <3>1, MaxUnreadAssumption
    <3> QED BY <2>1, <3>2 DEF Arrive
  <2>3. /\ \A i \in 1 .. Len(arrived) :
                arrived[i].stale => i + discarded <= DISCARDED_SUMMARIES
        /\ flight[1].stale => Len(arrived) + 1 + discarded <= DISCARDED_SUMMARIES
        /\ tally.stale => Len(arrived) + 1 + 1 + discarded <= DISCARDED_SUMMARIES
    BY <1>2, <2>1 DEF JudgeInv, StaleInv
  <2>4. \A i \in 1 .. Len(arrived') :
            arrived'[i].stale => i + discarded' <= DISCARDED_SUMMARIES
    BY <1>1, <1>4, <1>5, <2>2, <2>3
  <2>5. tally'.stale =>
            Len(arrived') + Len(flight') + 1 + discarded' <= DISCARDED_SUMMARIES
    <3>1. discarded \in 0 .. 2 BY DEF JudgeInv, DISCARDED_SUMMARIES
    <3> QED BY <1>1, <1>3, <1>4, <1>5, <2>2, <2>3, <3>1 DEF DISCARDED_SUMMARIES
  <2> QED BY <1>3, <2>4, <2>5 DEF StaleInv
<1> QED BY <1>1, <1>3, <1>6, <1>7, <1>8 DEF JudgeInv

-----------------------------------------------------------------------------
(* What the script may go on from: nothing discarded yet, only the first two *)
(* summaries to come are outdated, q being those that have arrived.         *)
Settled(q) ==
    /\ IsSeq(q)
    /\ \A i \in 1 .. Len(q) : q[i].stale => i <= DISCARDED_SUMMARIES
    /\ flight # <<>> /\ flight[1].stale => Len(q) + 1 <= DISCARDED_SUMMARIES
    /\ tally.stale => Len(q) + Len(flight) + 1 <= DISCARDED_SUMMARIES

LEMMA GoOnKeeps ==
    ASSUME JudgeInv, hpc \in {"drop", "read"}, GoOn,
           UNCHANGED <<tally, flight, ok>>, NEW q, arrived' = q, Settled(q)
    PROVE  JudgeInv'
<1>1. discarded' = 0 /\ got' = <<>> BY DEF GoOn
<1>2. IsSeq(got') /\ Len(got') = 0 BY <1>1, NoneSeq
<1>3. IsSeq(flight') /\ Len(flight') <= 1 /\ IsSeq(arrived')
  BY DEF JudgeInv, Settled
<1>4. IsTally(tally') /\ tally'.polls < kPollsPerSummary BY DEF JudgeInv
<1>5. LineInv'
  <2>1. typed = <<>> /\ ~ok BY DEF JudgeInv, LineInv
  <2>2. CASE at < Len(Script) BY <2>1, <2>2 DEF GoOn, LineInv
  <2>3. CASE ~(at < Len(Script)) BY <2>1, <2>3 DEF GoOn, LineInv
  <2> QED BY <2>2, <2>3
<1>6. StaleInv'
  <2>1. Len(q) \in Nat BY LenSeq DEF Settled
  <2>2. PICK n : n = Len(flight) OBVIOUS
  <2>3. n \in Nat BY <2>2, LenSeq DEF JudgeInv
  <2>4. \A i \in 1 .. Len(arrived') :
            arrived'[i].stale => i + discarded' <= DISCARDED_SUMMARIES
    BY <1>1, <2>1 DEF Settled
  <2>5. flight' # <<>> /\ flight'[1].stale =>
            Len(arrived') + 1 + discarded' <= DISCARDED_SUMMARIES
    BY <1>1, <2>1 DEF Settled
  <2>6. tally'.stale =>
            Len(arrived') + Len(flight') + 1 + discarded' <= DISCARDED_SUMMARIES
    <3>1. tally.stale => Len(q) + n + 1 <= DISCARDED_SUMMARIES BY <2>2 DEF Settled
    <3>2. tally.stale => Len(q) + n + 1 + 0 <= DISCARDED_SUMMARIES
      BY <2>1, <2>3, <3>1
    <3> QED BY <1>1, <2>2, <3>2
  <2> QED BY <2>4, <2>5, <2>6 DEF StaleInv
<1>7. JudgesAfterItsLines' BY <1>1, <1>2 DEF JudgesAfterItsLines
<1>8. discarded' \in 0 .. DISCARDED_SUMMARIES BY <1>1 DEF DISCARDED_SUMMARIES
<1> QED BY <1>2, <1>3, <1>4, <1>5, <1>6, <1>7, <1>8 DEF JudgeInv, DISCARDED_SUMMARIES

(* Reading a summary brings those behind it one closer. *)
LEMMA ReadCloser ==
    ASSUME JudgeInv, hpc = "read", arrived # <<>>, NEW q, q = Tail(arrived)
    PROVE  /\ IsSeq(q)
           /\ \A i \in 1 .. Len(q) :
                q[i].stale => i + discarded + 1 <= DISCARDED_SUMMARIES
           /\ flight # <<>> /\ flight[1].stale =>
                Len(q) + 1 + discarded + 1 <= DISCARDED_SUMMARIES
           /\ tally.stale =>
                Len(q) + Len(flight) + 1 + discarded + 1 <= DISCARDED_SUMMARIES
           /\ Head(arrived).stale => 1 + discarded <= DISCARDED_SUMMARIES
           /\ discarded \in 0 .. 2
<1>1. discarded \in 0 .. 2 BY DEF JudgeInv, DISCARDED_SUMMARIES
<1>2. PICK a, l, f : a = arrived /\ l = Len(arrived) /\ f = Len(flight) OBVIOUS
<1>3. IsSeq(a) /\ a # <<>> /\ l \in Nat /\ f \in Nat /\ DOMAIN a = 1 .. l
  BY <1>2, LenSeq DEF JudgeInv
<1>4. /\ IsSeq(q) /\ Len(q) = l - 1
      /\ \A i \in 1 .. Len(q) : q[i] = a[i + 1]
      /\ Head(a) = a[1] /\ 1 \in 1 .. l
  BY <1>2, <1>3, TailSeq
<1>5. /\ \A i \in 1 .. l : a[i].stale => i + discarded <= DISCARDED_SUMMARIES
      /\ flight # <<>> /\ flight[1].stale =>
            l + 1 + discarded <= DISCARDED_SUMMARIES
      /\ tally.stale => l + f + 1 + discarded <= DISCARDED_SUMMARIES
  BY <1>2 DEF JudgeInv, StaleInv
<1>6. \A i \in 1 .. Len(q) : q[i].stale => i + discarded + 1 <= DISCARDED_SUMMARIES
  <2>1. SUFFICES ASSUME NEW i \in 1 .. Len(q), q[i].stale
                 PROVE  i + discarded + 1 <= DISCARDED_SUMMARIES
    OBVIOUS
  <2>2. i + 1 \in 1 .. l /\ q[i] = a[i + 1] BY <1>3, <1>4
  <2>3. (i + 1) + discarded <= DISCARDED_SUMMARIES BY <1>5, <2>1, <2>2
  <2> QED BY <1>1, <2>3 DEF DISCARDED_SUMMARIES
<1>7. flight # <<>> /\ flight[1].stale =>
        Len(q) + 1 + discarded + 1 <= DISCARDED_SUMMARIES
  BY <1>1, <1>3, <1>4, <1>5 DEF DISCARDED_SUMMARIES
<1>8. tally.stale => Len(q) + f + 1 + discarded + 1 <= DISCARDED_SUMMARIES
  BY <1>1, <1>3, <1>4, <1>5 DEF DISCARDED_SUMMARIES
<1>9. Head(a).stale => 1 + discarded <= DISCARDED_SUMMARIES BY <1>4, <1>5
<1> QED BY <1>1, <1>2, <1>4, <1>6, <1>7, <1>8, <1>9

LEMMA HarnessKeeps ==
    ASSUME JudgeInv, Harness
    PROVE  JudgeInv'
<1>1. CASE Write
  <2>1. UNCHANGED <<tally, flight, arrived, discarded, got, ok>>
    BY <1>1 DEF Write, masterVars
  <2>2. LineInv' BY <1>1 DEF Write, JudgeInv, LineInv
  <2>3. StaleInv' BY <1>1 DEF Write, StaleInv
  <2>4. JudgesAfterItsLines' BY <2>1 DEF JudgeInv, JudgesAfterItsLines
  <2> QED BY <2>1, <2>2, <2>3, <2>4 DEF JudgeInv
<1>2. CASE ReadOk
  <2>1. UNCHANGED <<tally, flight, arrived, discarded, got, typed>>
    BY <1>2 DEF ReadOk, masterVars, emuVars
  <2>2. LineInv' BY <1>2, <2>1 DEF ReadOk, JudgeInv, LineInv
  <2>3. StaleInv' BY <1>2 DEF ReadOk, StaleInv
  <2>4. JudgesAfterItsLines' BY <2>1 DEF JudgeInv, JudgesAfterItsLines
  <2> QED BY <2>1, <2>2, <2>3, <2>4 DEF JudgeInv
<1>3. CASE Drop
  <2>1. PICK q : q = <<>> OBVIOUS
  <2>2. IsSeq(q) /\ Len(q) = 0 BY <2>1, NoneSeq
  <2>3. PICK f : f = Len(flight) OBVIOUS
  <2>4. IsSeq(flight) /\ Len(flight) <= 1 BY DEF JudgeInv
  <2>5. f \in Nat /\ f <= 1 BY <2>3, <2>4, LenSeq
  <2>6. 0 + f + 1 <= 2 BY ONLY <2>5
  <2>7. Settled(q) BY <2>2, <2>3, <2>6 DEF Settled, DISCARDED_SUMMARIES
  <2>8. hpc = "drop" /\ arrived' = q /\ GoOn /\ UNCHANGED <<tally, flight, ok>>
    BY <1>3, <2>1 DEF Drop, masterVars
  <2> QED BY <2>7, <2>8, GoOnKeeps
<1>4. CASE ReadOne
  <2>1. PICK q : q = Tail(arrived) OBVIOUS
  <2>2. /\ hpc = "read" /\ arrived # <<>> /\ arrived' = q /\ GoOn
        /\ UNCHANGED <<tally, flight, ok>>
    BY <1>4, <2>1 DEF ReadOne, masterVars
  <2>3. /\ IsSeq(q) /\ discarded \in 0 .. 2
        /\ \A i \in 1 .. Len(q) :
                q[i].stale => i + discarded + 1 <= DISCARDED_SUMMARIES
        /\ flight # <<>> /\ flight[1].stale =>
                Len(q) + 1 + discarded + 1 <= DISCARDED_SUMMARIES
        /\ tally.stale =>
                Len(q) + Len(flight) + 1 + discarded + 1 <= DISCARDED_SUMMARIES
    BY <2>1, <2>2, ReadCloser
  <2>4. Settled(q)
    <3>1. PICK f : f = Len(flight) OBVIOUS
    <3>2. f \in Nat BY <3>1, LenSeq DEF JudgeInv
    <3>3. Len(q) \in Nat BY <2>3, LenSeq
    <3>4. tally.stale => Len(q) + f + 1 <= DISCARDED_SUMMARIES
      BY <2>3, <3>1, <3>2, <3>3 DEF DISCARDED_SUMMARIES
    <3>5. flight # <<>> /\ flight[1].stale => Len(q) + 1 <= DISCARDED_SUMMARIES
      BY <2>3, <3>3 DEF DISCARDED_SUMMARIES
    <3>6. \A i \in 1 .. Len(q) : q[i].stale => i <= DISCARDED_SUMMARIES
      BY <2>3, <3>3 DEF DISCARDED_SUMMARIES
    <3> QED BY <2>3, <3>1, <3>4, <3>5, <3>6 DEF Settled
  <2> QED BY <2>2, <2>4, GoOnKeeps
<1>5. CASE Discard
  <2>1. PICK q : q = Tail(arrived) OBVIOUS
  <2>2. /\ hpc = "read" /\ arrived # <<>> /\ arrived' = q
        /\ UNCHANGED <<tally, flight, ok, typed, hpc, got>>
        /\ discarded < DISCARDED_SUMMARIES /\ discarded' = discarded + 1
    BY <1>5, <2>1 DEF Discard, masterVars, emuVars
  <2>3. PICK d : d = discarded + 1 OBVIOUS
  <2>4. PICK f : f = Len(flight) OBVIOUS
  <2>5. f \in Nat BY <2>4, LenSeq DEF JudgeInv
  <2>6. /\ IsSeq(q) /\ discarded \in 0 .. 2
        /\ \A i \in 1 .. Len(q) :
                q[i].stale => i + discarded + 1 <= DISCARDED_SUMMARIES
        /\ flight # <<>> /\ flight[1].stale =>
                Len(q) + 1 + discarded + 1 <= DISCARDED_SUMMARIES
        /\ tally.stale => Len(q) + f + 1 + discarded + 1 <= DISCARDED_SUMMARIES
    BY <2>1, <2>2, <2>4, ReadCloser
  <2>7. Len(q) \in Nat BY <2>6, LenSeq
  <2>8. /\ \A i \in 1 .. Len(q) : q[i].stale => i + d <= DISCARDED_SUMMARIES
        /\ flight # <<>> /\ flight[1].stale => Len(q) + 1 + d <= DISCARDED_SUMMARIES
        /\ tally.stale => Len(q) + f + 1 + d <= DISCARDED_SUMMARIES
    BY <2>3, <2>5, <2>6, <2>7 DEF DISCARDED_SUMMARIES
  <2>9. StaleInv' BY <2>2, <2>3, <2>4, <2>8 DEF StaleInv
  <2>10. discarded' \in 0 .. DISCARDED_SUMMARIES
    BY <2>2, <2>6 DEF DISCARDED_SUMMARIES
  <2>11. LineInv' /\ JudgesAfterItsLines'
    BY <2>2 DEF JudgeInv, LineInv, JudgesAfterItsLines
  <2> QED BY <2>2, <2>6, <2>9, <2>10, <2>11 DEF JudgeInv, DISCARDED_SUMMARIES
<1>6. CASE Count
  <2>1. PICK q : q = Tail(arrived) OBVIOUS
  <2>2. /\ hpc = "read" /\ arrived # <<>> /\ arrived' = q
        /\ UNCHANGED <<tally, flight, ok, typed, hpc, discarded>>
        /\ discarded = DISCARDED_SUMMARIES /\ got' = Append(got, Head(arrived))
    BY <1>6, <2>1 DEF Count, masterVars, emuVars
  <2>3. PICK f : f = Len(flight) OBVIOUS
  <2>4. f \in Nat BY <2>3, LenSeq DEF JudgeInv
  <2>5. /\ IsSeq(q) /\ discarded \in 0 .. 2
        /\ \A i \in 1 .. Len(q) :
                q[i].stale => i + discarded + 1 <= DISCARDED_SUMMARIES
        /\ flight # <<>> /\ flight[1].stale =>
                Len(q) + 1 + discarded + 1 <= DISCARDED_SUMMARIES
        /\ tally.stale => Len(q) + f + 1 + discarded + 1 <= DISCARDED_SUMMARIES
        /\ Head(arrived).stale => 1 + discarded <= DISCARDED_SUMMARIES
    BY <2>1, <2>2, <2>3, ReadCloser
  <2>6. Len(q) \in Nat BY <2>5, LenSeq
  <2>7. StaleInv'
    <3>1. /\ \A i \in 1 .. Len(q) :
                q[i].stale => i + discarded <= DISCARDED_SUMMARIES
          /\ flight # <<>> /\ flight[1].stale =>
                Len(q) + 1 + discarded <= DISCARDED_SUMMARIES
          /\ tally.stale => Len(q) + f + 1 + discarded <= DISCARDED_SUMMARIES
      BY <2>4, <2>5, <2>6 DEF DISCARDED_SUMMARIES
    <3> QED BY <2>2, <2>3, <3>1 DEF StaleInv
  <2>8. ~Head(arrived).stale BY <2>2, <2>5 DEF DISCARDED_SUMMARIES
  <2>9. PICK g, h, m : g = got /\ h = Head(arrived) /\ m = Append(got, Head(arrived))
    OBVIOUS
  <2>10. /\ IsSeq(m) /\ Len(m) = Len(g) + 1 /\ m[Len(g) + 1] = h
         /\ \A i \in 1 .. Len(g) : m[i] = g[i]
    BY <2>9, AppendSeq DEF JudgeInv
  <2>11. IsSeq(g) /\ \A i \in 1 .. Len(g) : ~g[i].stale
    BY <2>9, LenSeq DEF JudgeInv, JudgesAfterItsLines
  <2>12. Len(g) \in Nat /\ DOMAIN m = 1 .. Len(m) BY <2>10, <2>11, LenSeq
  <2>13. \A i \in DOMAIN m : ~m[i].stale
    <3>1. SUFFICES ASSUME NEW i \in 1 .. Len(g) + 1 PROVE ~m[i].stale
      BY <2>10, <2>12
    <3>2. CASE i = Len(g) + 1 BY <2>8, <2>9, <2>10, <3>2
    <3>3. CASE i # Len(g) + 1
      <4>1. i \in 1 .. Len(g) BY <2>12, <3>1, <3>3
      <4> QED BY <2>10, <2>11, <4>1
    <3> QED BY <3>2, <3>3
  <2>14. JudgesAfterItsLines' BY <2>2, <2>9, <2>13 DEF JudgesAfterItsLines
  <2>15. LineInv' BY <2>2 DEF JudgeInv, LineInv
  <2> QED BY <2>2, <2>5, <2>7, <2>9, <2>10, <2>14, <2>15 DEF JudgeInv
<1>7. CASE Check
  <2>1. hpc = "read" /\ UNCHANGED <<tally, flight, arrived, ok>>
    BY <1>7 DEF Check, masterVars
  <2>2. CASE GoOn
    <3>1. PICK q : q = arrived OBVIOUS
    <3>2. PICK f : f = Len(flight) OBVIOUS
    <3>3. IsSeq(q) /\ Len(q) \in Nat /\ f \in Nat /\ discarded \in 0 .. 2
      BY <3>1, <3>2, LenSeq DEF JudgeInv, DISCARDED_SUMMARIES
    <3>4. /\ \A i \in 1 .. Len(q) :
                q[i].stale => i + discarded <= DISCARDED_SUMMARIES
          /\ flight # <<>> /\ flight[1].stale =>
                Len(q) + 1 + discarded <= DISCARDED_SUMMARIES
          /\ tally.stale => Len(q) + f + 1 + discarded <= DISCARDED_SUMMARIES
      BY <2>1, <3>1, <3>2 DEF JudgeInv, StaleInv
    <3>5. /\ \A i \in 1 .. Len(q) : q[i].stale => i <= DISCARDED_SUMMARIES
          /\ flight # <<>> /\ flight[1].stale => Len(q) + 1 <= DISCARDED_SUMMARIES
          /\ tally.stale => Len(q) + f + 1 <= DISCARDED_SUMMARIES
      BY <3>3, <3>4 DEF DISCARDED_SUMMARIES
    <3>6. Settled(q) BY <3>2, <3>3, <3>5 DEF Settled
    <3> QED BY <2>1, <2>2, <3>1, <3>6, GoOnKeeps
  <2>3. CASE GiveUp
    <3>1. UNCHANGED <<discarded, got>> /\ hpc' = "done" BY <2>3 DEF GiveUp
    <3>2. LineInv' /\ StaleInv' /\ JudgesAfterItsLines'
      BY <3>1 DEF LineInv, StaleInv, JudgeInv, JudgesAfterItsLines
    <3> QED BY <2>1, <3>1, <3>2 DEF JudgeInv
  <2> QED BY <1>7, <2>2, <2>3 DEF Check
<1> QED BY <1>1, <1>2, <1>3, <1>4, <1>5, <1>6, <1>7 DEF Harness

LEMMA StutterKeeps ==
    ASSUME JudgeInv, UNCHANGED vars
    PROVE  JudgeInv'
BY DEF JudgeInv, LineInv, StaleInv, JudgesAfterItsLines, IsSeq, IsTally, Tallies,
       vars, masterVars, emuVars, harnessVars

(* Every poll a window counts ran under the line that was sent before it:   *)
(* two discarded summaries are enough whenever the line was obeyed, and     *)
(* however late a summary comes that travels less than a summary's polls.   *)
THEOREM JudgesFresh ==
    Spec => []JudgesAfterItsLines
<1>1. Init => JudgeInv BY InitJudges
<1>2. JudgeInv /\ [Next]_vars => JudgeInv'
  <2>1. SUFFICES ASSUME JudgeInv, [Next]_vars PROVE JudgeInv' OBVIOUS
  <2>2. CASE Poll
    <3>1. PICK a : a = exchange_frame(model, command_for(stage)).answer OBVIOUS
    <3>2. Judge(a) BY <2>2, <3>1 DEF Poll
    <3>3. UNCHANGED <<arrived, typed, ok, harnessVars>> BY <2>2 DEF Poll
    <3> QED BY <2>1, <3>2, <3>3, JudgeKeeps
  <2>3. CASE MissedPoll
    <3>1. Judge(<<>>) BY <2>3 DEF MissedPoll
    <3>2. UNCHANGED <<arrived, typed, ok, harnessVars>> BY <2>3 DEF MissedPoll
    <3> QED BY <2>1, <3>1, <3>2, JudgeKeeps
  <2>4. CASE TakeLine BY <2>1, <2>4, TakeLineKeeps
  <2>5. CASE Arrive BY <2>1, <2>5, ArriveKeeps
  <2>6. CASE Harness BY <2>1, <2>6, HarnessKeeps
  <2>7. CASE UNCHANGED vars BY <2>1, <2>7, StutterKeeps
  <2> QED BY <2>1, <2>2, <2>3, <2>4, <2>5, <2>6, <2>7 DEF Next
<1>3. JudgeInv => JudgesAfterItsLines BY DEF JudgeInv
<1> QED BY <1>1, <1>2, <1>3, PTL DEF Spec
=============================================================================
