-------------------------------- MODULE Stats --------------------------------
(***************************************************************************)
(* The statistics of one test, computed after the suite from the two TSV   *)
(* files: calc_test_stats of analyser/src/stats.c, called by report.c, and *)
(* its port in report.py, which takes its window from another place.       *)
(*                                                                         *)
(* The files come first (Publish and Receive build every pair of files the *)
(* two programs can leave behind, within the bounds), then the program, a  *)
(* turn of a loop at a time.  Times are small numbers, and means and       *)
(* percentages stay fractions of the counters kept here.                   *)
(***************************************************************************)
EXTENDS Integers, Sequences, FiniteSets, FiniteSetsExt

CONSTANTS
  MaxSent,    \* bound: rows of the publisher's file
  MaxGot,     \* bound: rows of the analyser's file
  BURST_SECS  \* the length of a burst, and the limit of calc_gaps

ASSUME StatsAssumption ==
  /\ MaxSent \in Nat \ {0}
  /\ MaxGot \in Nat
  /\ BURST_SECS \in Nat

VARIABLES
  sent,       \* the publisher's file; burst is history
  got,        \* the analyser's file, in order of arrival
  program,    \* which of the two computes, or "none" yet
  start, end, \* start_ts and end_ts
  pc,
  i,          \* the loop's index; pi of calc_loss
  ai,
  attempts, successes, pub_success_rate,
  pub,        \* the rows read from the publisher's file
  ana,        \* the rows read from the analyser's file
  ooo, dup, loss,
  gap_sum, samples,
  recv_window \* the divisor of the mean rate; 0: BURST_SECS is assumed

files  == <<sent, got, program, start, end>>
tried  == <<attempts, successes, pub_success_rate>>
timing == <<gap_sum, samples, recv_window>>
counts == <<tried, ooo, dup, loss, timing>>
vars   == <<files, pc, i, ai, pub, ana, counts>>

Init ==
  /\ sent = << >> /\ got = << >>
  /\ program = "none" /\ start = 0 /\ end = 0
  /\ pc = "files" /\ i = 1 /\ ai = 1
  /\ attempts = 0 /\ successes = 0 /\ pub_success_rate = 0
  /\ pub = << >> /\ ana = << >>
  /\ ooo = 0 /\ dup = 0 /\ loss = 0
  /\ gap_sum = 0 /\ samples = 0 /\ recv_window = 0

-----------------------------------------------------------------------------
(* The files.                                                              *)

LastSent == sent[Len(sent)]

BurstStart(b) == Min({sent[k].pub_ts : k \in {l \in DOMAIN sent : sent[l].burst = b}})

\* The next message of the burst, or the first of a later burst, with its rc.
Publish(counter, burst, ts, rc) ==
  /\ pc = "files"
  /\ Len(sent) < MaxSent
  /\ sent' = Append(sent, [counter |-> counter, pub_ts |-> ts, rc |-> rc,
                           burst |-> burst])
  /\ UNCHANGED <<got, program, start, end, pc, i, ai, pub, ana, counts>>

PublishNext ==
  \E rc \in {0, -1} :
    \/ sent = << >> /\ Publish(0, 1, 1, rc)
    \/ /\ sent # << >>
       /\ \/ \E ts \in LastSent.pub_ts .. LastSent.pub_ts + 1 :
               /\ ts <= BurstStart(LastSent.burst) + BURST_SECS
               /\ Publish(LastSent.counter + 1, LastSent.burst, ts, rc)
          \/ \E ts \in {LastSent.pub_ts + 1, LastSent.pub_ts + BURST_SECS + 1} :
               Publish(0, LastSent.burst + 1, ts, rc)

\* An accepted message arrives: never, once, or more than once, in any order.
Receive ==
  /\ pc = "files"
  /\ Len(got) < MaxGot
  /\ \E k \in DOMAIN sent :
       /\ sent[k].rc = 0
       /\ got' = Append(got, [counter |-> sent[k].counter, pub_ts |-> sent[k].pub_ts,
                              recv_ts |-> Len(got)])
  /\ UNCHANGED <<sent, program, start, end, pc, i, ai, pub, ana, counts>>

Observed == program = "report.py"

\* report.py leaves out the tests whose analyser's file has no row.
LeaveOut ==
  /\ pc = "files"
  /\ sent # << >> /\ got = << >>
  /\ program' = "report.py"
  /\ pc' = "failed"
  /\ UNCHANGED <<sent, got, start, end, i, ai, pub, ana, counts>>

\* report.py, discover_all_test_combos: the window of the rows that arrived.
ObserveWindow ==
  /\ got # << >>
  /\ start' = Min({got[k].pub_ts : k \in DOMAIN got})
  /\ end' = Max({got[k].pub_ts : k \in DOMAIN got})

\* report.c: the window recorded in test_timestamps.tsv, which may hold a burst,
\* a part of one, or none.
RecordedWindow ==
  /\ start' \in 0 .. LastSent.pub_ts
  /\ end' \in start' .. LastSent.pub_ts + 1

TakeWindow ==
  /\ pc = "files"
  /\ sent # << >>
  /\ \/ program' = "report.c" /\ RecordedWindow
     \/ program' = "report.py" /\ ObserveWindow
  /\ pc' = "readSent"
  /\ UNCHANGED <<sent, got, i, ai, pub, ana, counts>>

InWindow(r) == start <= r.pub_ts /\ r.pub_ts <= end

-----------------------------------------------------------------------------
(* cmp_row_pair, and the results qsort may return: rows that compare equal *)
(* may come in any order.                                                  *)

Compare(m, n) == IF m < n THEN -1 ELSE IF m > n THEN 1 ELSE 0

\* Variant of CmpRowPair: the counters alone.
CmpCounter(a, b) == Compare(a.counter, b.counter)

CmpRowPair(a, b) ==
  IF a.counter # b.counter THEN Compare(a.counter, b.counter)
                           ELSE Compare(a.pub_ts, b.pub_ts)

IsSorted(s) == \A k \in 1 .. Len(s) - 1 : CmpRowPair(s[k], s[k + 1]) <= 0

Sorted(s) ==
  LET n     == Len(s)
      perms == {p \in [1 .. n -> 1 .. n] : \A k, l \in 1 .. n : k # l => p[k] # p[l]}
  IN  {t \in {[k \in 1 .. n |-> s[p[k]]] : p \in perms} : IsSorted(t)}

-----------------------------------------------------------------------------
(* read_publisher and read_analyser.                                       *)

ReadSent ==
  /\ pc = "readSent"
  /\ i <= Len(sent)
  /\ i' = i + 1
  /\ LET r == sent[i] IN
       \/ ~InWindow(r) /\ UNCHANGED <<attempts, successes, pub>>
       \/ /\ InWindow(r) /\ r.rc # 0
          /\ attempts' = attempts + 1
          /\ UNCHANGED <<successes, pub>>
       \/ /\ InWindow(r) /\ r.rc = 0
          /\ attempts' = attempts + 1
          /\ successes' = successes + 1
          /\ pub' = Append(pub, [counter |-> r.counter, pub_ts |-> r.pub_ts,
                                 recv_ts |-> 0])
  /\ UNCHANGED <<files, pc, ai, ana, pub_success_rate, ooo, dup, loss, timing>>

\* stats.c divides the rate itself, which is still 0; report.py divides the
\* successes, and gives up when there is no attempt in the window.
SortSent ==
  /\ pc = "readSent"
  /\ i > Len(sent)
  /\ pub' \in Sorted(pub)
  /\ i' = 1
  /\ pc' = IF Observed /\ attempts = 0 THEN "failed" ELSE "readGot"
  /\ pub_success_rate' = IF attempts = 0 THEN 0
                         ELSE IF Observed THEN (successes * 100) \div attempts
                         ELSE (pub_success_rate * 100) \div attempts
  /\ UNCHANGED <<files, ai, ana, attempts, successes, ooo, dup, loss, timing>>

\* Variant of OutOfOrder: a repeated counter is taken for a step back.
NotIncreasing(r, prev) == r.counter <= prev.counter

OutOfOrder(r, prev) == r.counter < prev.counter

\* Variant of Duplicate: the timestamps are not compared.
SameCounter(r, prev) == r.counter = prev.counter

Duplicate(r, prev) == r.counter = prev.counter /\ r.pub_ts = prev.pub_ts

ReadGot ==
  /\ pc = "readGot"
  /\ i <= Len(got)
  /\ i' = i + 1
  /\ IF InWindow(got[i])
     THEN LET r    == got[i]
              seen == ana # << >>
              prev == ana[Len(ana)]
          IN  /\ ooo' = IF seen /\ OutOfOrder(r, prev) THEN ooo + 1 ELSE ooo
              /\ dup' = IF seen /\ Duplicate(r, prev) THEN dup + 1 ELSE dup
              /\ ana' = Append(ana, r)
     ELSE UNCHANGED <<ooo, dup, ana>>
  /\ UNCHANGED <<files, pc, ai, pub, tried, loss, timing>>

\* report.py gives up when there is no row in the window, stats.c does not.
SortGot ==
  /\ pc = "readGot"
  /\ i > Len(got)
  /\ ana' \in Sorted(ana)
  /\ i' = 1
  /\ pc' = IF Observed /\ ana = << >> THEN "failed" ELSE "loss"
  /\ UNCHANGED <<files, ai, pub, counts>>

-----------------------------------------------------------------------------
(* calc_loss and calc_gaps.                                                *)

WalkLoss ==
  /\ pc = "loss"
  /\ i <= Len(pub) /\ ai <= Len(ana)
  /\ LET cmp == CmpRowPair(pub[i], ana[ai]) IN
       /\ i' = IF cmp <= 0 THEN i + 1 ELSE i
       /\ ai' = IF cmp >= 0 THEN ai + 1 ELSE ai
       /\ loss' = IF cmp < 0 THEN loss + 1 ELSE loss
  /\ UNCHANGED <<files, pc, pub, ana, tried, ooo, dup, timing>>

\* Variant of Rest: one too many, as if i were counted from 0.
RestAndOne == Len(pub) - i + 2

Rest == Len(pub) - i + 1

RestLost ==
  /\ pc = "loss"
  /\ i > Len(pub) \/ ai > Len(ana)
  /\ loss' = loss + Rest
  /\ i' = 1
  /\ pc' = "gaps"
  /\ UNCHANGED <<files, ai, pub, ana, tried, ooo, dup, timing>>

\* Variant of Consecutive: messages between the two may have been missed.
Later(a, b) == b.counter >= a.counter + 1

Consecutive(a, b) == b.counter = a.counter + 1

Measured(a, b) ==
  /\ Consecutive(a, b)
  /\ b.pub_ts - a.pub_ts \in 0 .. BURST_SECS
  /\ b.recv_ts >= a.recv_ts

WalkGaps ==
  /\ pc = "gaps"
  /\ i < Len(ana)
  /\ i' = i + 1
  /\ LET a == ana[i]  b == ana[i + 1] IN
       IF Measured(a, b)
       THEN gap_sum' = gap_sum + (b.recv_ts - a.recv_ts) /\ samples' = samples + 1
       ELSE UNCHANGED <<gap_sum, samples>>
  /\ UNCHANGED <<files, pc, ai, pub, ana, tried, ooo, dup, loss, recv_window>>

\* Then the mean rate: all rows, over what lies between the first and the last one of
\* the sorted array if that is positive.
GapsDone ==
  /\ pc = "gaps"
  /\ i >= Len(ana)
  /\ pc' = "done"
  /\ recv_window' = IF Len(ana) >= 2 THEN Max({ana[Len(ana)].recv_ts - ana[1].recv_ts, 0})
                                     ELSE 0
  /\ UNCHANGED <<files, i, ai, pub, ana, tried, ooo, dup, loss, gap_sum,
                 samples>>

\* The row of the report is written, or the test is left out.
Reported == pc \in {"done", "failed"} /\ UNCHANGED vars

Next ==
  \/ PublishNext \/ Receive \/ LeaveOut \/ TakeWindow
  \/ ReadSent \/ SortSent
  \/ ReadGot \/ SortGot
  \/ WalkLoss \/ RestLost
  \/ WalkGaps \/ GapsDone
  \/ Reported

Spec == Init /\ [][Next]_vars

-----------------------------------------------------------------------------
RowPairs == [counter : Nat, pub_ts : Nat, recv_ts : Nat]

TypeOK ==
  /\ sent \in Seq([counter : Nat, pub_ts : Nat, rc : {0, -1}, burst : Nat])
  /\ got \in Seq(RowPairs) /\ pub \in Seq(RowPairs) /\ ana \in Seq(RowPairs)
  /\ program \in {"none", "report.c", "report.py"}
  /\ start \in Nat /\ end \in Nat
  /\ pc \in {"files", "readSent", "readGot", "loss", "gaps", "done", "failed"}
  /\ i \in Nat \ {0} /\ ai \in Nat \ {0}
  /\ attempts \in 0 .. MaxSent /\ successes \in 0 .. attempts
  /\ pub_success_rate \in 0 .. 100
  /\ ooo \in 0 .. MaxGot /\ dup \in 0 .. MaxGot
  /\ loss \in 0 .. successes
  /\ gap_sum \in Nat /\ samples \in 0 .. MaxGot /\ recv_window \in 0 .. MaxGot

Done == pc = "done"

Received(m) ==
  \E k \in DOMAIN got : got[k].counter = m.counter /\ got[k].pub_ts = m.pub_ts

Accepted == {k \in DOMAIN sent : sent[k].rc = 0}
Lost     == {k \in Accepted : ~Received(sent[k])}
Bursts   == {sent[k].burst : k \in {l \in DOMAIN sent : InWindow(sent[l])}}
Counted  == {k \in DOMAIN got : InWindow(got[k])}
Repeats  == {l \in Counted : \E k \in Counted :
               /\ k < l
               /\ got[l].counter = got[k].counter
               /\ got[l].pub_ts = got[k].pub_ts}

\* The merge-walk, on rows sorted by (counter, pub_ts), counts just the accepted
\* messages of the window that never arrived, duplicates, reordering and other
\* bursts in the files notwithstanding.
LossExact == Done => loss = Cardinality({k \in Lost : InWindow(sent[k])})

\* The out-of-order count, taken from neighbouring rows only, is not zero exactly if some
\* row arrived after one with a greater counter, which within one burst means after a
\* message that was sent later.
DisorderSeen ==
  Done => (ooo = 0 <=> \A k, l \in Counted : k < l => got[k].counter <= got[l].counter)

\* No more duplicates are reported than there are.
DuplicatesSound ==
  Done => dup <= Cardinality(Repeats)

\* When one burst arrives in order and without duplicates, the gaps measured are those
\* between the messages of which none is missing in between (gap_sum counts every unit of
\* time within one of them once), and the mean rate is taken over the time from the first
\* arrival to the last.
CleanTiming ==
  LET pairs == {p \in Counted \X Counted : got[p[2]].counter = got[p[1]].counter + 1}
  IN  Done /\ Cardinality(Bursts) = 1
        /\ (\A k, l \in Counted : k < l => got[k].counter < got[l].counter)
      => /\ samples = Cardinality(pairs)
         /\ gap_sum = Cardinality(UNION {got[p[1]].recv_ts + 1 .. got[p[2]].recv_ts : p \in pairs})
         /\ \A first, last \in Counted :
              (\A k \in Counted : first <= k /\ k <= last)
                => recv_window = got[last].recv_ts - got[first].recv_ts

\* With the window taken from the rows that arrived, report.py never reports a test
\* whose messages are all lost.
NeverTotalLoss == Observed /\ Done => loss < successes

(***************************************************************************)
(* What a comment of the code says, and the code does not do (README,      *)
(* "Disagreements").                                                       *)
(***************************************************************************)

\* report.py:6, "missing analyser rows = lost++": a message of a burst of which the
\* analyser has rows is lost when the analyser has no row of it.
MissingMeansLost ==
  Observed /\ Done => loss = Cardinality({k \in Lost : sent[k].burst \in Bursts})

=============================================================================
