---------------------------- MODULE LedgerProofs ----------------------------
(***************************************************************************)
(* The record that the analyser keeps of a suite implements SuiteLedger,   *)
(* for every suite, number of retries and fault, as long as no "done" is   *)
(* late enough to be taken in the grace period: such a test is recorded    *)
(* with the count of retries of an earlier one.  Only an environment that  *)
(* is "slow" makes one that late.                                          *)
(***************************************************************************)
EXTENDS TimelyProofs

USE DEF shared, burstVars, stamps, store, Over, Ended

\* One more row of test_timestamps.tsv is one more record of the ledger.
LEMMA OutcomeAppended ==
  ASSUME TypeOK, TypeOK', NEW start, NEW end, NEW r, WriteMeta(start, end, r), meta' # meta
  PROVE  Outcomes' = Append(Outcomes, [test |-> logTest, retries |-> r])
<1> DEFINE row == [test |-> logTest, start |-> start, end |-> end, retries |-> r]
           rec == [test |-> logTest, retries |-> r]
<1>1. meta \in Seq(MetaRows) /\ meta' \in Seq(MetaRows)
  BY DEF TypeOK, AnaTypeOK
<1>2. Len(meta) \in Nat /\ DOMAIN meta = 1 .. Len(meta)
  BY <1>1, LenProperties
<1>3. /\ meta' = Append(meta, row)
      /\ Outcome(row) = rec
  BY DEF WriteMeta, Outcome
<1> HIDE DEF row, rec
<1>4. /\ DOMAIN meta' = 1 .. Len(meta) + 1
      /\ \A i \in 1 .. Len(meta) : meta'[i] = meta[i]
      /\ meta'[Len(meta) + 1] = row
  <2> DEFINE R == MetaRows \cup {row}
  <2>1. meta \in Seq(R) /\ row \in R
    BY <1>1
  <2> HIDE DEF R
  <2>2. /\ meta' \in Seq(R) /\ Len(meta') = Len(meta) + 1
        /\ \A i \in 1 .. Len(meta) : meta'[i] = meta[i]
        /\ meta'[Len(meta) + 1] = row
    BY <1>3, <2>1, AppendProperties
  <2>3. DOMAIN meta' = 1 .. Len(meta')
    BY <2>2, LenProperties
  <2> QED
    BY <2>2, <2>3
<1> DEFINE S == {Outcome(meta[i]) : i \in DOMAIN meta} \cup {rec}
<1>5. Outcomes \in [1 .. Len(meta) -> S]
  BY <1>2 DEF Outcomes
<1> HIDE DEF S
<1>6. Outcomes \in Seq(S) /\ Len(Outcomes) = Len(meta) /\ rec \in S
  BY <1>2, <1>5 DEF S
<1>7. Outcomes' = [i \in 1 .. Len(meta) + 1 |->
                     IF i = Len(meta) + 1 THEN rec ELSE Outcomes[i]]
  <2>1. \A i \in 1 .. Len(meta) : Outcomes[i] = Outcome(meta[i])
    BY <1>2 DEF Outcomes
  <2>2. Outcomes' = [i \in 1 .. Len(meta) + 1 |-> Outcome(meta'[i])]
    BY <1>4 DEF Outcomes, Outcome
  <2>3. \A i \in 1 .. Len(meta) + 1 :
          Outcome(meta'[i]) = IF i = Len(meta) + 1 THEN rec ELSE Outcomes[i]
    <3> TAKE i \in 1 .. Len(meta) + 1
    <3>1. CASE i = Len(meta) + 1
      BY <1>3, <1>4, <3>1
    <3>2. CASE i # Len(meta) + 1
      <4>1. i \in 1 .. Len(meta)
        BY <1>2, <3>2
      <4>2. meta'[i] = meta[i] /\ Outcomes[i] = Outcome(meta[i])
        BY <1>4, <2>1, <4>1
      <4> QED
        BY <3>2, <4>2
    <3> QED
      BY <3>1, <3>2
  <2> QED
    BY <2>2, <2>3
<1>8. Append(Outcomes, rec) = [i \in 1 .. Len(meta) + 1 |->
                                 IF i = Len(meta) + 1 THEN rec ELSE Outcomes[i]]
  <2> DEFINE a == Append(Outcomes, rec)
             n == Len(meta)
  <2>1. /\ a \in Seq(S) /\ Len(a) = Len(Outcomes) + 1
        /\ \A i \in 1 .. Len(Outcomes) : a[i] = Outcomes[i]
        /\ a[Len(Outcomes) + 1] = rec
    BY <1>6, AppendProperties
  <2>2. a \in [1 .. n + 1 -> S]
    BY <1>6, <2>1, LenProperties
  <2>3. a[n + 1] = rec /\ \A i \in 1 .. n : a[i] = Outcomes[i]
    BY <1>6, <2>1
  <2> HIDE DEF a
  <2>4. a = [i \in 1 .. n + 1 |-> a[i]]
    BY <2>2
  <2>5. n \in Nat
    BY <1>2
  <2> HIDE DEF n
  <2>6. \A i \in 1 .. n + 1 : a[i] = IF i = n + 1 THEN rec ELSE Outcomes[i]
    BY <2>3, <2>5
  <2>7. a = [i \in 1 .. n + 1 |-> IF i = n + 1 THEN rec ELSE Outcomes[i]]
    BY <2>4, <2>6
  <2> QED
    BY <2>7 DEF a, n
<1> QED
  BY <1>7, <1>8 DEF rec

\* run_test returns: the test in hand is the next one, and no attempt at it has failed.
LEMMA TestOver ==
  ASSUME TypeOK, ~Ended, NextTest
  PROVE  TestInHand <= Len(Suite) /\ TestInHand' = TestInHand + 1 /\ Failed' = 0
<1>1. tnum \in 1 .. Len(Suite) /\ Len(Suite) \in Nat
  BY SuiteLength DEF TypeOK, AnaTypeOK, Tests
<1>2. CASE tnum = Len(Suite)
  BY <1>1, <1>2 DEF NextTest, TestInHand, Failed
<1>3. CASE tnum # Len(Suite)
  BY <1>1, <1>3 DEF NextTest, FirstAttempt, TestInHand, Failed
<1> QED
  BY <1>2, <1>3

\* The suite is given up.
LEMMA SuiteAbandoned ==
  ASSUME TypeOK, ~Ended, apc' = "failed", UNCHANGED meta
  PROVE  Ledger!Next
<1>1. TestInHand <= Len(Suite)
  BY SuiteLength DEF TypeOK, AnaTypeOK, Tests, TestInHand
<1>2. TestInHand' = Len(Suite) + 1 /\ Failed' = 0 /\ Outcomes' = Outcomes
  BY DEF TestInHand, Failed, Outcomes
<1> QED
  BY <1>1, <1>2 DEF Ledger!Next, Ledger!Abandon

\* Another attempt.
LEMMA AttemptFailed ==
  ASSUME TypeOK, ~Ended, NextAttempt, retry < MAX_RETRY, UNCHANGED meta
  PROVE  Ledger!Next
<1>1. TestInHand <= Len(Suite) /\ UNCHANGED TestInHand
  BY SuiteLength DEF TypeOK, AnaTypeOK, Tests, TestInHand, NextAttempt
<1>2. Failed < MAX_RETRY /\ Failed' = Failed + 1 /\ Outcomes' = Outcomes
  BY DEF NextAttempt, Failed, Outcomes
<1> QED
  BY <1>1, <1>2 DEF Ledger!Next, Ledger!Fail

\* A row that could not be written is a record that could not.
LEMMA RowNotWritten ==
  ASSUME TypeOK, ~Ended, NextTest, NEW start, NEW end, NEW r, WriteMeta(start, end, r),
         meta' = meta
  PROVE  Ledger!Next
<1>1. "io" \in Faults
  <2> DEFINE row == [test |-> logTest, start |-> start, end |-> end, retries |-> r]
  <2>1. meta \in Seq(MetaRows) /\ Len(meta) \in Nat
    BY LenProperties DEF TypeOK, AnaTypeOK
  <2>2. meta' = Append(meta, row) \/ "io" \in Faults
    BY DEF WriteMeta
  <2> HIDE DEF row
  <2>3. meta # Append(meta, row)
    BY <2>1
  <2> QED
    BY <2>2, <2>3
<1>2. Outcomes' = Outcomes
  BY DEF Outcomes
<1> QED
  BY <1>1, <1>2, TestOver DEF Ledger!Next, Ledger!Skip, Ledger!NextTest

\* What the ledger does not show.
LEMMA Unrecorded ==
  ASSUME UNCHANGED <<meta, tnum, retry>>, Ended' = Ended
  PROVE  UNCHANGED Ledger!vars
  BY DEF Ledger!vars, TestInHand, Failed, Outcomes

-----------------------------------------------------------------------------
\* The analyser starts with an empty record of tests and test 1 in hand, as the ledger does.
LEMMA LedgerInit == Init => Ledger!Init
<1> SUFFICES ASSUME Init PROVE Ledger!Init
  OBVIOUS
<1>1. ~Ended /\ tnum = 1 /\ retry = 0 /\ meta = << >>
  BY DEF Init, AnaInit
<1>2. Outcomes = << >>
  BY <1>1 DEF Outcomes
<1> QED
  BY <1>1, <1>2 DEF Ledger!Init, TestInHand, Failed

\* Every step of the analyser but a late success is one of the ledger, or none.
LEMMA LedgerStep ==
  ASSUME IndInv, TypeOK', AnaMain, ~GraceDone
  PROVE  Ledger!Next \/ UNCHANGED Ledger!vars
<1>1. TypeOK
  BY DEF IndInv
<1>2. retry \in 0 .. MAX_RETRY /\ MAX_RETRY \in Nat
  BY <1>1, MaxRetryAssumption DEF TypeOK, AnaTypeOK
<1>3. CASE Begin \/ Stamp \/ Launch \/ WaitTimeout \/ RetryReset \/ Finish
  <2>1. UNCHANGED <<meta, tnum, retry>>
    BY <1>3 DEF Begin, Stamp, Launch, WaitTimeout, RetryReset, Finish
  <2>2. Ended' = Ended
    BY <1>3 DEF Begin, Stamp, Launch, WaitTimeout, RetryReset, Finish
  <2> QED
    BY <2>1, <2>2, Unrecorded
<1>4. CASE Setup \/ Connect
  <2>1. UNCHANGED <<meta, tnum, retry>> /\ ~Ended
    BY <1>4 DEF Setup, Connect
  <2>2. apc' = "failed" \/ apc' \in {"connect", "begin"}
    BY <1>4 DEF Setup, Connect, ConnectClients
  <2>3. CASE apc' = "failed"
    BY <1>1, <2>1, <2>3, SuiteAbandoned
  <2>4. CASE apc' \in {"connect", "begin"}
    BY <2>1, <2>4, Unrecorded
  <2> QED
    BY <2>2, <2>3, <2>4
<1>5. CASE Reconnect
  <2>1. UNCHANGED meta /\ ~Ended
    BY <1>5 DEF Reconnect
  <2>2. CASE apc' = "begin" /\ UNCHANGED <<tnum, retry>>
    BY <2>1, <2>2, Unrecorded
  <2>3. CASE retry < MAX_RETRY /\ NextAttempt
    BY <1>1, <2>1, <2>3, AttemptFailed
  <2>4. CASE retry = MAX_RETRY /\ NextTest
    <3>1. Failed = MAX_RETRY /\ Outcomes' = Outcomes
      BY <2>1, <2>4 DEF Failed, Outcomes
    <3> QED
      BY <1>1, <2>1, <2>4, <3>1, TestOver
      DEF Ledger!Next, Ledger!Skip, Ledger!NextTest
  <2> QED
    BY <1>2, <1>5, <2>2, <2>3, <2>4 DEF Reconnect, ConnectClients, Continue
<1>6. CASE WaitDone
  <2>1. ~Ended /\ logTest = tnum /\ NextTest
    BY <1>6 DEF WaitDone, IndInv, LoggerOnTest, Measuring
  <2>2. WriteMeta(g_test_start_ts, g_test_end_ts', retry)
    BY <1>6 DEF WaitDone
  <2>3. CASE meta' = meta
    BY <1>1, <2>1, <2>2, <2>3, RowNotWritten
  <2>4. CASE meta' # meta
    <3>1. Outcomes' = Append(Outcomes, [test |-> TestInHand, retries |-> Failed])
      BY <1>1, <2>1, <2>2, <2>4, OutcomeAppended DEF TestInHand, Failed
    <3> QED
      BY <1>1, <2>1, <3>1, TestOver
      DEF Ledger!Next, Ledger!Succeed, Ledger!Record, Ledger!NextTest
  <2> QED
    BY <2>3, <2>4
<1>7. CASE GraceTimeout
  <2>1. ~Ended /\ logTest = tnum
    BY <1>7 DEF GraceTimeout, IndInv, LoggerOnTest, Measuring
  <2>2. CASE retry < MAX_RETRY
    <3>1. NextAttempt /\ UNCHANGED meta
      BY <1>2, <1>7, <2>2 DEF GraceTimeout
    <3> QED
      BY <1>1, <2>1, <2>2, <3>1, AttemptFailed
  <2>3. CASE retry = MAX_RETRY
    <3>1. NextTest /\ WriteMeta(g_test_start_ts, g_test_end_ts, -1)
      BY <1>2, <1>7, <2>3 DEF GraceTimeout
    <3>2. CASE meta' = meta
      BY <1>1, <2>1, <3>1, <3>2, RowNotWritten
    <3>3. CASE meta' # meta
      <4>1. Outcomes' = Append(Outcomes, [test |-> TestInHand, retries |-> -1])
        BY <1>1, <2>1, <3>1, <3>3, OutcomeAppended DEF TestInHand
      <4>2. Failed = MAX_RETRY
        BY <2>1, <2>3 DEF Failed
      <4> QED
        BY <1>1, <2>1, <3>1, <4>1, <4>2, TestOver
        DEF Ledger!Next, Ledger!GiveUp, Ledger!Record, Ledger!NextTest
    <3> QED
      BY <3>2, <3>3
  <2> QED
    BY <1>2, <2>2, <2>3
<1> QED
  BY <1>3, <1>4, <1>5, <1>6, <1>7 DEF AnaMain

\* For every suite, number of retries and fault: what the analyser records of a suite
\* in which no "done" comes in a grace period is what a SuiteLedger may hold.  The
\* tests are tried in order, each has at most one row, and the row tells truly how
\* many attempts failed before.  Under "io", where write_ts_meta may fail to open its
\* file, a test that was concluded may have none (RecordsFail).
THEOREM LedgerImplemented == Spec /\ [][~GraceDone]_vars => Ledger!Spec
<1>1. IndInv /\ IndInv' /\ [Next]_vars /\ [~GraceDone]_vars => [Ledger!Next]_(Ledger!vars)
  <2> SUFFICES ASSUME IndInv, IndInv', [Next]_vars, [~GraceDone]_vars
               PROVE  Ledger!Next \/ UNCHANGED Ledger!vars
    OBVIOUS
  <2>1. TypeOK'
    BY DEF IndInv
  <2>2. CASE UNCHANGED anaVars
    <3>1. UNCHANGED <<meta, tnum, retry, apc>>
      BY <2>2 DEF anaVars
    <3> QED
      BY <3>1, Unrecorded
  <2>3. CASE AnaMain /\ ~GraceDone
    BY <2>1, <2>3, LedgerStep
  <2>4. CASE AnaCallbacks
    <3>1. UNCHANGED <<meta, tnum, retry, apc>>
      BY <2>4 DEF AnaCallbacks, OnDone, OnCounter, LogRow
    <3> QED
      BY <3>1, Unrecorded
  <2>5. UNCHANGED vars => UNCHANGED anaVars
    BY DEF vars
  <2> QED
    BY <2>2, <2>3, <2>4, <2>5 DEF Next, Terminated
<1> QED
  BY <1>1, LedgerInit, Invariance, PTL DEF Spec, Ledger!Spec

-----------------------------------------------------------------------------
(* Unless the environment is slow.                                         *)

\* No "done" is taken in the grace period, which therefore always ends in a failed attempt:
\* only what outlasts TEST_DURATION_S + TIMEOUT_GRACE_S can come late.
THEOREM NoneIsLate ==
  ASSUME "slow" \notin Faults
  PROVE  Spec => [][~GraceDone]_vars
<1>1. PhaseInv => ~GraceDone
  BY DEF PhaseInv, Quiet, GraceDone
<1> QED
  BY <1>1, PhaseInvariance, PTL

\* With any other fault, the record of a suite is one that a SuiteLedger may hold; one whose
\* records may be missing if "io" is among the faults.
THEOREM TimelyLedger ==
  ASSUME "slow" \notin Faults
  PROVE  Spec => Ledger!Spec
BY NoneIsLate, LedgerImplemented, PTL

\* With any other fault but "io", what the comment of main.c:260 says is so: a test for which
\* "done" came has the rows that its logger held in its file from the very step that records
\* it, unless the callback is about to log one meanwhile.
THEOREM TimelySuccessCommits ==
  ASSUME "slow" \notin Faults, "io" \notin Faults
  PROVE  Spec => SuccessCommits
<1>1. [Next]_vars /\ [~GraceDone]_vars =>
        [meta' # meta /\ g_done /\ inHand = {} => {logTest} \X rows \subseteq tsv']_vars
  <2>1. SUFFICES ASSUME Next, ~GraceDone, meta' # meta, g_done, inHand = {}
                 PROVE  {logTest} \X rows \subseteq tsv'
    OBVIOUS
  <2>2. AnaMain
    BY <2>1 DEF Next, AnaCallbacks, OnDone, OnCounter, LogRow, Terminated, vars, anaVars
  <2>3. WaitDone
    BY <2>1, <2>2 DEF AnaMain, Setup, Connect, Begin, Stamp, Launch, WaitTimeout, GraceTimeout,
       RetryReset, Reconnect, Finish
  <2> QED
    BY <2>1, <2>3 DEF WaitDone, Commit, Left, Overlapping
<1> QED
  BY <1>1, NoneIsLate, PTL DEF Spec, SuccessCommits

=============================================================================
