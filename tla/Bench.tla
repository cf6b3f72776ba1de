-------------------------------- MODULE Bench --------------------------------
(***************************************************************************)
(* The test bench: the analyser and the publisher, composed over the       *)
(* environment.  The two programs share nothing but the messages.          *)
(***************************************************************************)
EXTENDS Publisher, Analyser

vars == <<envVars, pubVars, anaVars>>

Init == EnvInit /\ PubInit /\ AnaInit

-----------------------------------------------------------------------------
(* The analyser's waits are long against a delivery and against a burst    *)
(* (60 s for one of 30 s, then 5 s, then 3 s): unless the environment is   *)
(* "slow", a wait runs out only when nothing is left that could end it.    *)

Settled ==
  \/ "slow" \in Faults
  \/ /\ toPub = << >> /\ toCtrl = << >>
     /\ ppc = "poll" /\ ~g_start

AnaMain ==
  \/ Setup
  \/ Connect
  \/ Begin
  \/ Stamp
  \/ Launch
  \/ WaitDone
  \/ Settled /\ WaitTimeout
  \/ GraceDone
  \/ Settled /\ GraceTimeout
  \/ RetryReset
  \/ Settled /\ Reconnect
  \/ Finish

AnaCallbacks == OnDone \/ OnCounter \/ LogRow

Over  == apc \in {"stopped", "failed"}
Ended == Over \/ apc = "exit"

\* The analyser has ended; the publisher polls for ever.
Terminated == Over /\ UNCHANGED vars

Next ==
  \/ (AnaMain \/ AnaCallbacks) /\ UNCHANGED pubVars
  \/ (PubMain \/ OnRequest) /\ UNCHANGED anaVars
  \/ EnvNext /\ UNCHANGED <<pubVars, anaVars>>
  \/ Terminated

Spec == Init /\ [][Next]_vars

(***************************************************************************)
(* Each main thread goes on as long as it can, and the library's threads   *)
(* deliver what has arrived.  Faults need not happen.                      *)
(***************************************************************************)
Fairness ==
  /\ WF_vars(AnaMain /\ UNCHANGED pubVars)
  /\ WF_vars(OnDone /\ UNCHANGED pubVars)
  /\ WF_vars((OnCounter \/ LogRow) /\ UNCHANGED pubVars)
  /\ WF_vars(PubMain /\ UNCHANGED anaVars)
  /\ WF_vars(OnRequest /\ UNCHANGED anaVars)

FairSpec == Spec /\ Fairness

-----------------------------------------------------------------------------
TypeOK == EnvTypeOK /\ PubTypeOK /\ AnaTypeOK

(***************************************************************************)
(* What holds whatever the environment does.                               *)
(***************************************************************************)

\* test_timestamps.tsv has at most one row for a test, and its rows are in the
\* order of the suite: retries, late answers and failed reconnects never make
\* run_test conclude a test twice.
TestsInOrder ==
  \A i, j \in DOMAIN meta : i < j => meta[i].test < meta[j].test

\* The [start_ts, end_ts] windows, by which report.py and stats.c tell which
\* messages and $SYS samples belong to a test, do not end before they start, and do
\* not overlap.
WindowsDisjoint ==
  \A i \in DOMAIN meta :
    /\ meta[i].start <= meta[i].end
    /\ \A j \in DOMAIN meta : i < j => meta[i].end < meta[j].start

\* Whatever burst a committed row comes from, and whichever attempt was on when it
\* was compared, it has the topic of the test whose file it is in, unless a call of
\* that very test overlapped the callback: an overlap does no harm beyond its test.
CommittedOnTopic ==
  \A r \in tsv : r[1] \in spoiled \/ r[2].topic = Topic(r[1])

\* The publisher never aborts the burst of the attempt that the analyser is
\* still waiting for: a "reset" meant for an earlier attempt has no effect on it.
NoFriendlyAbort ==
  [][AbortBurst => ~(apc = "wait" /\ launch = g_nonce)]_vars

\* The tolerance of PARAM_SETTLE_MS in on_message does what it is for: as long as
\* the publisher's clock is not further behind than that, no message of the attempt
\* that is under way is dropped for its timestamp, in whatever order it arrives.
OwnBurstRecorded ==
  Skew >= -PARAM_SETTLE /\ apc \in {"wait", "grace"} =>
    \A k \in DOMAIN toData :
      toData[k].burst = g_nonce /\ toData[k].topic = Topic(logTest)
        => Recorded(toData[k], Topic(logTest))

\* The suite ends, with or without results, however often messages, links and
\* connections are lost.
Termination == <>Over

(***************************************************************************)
(* The inductive invariant behind the invariants (module BenchProofs).     *)
(***************************************************************************)

Measuring == apc \in {"settle", "stamp", "wait", "grace"}

\* From Begin to the end of the attempt the logger is set to the test in hand.
LoggerOnTest == Measuring => logTest = tnum

\* Every row of test_timestamps.tsv, and every file, is of a test that is concluded.
Concluded(t) == IF Ended THEN t <= tnum ELSE t < tnum

MetaBeforeTest  == \A i \in DOMAIN meta : Concluded(meta[i].test)
FilesBeforeTest == \A r \in tsv : Concluded(r[1])

\* The window of the attempt under way begins after every recorded one ended.
WindowOpen ==
  /\ \A i \in DOMAIN meta : meta[i].end <= clock
  /\ apc \in {"stamp", "wait", "grace"} =>
       /\ \A i \in DOMAIN meta : meta[i].end < g_test_start_ts
       /\ g_test_start_ts <= clock
  /\ apc = "grace" => g_test_start_ts <= g_test_end_ts /\ g_test_end_ts <= clock

\* The rows held and the one in hand are of the topic of the logger's test, unless one
\* of its calls has overlapped the callback or main() is setting the parameters.
HeldOnTopic ==
  apc # "begin" /\ logTest \notin spoiled =>
    \A m \in rows \cup inHand : m.topic = Topic(logTest)

IndInv ==
  /\ TypeOK
  /\ LoggerOnTest
  /\ TestsInOrder /\ MetaBeforeTest /\ FilesBeforeTest
  /\ WindowsDisjoint /\ WindowOpen
  /\ CommittedOnTopic /\ HeldOnTopic

(***************************************************************************)
(* What NoFriendlyAbort and OwnBurstRecorded rest on (module NonceProofs). *)
(***************************************************************************)

\* A nonce is younger than every one in use before it.
NoncesInOrder ==
  /\ g_start_nonce <= g_nonce /\ launch <= g_nonce /\ g_nonce <= clock
  /\ \A k \in DOMAIN toPub : toPub[k].kind = "start" => toPub[k].nonce <= g_nonce
  /\ apc = "stamp" => g_nonce < g_test_start_ts
  /\ apc \in {"wait", "grace"} => g_nonce = g_test_start_ts

\* While the analyser waits, nothing follows its "start", and no abort is pending
\* once the publisher has seen it.
StartIsLast ==
  apc = "wait" =>
    /\ \A k \in DOMAIN toPub : toPub[k] = Start(g_nonce) => k = Len(toPub)
    /\ g_start_nonce = g_nonce => toPub = << >> /\ ~g_abort
    /\ launch = g_nonce => g_start_nonce = g_nonce

\* A message is not stamped before the start it answers.
StampedAfterStart == \A k \in DOMAIN toData : toData[k].ts >= toData[k].burst + Skew

NonceInv == NoncesInOrder /\ StartIsLast /\ StampedAfterStart

(***************************************************************************)
(* What holds as long as the environment is not "slow".                    *)
(***************************************************************************)

\* A test that is recorded as successful is one whose burst the publisher ran for its
\* full time, in answer to the very "start" that opens the window; or run_burst had no
\* buffer or file for it, and published nothing.  A part of a burst is never a success.
Whole(burst) ==
  \/ <<burst, "full">> \in endings
  \/ <<burst, "unopened">> \in endings /\ \A p \in pubTsv : p.msg.burst # burst

NoPartialSuccess ==
  \A i \in DOMAIN meta : meta[i].retries >= 0 => Whole(meta[i].start)

\* No file of a successful test holds a row of another attempt, of another test
\* of the same topic, or of a burst that the analyser had given up, unless a call of
\* that very test overlapped the callback.
WindowIsolation ==
  \A i \in DOMAIN meta : \A r \in tsv :
    meta[i].retries >= 0 /\ r[1] = meta[i].test /\ r[1] \notin spoiled
      => r[2].burst = meta[i].start

\* test_timestamps.tsv is a SuiteLedger: at most one row per test, which tells truly
\* how many attempts failed; a test that was concluded lacks its row only if its last
\* attempt could not begin or write_ts_meta could not open the file.
Outcome(row) == [test |-> row.test, retries |-> row.retries]
TestInHand   == IF Ended THEN Len(Suite) + 1 ELSE tnum
Failed       == IF Ended THEN 0 ELSE retry
Outcomes     == [i \in DOMAIN meta |-> Outcome(meta[i])]

Ledger == INSTANCE SuiteLedger WITH
  N <- Len(Suite), RecordsFail <- "io" \in Faults,
  test <- TestInHand, attempt <- Failed, ledger <- Outcomes

LedgerSpec == Ledger!FairSpec

(***************************************************************************)
(* What the comments of the code say, and the code does not do (README,    *)
(* "Disagreements").                                                       *)
(***************************************************************************)

\* analyser/src/main.c:260, "Success": the rows of a successful test are committed,
\* as long as no callback gets in the way.
SuccessCommits ==
  [][meta' # meta /\ g_done /\ inHand = {} => {logTest} \X rows \subseteq tsv']_vars

\* analyser/src/logger.c:121, "Flush any leftover data from the previous test
\* before switching": rows recorded before logger_set_test are not lost, as long as no
\* callback gets in the way.
LeftoverFlushed ==
  [][apc = "begin" /\ apc' = "settle" /\ retry = 0 /\ inHand = {}
       => {logTest} \X rows \subseteq tsv']_vars

=============================================================================
