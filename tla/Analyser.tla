------------------------------- MODULE Analyser -------------------------------
(***************************************************************************)
(* The analyser process (analyser/src/main.c, with logger.c and sys_mon.c  *)
(* as far as the suite depends on them): main() walks the suite, run_test  *)
(* makes up to MAX_RETRY + 1 attempts at each test, and on_message, on the *)
(* library's threads, records counter messages and recognises "done".      *)
(*                                                                         *)
(* The control points of main() are the calls at which it sleeps or waits; *)
(* what it does between two of them is one step, except that Stamp and     *)
(* Launch are apart: the start timestamp is visible before the nonce is.   *)
(* The logger is abstracted to the rows it holds that are not committed    *)
(* (its buffer and its pending file) and to the committed rows; module     *)
(* Logger takes it apart.  A counter message is in the callback's hand     *)
(* from on_message's comparison of the topic to the end of logger_write.   *)
(* Nothing keeps main() from calling the logger meanwhile: such a call     *)
(* overlaps the callback, and may leave any part of the rows it found.     *)
(***************************************************************************)
EXTENDS Environment

CONSTANTS
  Suite,     \* the tests in the order of main()'s four loops
  MAX_RETRY

Tests == 1 .. Len(Suite)

ASSUME SuiteAssumption ==
  /\ Suite \in Seq([sub : Int, pub : Int, delay : Int, size : Int])
  /\ Len(Suite) > 0
ASSUME MaxRetryAssumption == MAX_RETRY \in Nat

\* main()'s loops: sub_qos outermost, then pub_qos, delay and size.
SuiteOf(subs, pubs, delays, sizes) ==
  LET S == Len(sizes)  D == Len(delays)  P == Len(pubs)
      Test(i) == [sub   |-> subs[1 + i \div (S * D * P)],
                  pub   |-> pubs[1 + ((i \div (S * D)) % P)],
                  delay |-> delays[1 + ((i \div S) % D)],
                  size  |-> sizes[1 + (i % S)]]
  IN  [t \in 1 .. Len(subs) * P * D * S |-> Test(t - 1)]

\* The suite of the code.
FullSuite == SuiteOf(<<0, 1, 2>>, <<0, 1, 2>>, <<0, 100>>, <<1, 1000, 4000>>)

PARAM_SETTLE == 1  \* PARAM_SETTLE_MS in units of clock: the settle phase is one

VARIABLES
  apc,              \* control point of main() and run_test()
  tnum,             \* test_num: the test whose turn it is
  retry,
  g_done,
  g_test_start_ts,
  g_test_end_ts,
  g_nonce,
  test_success,     \* g_logger.test_success
  inHand,           \* the message that on_message is about to log, if any
  logTest,          \* the test whose parameters g_logger holds; 0: all zeros
  rows,             \* rows in g_logger.buf and in the pending file
  tsv,              \* <<test, message>>: rows of the committed TSV files
  files,            \* the tests whose TSV file exists
  spoiled,          \* history: the tests for which a call overlapped the callback
  meta,             \* the rows of test_timestamps.tsv
  sysTest           \* the test whose $SYS file is open (sys_mon's g_fp); 0: none

stamps  == <<g_test_start_ts, g_test_end_ts, g_nonce>>
store   == <<inHand, logTest, rows, tsv, files, spoiled>>
anaVars == <<apc, tnum, retry, g_done, stamps, test_success, store, meta, sysTest>>

AnaInit ==
  /\ apc = "setup" /\ tnum = 1 /\ retry = 0
  /\ g_done = FALSE
  /\ g_test_start_ts = 0 /\ g_test_end_ts = 0 /\ g_nonce = 0
  /\ test_success = 0 /\ logTest = 0
  /\ inHand = {} /\ rows = {} /\ tsv = {} /\ files = {} /\ spoiled = {}
  /\ meta = << >>
  /\ sysTest = 0

-----------------------------------------------------------------------------
(* Helpers: the topic the logger's parameters name, the calls on the       *)
(* logger, and the ways control leaves a step.                             *)

Topic(t) == IF t = 0 THEN <<0, 0, 0>>
                     ELSE <<Suite[t].pub, Suite[t].delay, Suite[t].size>>

\* write_ts_meta appends a row, or cannot open the file; run_test does not ask.
WriteMeta(start, end, retries) ==
  \/ meta' = Append(meta, [test |-> logTest, start |-> start, end |-> end,
                           retries |-> retries])
  \/ ("io" \in Faults /\ UNCHANGED meta)

Overlapping == inHand # {}

\* What a call leaves of the rows held: the rest it means to leave or, if the callback
\* overlaps it, any part of them (count and the pending file are shared without a lock).
Left(rest) == IF Overlapping THEN SUBSET rows ELSE {rest}

\* logger_set_test: whatever was held is in no file that will be committed.
SetTest(t) ==
  /\ logTest' = t
  /\ rows' \in Left({})
  /\ spoiled' = IF Overlapping THEN spoiled \cup {t} ELSE spoiled \ {t}
  /\ UNCHANGED inHand

\* logger_flush: the buffer goes to the pending file, or is lost when that fails.
Flush ==
  /\ rows' \in IF "io" \in Faults THEN SUBSET rows ELSE Left(rows)
  /\ spoiled' = IF Overlapping THEN spoiled \cup {logTest} ELSE spoiled
  /\ UNCHANGED inHand

\* logger_commit, after the flush: the rows held go to the TSV file of the logger's
\* parameters.  A file that fails may cost any of them, and the caller does not ask.
Commit ==
  /\ \/ \E kept \in IF "io" \in Faults THEN SUBSET rows ELSE Left(rows) :
          /\ tsv' = tsv \cup ({logTest} \X kept)
          /\ files' = files \cup {logTest}
     \/ "io" \in Faults /\ UNCHANGED <<tsv, files>>
  /\ rows' \in Left({})
  /\ spoiled' = IF Overlapping THEN spoiled \cup {logTest} ELSE spoiled
  /\ UNCHANGED inHand

\* Variant of FirstAttempt: the count of retries is carried over to the next test.
SameAttempt == UNCHANGED retry

FirstAttempt == retry' = 0

\* run_test returned; main() goes on to the next test, at a new sub_qos or not.
NextTest ==
  IF tnum = Len(Suite)
  THEN /\ apc' = "exit"
       /\ UNCHANGED <<tnum, retry>>
  ELSE /\ apc' = IF Suite[tnum + 1].sub = Suite[tnum].sub THEN "begin" ELSE "connect"
       /\ tnum' = tnum + 1
       /\ FirstAttempt

\* The for loop of run_test, after the attempt or the reconnect has failed.
NextAttempt ==
  /\ apc' = "retry"
  /\ retry' = retry + 1
  /\ UNCHANGED tnum

\* Variant of Continue: one retry too many.
ContinueOnceMore == IF retry <= MAX_RETRY THEN NextAttempt ELSE NextTest

\* Variant of Continue: for ever.
ContinueForever == apc' = "retry" /\ UNCHANGED <<tnum, retry>>

\* "continue": after the last retry the loop just ends, and the test has no record.
Continue == IF retry < MAX_RETRY THEN NextAttempt ELSE NextTest

ReturnLate == NextTest

\* Variant of EndWindow: the end of the window is taken only on success.
LeaveWindow == UNCHANGED g_test_end_ts

EndWindow == g_test_end_ts' = clock

\* Variant of Drained: the clients stay connected.
StillConnected == UNCHANGED <<clock, toPub, toCtrl, toData, pubUp>>

\* Both clients disconnect: what the broker had for them is gone.
Drained ==
  /\ toCtrl' = << >> /\ toData' = << >>
  /\ UNCHANGED <<clock, toPub, pubUp>>

-----------------------------------------------------------------------------
(* main(): set-up and connections.                                         *)

\* logger_init and sys_mon_init, or "return 1".
Setup ==
  /\ apc = "setup"
  /\ \/ apc' = "connect"
     \/ "io" \in Faults /\ apc' = "failed"
  /\ UNCHANGED envVars
  /\ UNCHANGED <<tnum, retry, g_done, stamps, test_success, store, meta, sysTest>>

\* connect_and_subscribe(sub_qos).  A client that connects while the other
\* fails has not subscribed, so it receives nothing either.
ConnectClients(connected, failed) ==
  /\ Drained
  /\ \/ /\ ctrlUp' = TRUE /\ dataUp' = TRUE
        /\ connected
     \/ /\ "connect" \in Faults
        /\ ctrlUp' = FALSE /\ dataUp' = FALSE
        /\ failed

\* For the tests of a new sub_qos, or "return 1".
Connect ==
  /\ apc = "connect"
  /\ ConnectClients(apc' = "begin", apc' = "failed")
  /\ UNCHANGED <<tnum, retry, g_done, stamps, test_success, store, meta, sysTest>>

Finish ==
  /\ apc = "exit"
  /\ apc' = "stopped"
  /\ Drained
  /\ ctrlUp' = FALSE /\ dataUp' = FALSE
  /\ sysTest' = 0
  /\ UNCHANGED <<tnum, retry, g_done, stamps, test_success, store, meta>>

-----------------------------------------------------------------------------
(* run_test(): one attempt.                                                *)

\* Up to the settle pause: the parameters go out, recording starts.
Begin ==
  /\ apc = "begin"
  /\ apc' = "settle"
  /\ g_done' = FALSE
  /\ SetTest(tnum)
  /\ sysTest' = tnum
  /\ Send([k \in Fields |-> Param(k, Topic(tnum)[k])])
  /\ Tick
  /\ UNCHANGED <<toCtrl, toData, pubUp, ctrlUp, dataUp>>
  /\ UNCHANGED <<tnum, retry, stamps, test_success, tsv, files, meta>>

Stamp ==
  /\ apc = "settle"
  /\ apc' = "stamp"
  /\ Tick
  /\ g_test_start_ts' = clock'
  /\ UNCHANGED netVars
  /\ UNCHANGED <<tnum, retry, g_done, g_test_end_ts, g_nonce, test_success, store,
                 meta, sysTest>>

\* A stale "done" that has come already leaves no wait, nor any time, to the stamp of
\* the end.
Launch ==
  /\ apc = "stamp"
  /\ apc' = "wait"
  /\ g_nonce' = g_test_start_ts
  /\ Send(<<Start(g_test_start_ts)>>)
  /\ Tick \/ (g_done /\ UNCHANGED clock)
  /\ UNCHANGED <<toCtrl, toData, pubUp, ctrlUp, dataUp>>
  /\ UNCHANGED <<tnum, retry, g_done, g_test_start_ts, g_test_end_ts, test_success,
                 store, meta, sysTest>>

\* "done" within TEST_DURATION_S + TIMEOUT_GRACE_S.
WaitDone ==
  /\ apc = "wait"
  /\ g_done
  /\ Tick \/ (clock = g_test_start_ts /\ UNCHANGED clock)
  /\ EndWindow
  /\ test_success' = retry
  /\ WriteMeta(g_test_start_ts, g_test_end_ts', retry)
  /\ Commit
  /\ sysTest' = 0
  /\ NextTest
  /\ UNCHANGED netVars
  /\ UNCHANGED <<g_done, g_test_start_ts, g_nonce, logTest>>

\* No "done": tell the publisher to stop, and wait a little more.
WaitTimeout ==
  /\ apc = "wait"
  /\ ~g_done
  /\ apc' = "grace"
  /\ Tick
  /\ EndWindow
  /\ Send(<<Reset>>)
  /\ UNCHANGED <<toCtrl, toData, pubUp, ctrlUp, dataUp>>
  /\ UNCHANGED <<tnum, retry, g_done, g_test_start_ts, g_nonce, test_success, store,
                 meta, sysTest>>

\* A late "done": the row takes test_success as it is; nothing is committed.
GraceDone ==
  /\ apc = "grace"
  /\ g_done
  /\ WriteMeta(g_test_start_ts, g_test_end_ts, test_success)
  /\ Flush
  /\ sysTest' = 0
  /\ ReturnLate
  /\ UNCHANGED envVars
  /\ UNCHANGED <<g_done, stamps, test_success, logTest, tsv, files>>

\* Still no "done": another attempt, or the test is given up.
GraceTimeout ==
  /\ apc = "grace"
  /\ ~g_done
  /\ sysTest' = 0
  /\ \/ /\ retry < MAX_RETRY
        /\ NextAttempt
        /\ Flush
        /\ UNCHANGED <<test_success, meta, tsv, files>>
     \/ /\ retry = MAX_RETRY
        /\ test_success' = -1
        /\ WriteMeta(g_test_start_ts, g_test_end_ts, -1)
        /\ Commit
        /\ NextTest
  /\ UNCHANGED envVars
  /\ UNCHANGED <<g_done, stamps, logTest>>

\* Head of a further attempt: logger_discard and logger_set_test, "reset".
RetryReset ==
  /\ apc = "retry"
  /\ apc' = "reconnect"
  /\ g_done' = FALSE
  /\ SetTest(tnum)
  /\ Send(<<Reset>>)
  /\ UNCHANGED <<clock, toCtrl, toData, pubUp, ctrlUp, dataUp>>
  /\ UNCHANGED <<tnum, retry, stamps, test_success, tsv, files, meta, sysTest>>

Reconnect ==
  /\ apc = "reconnect"
  /\ ConnectClients(apc' = "begin" /\ UNCHANGED <<tnum, retry>>, Continue)
  /\ UNCHANGED <<g_done, stamps, test_success, store, meta, sysTest>>

-----------------------------------------------------------------------------
(* on_message, on the threads of the two clients.                          *)

OnDone ==
  /\ ctrlUp
  /\ toCtrl # << >>
  /\ toCtrl' = Tail(toCtrl)
  /\ g_done' = (g_done \/ (Head(toCtrl) = g_nonce /\ clock > g_test_start_ts))
  /\ UNCHANGED <<clock, toPub, toData, pubUp, ctrlUp, dataUp>>
  /\ UNCHANGED <<apc, tnum, retry, stamps, test_success, store, meta, sysTest>>

\* The topics that on_message may put together from the logger's parameters: while
\* main() sets them one by one, any mixture of the old and the new.
TopicsRead ==
  {[k \in Fields |-> Topic(IF k \in new THEN tnum ELSE logTest)[k]] :
     new \in IF apc = "begin" THEN SUBSET Fields ELSE {{}}}

\* Variant of Recorded: the topic is not compared.
RecordedAnyTopic(m, topic) == m.ts >= g_test_start_ts - PARAM_SETTLE

\* Variant of Recorded: the start of the test is taken as it is.
RecordedFromStart(m, topic) == m.topic = topic /\ m.ts >= g_test_start_ts

\* A counter message is recorded when it is of the logger's topic and was not
\* published before the parameters of the attempt went out.
Recorded(m, topic) ==
  /\ m.topic = topic
  /\ m.ts >= g_test_start_ts - PARAM_SETTLE

\* on_message, up to the call of logger_write.
OnCounter ==
  /\ dataUp
  /\ toData # << >>
  /\ inHand = {}
  /\ toData' = Tail(toData)
  /\ \E topic \in TopicsRead :
       inHand' = {m \in {Head(toData)} : Recorded(m, topic)}
  /\ UNCHANGED <<clock, toPub, toCtrl, pubUp, ctrlUp, dataUp>>
  /\ UNCHANGED <<apc, tnum, retry, g_done, stamps, test_success, logTest, rows, tsv,
                 files, spoiled, meta, sysTest>>

\* logger_write.  After an overlap it may lose its row, and others.
LogRow ==
  /\ inHand # {}
  /\ rows' \in IF logTest \in spoiled THEN SUBSET (rows \cup inHand)
                                     ELSE {rows \cup inHand}
  /\ inHand' = {}
  /\ UNCHANGED envVars
  /\ UNCHANGED <<apc, tnum, retry, g_done, stamps, test_success, logTest, tsv, files,
                 spoiled, meta, sysTest>>

-----------------------------------------------------------------------------
MetaRows == [test : Tests, start : Int, end : Int, retries : -1 .. MAX_RETRY]

AnaTypeOK ==
  /\ apc \in {"setup", "connect", "begin", "settle", "stamp", "wait", "grace", "retry",
              "reconnect", "exit", "stopped", "failed"}
  /\ tnum \in Tests
  /\ retry \in 0 .. MAX_RETRY
  /\ g_done \in BOOLEAN
  /\ g_test_start_ts \in Nat /\ g_test_end_ts \in Nat /\ g_nonce \in Nat
  /\ test_success \in -1 .. MAX_RETRY
  /\ logTest \in 0 .. Len(Suite)
  /\ inHand \subseteq Messages /\ rows \subseteq Messages
  /\ tsv \subseteq Tests \X Messages /\ files \subseteq Tests /\ spoiled \subseteq Tests
  /\ meta \in Seq(MetaRows)
  /\ sysTest \in 0 .. Len(Suite)

=============================================================================
