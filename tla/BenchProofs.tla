----------------------------- MODULE BenchProofs -----------------------------
(***************************************************************************)
(* Proofs about the test bench, for every suite, every number of retries,  *)
(* every length of a burst and every set of faults: IndInv is inductive,   *)
(* and the safety properties that hold whatever the environment does       *)
(* follow from it.                                                         *)
(***************************************************************************)
EXTENDS Bench, SequenceTheorems, TLAPS

USE DEF Fields, shared, burstVars, stamps, store, Over, Ended

\* The empty queue is a queue of any type.
LEMMA EmptyQueue == \A S : << >> \in Seq(S)
  BY EmptySeq

\* A queue that is not empty has a head of its type, and stays a queue of that
\* type when the head is taken.
LEMMA QueueHead ==
  ASSUME NEW S, NEW q \in Seq(S), q # << >>
  PROVE  Head(q) \in S /\ Tail(q) \in Seq(S)
  OBVIOUS

\* The suite is a finite sequence of tests, and not empty.
LEMMA SuiteLength ==
  /\ Len(Suite) \in Nat \ {0}
  /\ 1 \in Tests
  /\ \A t \in Tests : t \in Int /\ t \in 0 .. Len(Suite)
  BY SuiteAssumption, LenProperties DEF Tests

\* The topic of a test, and of a logger that has not been set, is a topic.
LEMMA TopicType == \A t \in 0 .. Len(Suite) : Topic(t) \in Topics
<1>1. <<0, 0, 0>> \in [1 .. 3 -> Int]
  OBVIOUS
<1>2. ASSUME NEW t \in 1 .. Len(Suite)
      PROVE  <<Suite[t].pub, Suite[t].delay, Suite[t].size>> \in [1 .. 3 -> Int]
  <2>1. Suite[t] \in [sub : Int, pub : Int, delay : Int, size : Int]
    BY SuiteAssumption, ElementOfSeq
  <2> QED
    BY <2>1
<1> QED
  BY <1>1, <1>2, SuiteAssumption DEF Topic, Topics

\* The analyser's requests are requests.
LEMMA RequestType ==
  /\ \A t \in Tests : [k \in Fields |-> Param(k, Topic(t)[k])] \in Seq(Requests)
  /\ \A n \in Int : <<Start(n)>> \in Seq(Requests)
  /\ <<Reset>> \in Seq(Requests)
<1>1. \A k \in Fields, v \in Int : Param(k, v) \in Requests
  BY DEF Param, Requests
<1>2. \A n \in Int : Start(n) \in Requests
  BY DEF Start, Requests
<1>3. Reset \in Requests
  BY DEF Reset, Requests
<1>4. ASSUME NEW t \in Tests
      PROVE  [k \in Fields |-> Param(k, Topic(t)[k])] \in Seq(Requests)
  <2>1. Topic(t) \in Topics
    BY TopicType, SuiteAssumption DEF Tests
  <2>2. \A k \in Fields : Topic(t)[k] \in Int
    BY <2>1 DEF Topics
  <2>3. \A k \in 1 .. 3 : Param(k, Topic(t)[k]) \in Requests
    BY <1>1, <2>2
  <2> DEFINE f == [k \in 1 .. 3 |-> Param(k, Topic(t)[k])]
  <2>4. f \in [1 .. 3 -> Requests]
    BY <2>3
  <2> HIDE DEF f
  <2>5. f \in Seq(Requests)
    BY <2>4, SeqDef
  <2> QED
    BY <2>5 DEF f
<1> QED
  BY <1>2, <1>3, <1>4

\* What has been sent is still a queue of requests.
LEMMA SendType ==
  ASSUME toPub \in Seq(Requests), NEW r \in Seq(Requests), Send(r)
  PROVE  toPub' \in Seq(Requests)
  BY DEF Send

\* The snapshot of a configuration, once complete, is a topic.
LEMMA SnapshotType ==
  ASSUME NEW s \in Seq(Int), Len(s) = 3
  PROVE  s \in Topics
  BY LenProperties DEF Topics

-----------------------------------------------------------------------------
(* Initially.                                                              *)

\* Before the first connection nothing is recorded, and the invariant holds.
LEMMA Initially == Init => IndInv
<1> SUFFICES ASSUME Init PROVE IndInv
  OBVIOUS
<1> USE DEF Init
<1>1. EnvTypeOK
  BY EmptyQueue DEF EnvInit, EnvTypeOK
<1>2. PubTypeOK
  <2>1. cfg \in [Fields -> Int]
    BY DEF PubInit
  <2>2. snap \in Seq(Int) /\ Len(snap) <= 3
    BY EmptySeq DEF PubInit
  <2>3. counter \in 0 .. MaxMsgs /\ g_start_nonce \in Int /\ launch \in Int
    BY MaxMsgsAssumption DEF PubInit
  <2>4. g_start \in BOOLEAN /\ g_abort \in BOOLEAN /\ ppc = "poll"
    BY DEF PubInit
  <2>5. /\ pubTsv \subseteq [msg : Messages, rc : {0, -1}]
        /\ pubFiles \subseteq Seq(Int)
        /\ endings \subseteq Int \X {"full", "unopened"}
    BY DEF PubInit
  <2> QED
    BY <2>1, <2>2, <2>3, <2>4, <2>5 DEF PubTypeOK
<1>3. AnaTypeOK
  <2>1. meta \in Seq(MetaRows)
    BY EmptySeq DEF AnaInit
  <2>2. 1 \in Tests /\ 0 \in 0 .. Len(Suite)
    BY SuiteAssumption, LenProperties DEF Tests
  <2>3. tnum \in Tests /\ logTest \in 0 .. Len(Suite) /\ sysTest \in 0 .. Len(Suite)
    BY <2>2 DEF AnaInit
  <2>4. retry \in 0 .. MAX_RETRY /\ test_success \in -1 .. MAX_RETRY
    BY MaxRetryAssumption DEF AnaInit
  <2>5. g_test_start_ts \in Nat /\ g_test_end_ts \in Nat /\ g_nonce \in Nat
    BY DEF AnaInit
  <2>6. apc = "setup" /\ g_done \in BOOLEAN
    BY DEF AnaInit
  <2>7. /\ inHand \subseteq Messages /\ rows \subseteq Messages
        /\ tsv \subseteq Tests \X Messages /\ files \subseteq Tests /\ spoiled \subseteq Tests
    BY DEF AnaInit
  <2> QED
    BY <2>1, <2>3, <2>4, <2>5, <2>6, <2>7 DEF AnaTypeOK
<1>4. LoggerOnTest /\ HeldOnTopic /\ CommittedOnTopic
  BY DEF AnaInit, LoggerOnTest, Measuring, HeldOnTopic, CommittedOnTopic
<1>5. /\ TestsInOrder /\ MetaBeforeTest /\ FilesBeforeTest
      /\ WindowsDisjoint /\ WindowOpen
  BY DEF AnaInit, TestsInOrder, MetaBeforeTest, FilesBeforeTest, WindowsDisjoint, WindowOpen
<1> QED
  BY <1>1, <1>2, <1>3, <1>4, <1>5 DEF IndInv, TypeOK

-----------------------------------------------------------------------------
(* Steps of the publisher and of the environment.  They leave the clock    *)
(* and the analyser alone.                                                 *)

AnaInv ==
  /\ AnaTypeOK
  /\ LoggerOnTest
  /\ TestsInOrder /\ MetaBeforeTest /\ FilesBeforeTest
  /\ WindowsDisjoint /\ WindowOpen
  /\ CommittedOnTopic /\ HeldOnTopic

\* The analyser's part of the invariant depends on its own variables and the clock.
LEMMA AnalyserAlone ==
  ASSUME AnaInv, UNCHANGED anaVars, clock' = clock
  PROVE  AnaInv'
<1> USE DEF AnaInv, anaVars
<1>1. AnaTypeOK'
  BY DEF AnaTypeOK
<1>2. LoggerOnTest' /\ HeldOnTopic' /\ CommittedOnTopic'
  BY DEF LoggerOnTest, Measuring, HeldOnTopic, CommittedOnTopic, Topic
<1>3. TestsInOrder' /\ MetaBeforeTest' /\ FilesBeforeTest'
  BY DEF TestsInOrder, MetaBeforeTest, FilesBeforeTest, Concluded
<1>4. WindowsDisjoint' /\ WindowOpen'
  BY DEF WindowsDisjoint, WindowOpen
<1> QED
  BY <1>1, <1>2, <1>3, <1>4

\* A step of the publisher, of either thread, keeps the invariant.
LEMMA PublisherStep ==
  ASSUME TypeOK, PubMain \/ OnRequest
  PROVE  EnvTypeOK' /\ PubTypeOK' /\ clock' = clock
<1> USE DEF TypeOK
<1>1. CASE PollStart
  <2>1. snap' \in Seq(Int) /\ Len(snap') <= 3
    BY <1>1, EmptySeq DEF PollStart
  <2>2. ppc' = "snapshot" /\ g_start' = FALSE /\ launch' = g_start_nonce
    BY <1>1 DEF PollStart
  <2> QED
    BY <1>1, <2>1, <2>2 DEF PollStart, envVars, EnvTypeOK, PubTypeOK
<1>2. CASE SnapshotField
  <2>1. cfg[Len(snap) + 1] \in Int
    BY <1>2, LenProperties DEF SnapshotField, PubTypeOK
  <2>2. snap' \in Seq(Int) /\ Len(snap') <= 3
    BY <1>2, <2>1 DEF SnapshotField, PubTypeOK
  <2> QED
    BY <1>2, <2>2 DEF SnapshotField, envVars, EnvTypeOK, PubTypeOK
<1>3. CASE OpenBurst
  <2>1. counter' \in 0 .. MaxMsgs
    BY <1>3, MaxMsgsAssumption DEF OpenBurst
  <2>2. /\ endings' \subseteq Int \X {"full", "unopened"}
        /\ pubFiles' \subseteq Seq(Int)
    BY <1>3 DEF OpenBurst, PubTypeOK
  <2>3. /\ UNCHANGED <<shared, snap, launch, pubTsv, envVars>>
        /\ ppc' \in {"burst", "done"} /\ Len(snap) = 3
    BY <1>3 DEF OpenBurst
  <2> QED
    BY <2>1, <2>2, <2>3 DEF envVars, EnvTypeOK, PubTypeOK
<1>4. CASE PublishMessage
  <2> DEFINE m == [topic |-> snap, n |-> counter, ts |-> PublisherClock, burst |-> launch]
  <2>1. m \in Messages
    BY <1>4, SnapshotType, MaxMsgsAssumption, SkewAssumption
    DEF PublishMessage, PublisherClock, EnvTypeOK, PubTypeOK, Messages
  <2> HIDE DEF m
  <2>2. toData' \in Seq(Messages)
    BY <1>4, <2>1 DEF PublishMessage, EnvTypeOK, m
  <2>3. pubTsv' \subseteq [msg : Messages, rc : {0, -1}]
    BY <1>4, <2>1 DEF PublishMessage, PubTypeOK, m
  <2>4. counter' \in 0 .. MaxMsgs
    BY <1>4, MaxMsgsAssumption DEF PublishMessage, PubTypeOK
  <2> QED
    BY <1>4, <2>2, <2>3, <2>4 DEF PublishMessage, EnvTypeOK, PubTypeOK
<1>5. CASE AbortBurst
  BY <1>5 DEF AbortBurst, envVars, EnvTypeOK, PubTypeOK
<1>6. CASE EndBurst
  BY <1>6 DEF EndBurst, envVars, EnvTypeOK, PubTypeOK
<1>7. CASE SendDone
  BY <1>7 DEF SendDone, EnvTypeOK, PubTypeOK
<1>8. CASE OnRequest
  <2>1. Head(toPub) \in Requests /\ Tail(toPub) \in Seq(Requests)
    BY <1>8, QueueHead DEF OnRequest, OnParam, OnStart, OnReset, Receive, EnvTypeOK
  <2>2. CASE OnParam
    <3>1. Head(toPub).k \in Fields /\ Head(toPub).v \in Int
      BY <2>1, <2>2 DEF OnParam, Receive, Requests
    <3> QED
      BY <2>1, <2>2, <3>1 DEF OnParam, Receive, EnvTypeOK, PubTypeOK
  <2>3. CASE OnStart
    <3>1. Head(toPub).nonce \in Int
      BY <2>1, <2>3 DEF OnStart, Receive, Requests
    <3> QED
      BY <2>1, <2>3, <3>1 DEF OnStart, WithdrawAbort, Receive, EnvTypeOK, PubTypeOK
  <2>4. CASE OnReset
    BY <2>1, <2>4 DEF OnReset, Receive, EnvTypeOK, PubTypeOK
  <2> QED
    BY <1>8, <2>2, <2>3, <2>4 DEF OnRequest
<1> QED
  BY <1>1, <1>2, <1>3, <1>4, <1>5, <1>6, <1>7, <1>8 DEF PubMain

\* A fault keeps the invariant.
LEMMA EnvironmentStep ==
  ASSUME EnvTypeOK, EnvNext
  PROVE  EnvTypeOK' /\ clock' = clock
<1> USE DEF EnvTypeOK
<1>1. CASE LoseRequest
  BY <1>1, QueueHead DEF LoseRequest
<1>2. CASE LoseMessage
  BY <1>2, QueueHead DEF LoseMessage
<1>3. CASE BreakPublisherLink
  BY <1>3, EmptyQueue DEF BreakPublisherLink
<1>4. CASE BreakControlLink
  BY <1>4, EmptyQueue DEF BreakControlLink
<1>5. CASE BreakDataLink
  BY <1>5, EmptyQueue DEF BreakDataLink
<1> QED
  BY <1>1, <1>2, <1>3, <1>4, <1>5 DEF EnvNext

-----------------------------------------------------------------------------
(* Steps of the analyser.                                                  *)

\* What main() does when run_test returns.
LEMMA NextTestType ==
  ASSUME tnum \in Tests, retry \in 0 .. MAX_RETRY, NextTest
  PROVE  /\ tnum' \in Tests /\ retry' \in 0 .. MAX_RETRY
         /\ \/ apc' = "exit" /\ tnum' = tnum
            \/ apc' \in {"begin", "connect"} /\ tnum' = tnum + 1
<1>1. CASE tnum = Len(Suite)
  BY <1>1 DEF NextTest
<1>2. CASE tnum # Len(Suite)
  <2>1. tnum + 1 \in Tests
    BY <1>2, SuiteAssumption, LenProperties DEF Tests
  <2> QED
    BY <1>2, <2>1, MaxRetryAssumption DEF NextTest, FirstAttempt
<1> QED
  BY <1>1, <1>2

\* The rows of test_timestamps.tsv hold numbers.
LEMMA MetaTypes ==
  ASSUME meta \in Seq(MetaRows)
  PROVE  /\ DOMAIN meta = 1 .. Len(meta) /\ Len(meta) \in Nat
         /\ \A i \in DOMAIN meta :
              meta[i].test \in Int /\ meta[i].start \in Int /\ meta[i].end \in Int
<1>1. DOMAIN meta = 1 .. Len(meta) /\ Len(meta) \in Nat
  BY LenProperties
<1>2. \A i \in DOMAIN meta : meta[i] \in MetaRows
  BY <1>1, ElementOfSeq
<1> QED
  BY <1>1, <1>2, SuiteLength DEF MetaRows

\* A row that concludes the test in hand, with a window that begins after every
\* recorded one, keeps the record in order.
LEMMA MetaExtended ==
  ASSUME AnaInv, logTest = tnum, NextTest,
         \A i \in DOMAIN meta : meta[i].test < tnum,
         NEW start \in Nat, NEW end \in Nat, NEW r \in -1 .. MAX_RETRY,
         meta' = Append(meta, [test |-> logTest, start |-> start, end |-> end,
                               retries |-> r]),
         \A i \in DOMAIN meta : meta[i].end < start,
         clock \in Nat, clock' \in Nat,
         start <= end, end <= clock', clock <= clock'
  PROVE  /\ meta' \in Seq(MetaRows)
         /\ TestsInOrder' /\ MetaBeforeTest' /\ WindowsDisjoint'
         /\ \A i \in DOMAIN meta' : meta'[i].end <= clock'
<1> DEFINE row == [test |-> logTest, start |-> start, end |-> end, retries |-> r]
<1>1. tnum \in Tests /\ retry \in 0 .. MAX_RETRY /\ meta \in Seq(MetaRows)
  BY DEF AnaInv, AnaTypeOK
<1>2. row \in MetaRows
  BY <1>1 DEF MetaRows
<1>3. meta' = Append(meta, row)
  OBVIOUS
<1>4. row.test = tnum /\ row.start = start /\ row.end = end
  OBVIOUS
<1> HIDE DEF row
<1>5. meta' \in Seq(MetaRows) /\ Len(meta') = Len(meta) + 1
  BY <1>1, <1>2, <1>3
<1>6. DOMAIN meta = 1 .. Len(meta) /\ DOMAIN meta' = 1 .. Len(meta) + 1 /\ Len(meta) \in Nat
  BY <1>1, <1>5, LenProperties
<1>7. \A i \in DOMAIN meta : meta'[i] = meta[i]
  BY <1>1, <1>2, <1>3, <1>6
<1>8. meta'[Len(meta) + 1] = row
  BY <1>1, <1>2, <1>3, <1>6
<1>10. \A i \in DOMAIN meta :
         meta[i].test \in Int /\ meta[i].start \in Int /\ meta[i].end \in Int
  BY <1>1, MetaTypes
<1>11. TestsInOrder /\ MetaBeforeTest /\ WindowsDisjoint /\ WindowOpen
  BY DEF AnaInv
<1>12. TestsInOrder'
  <2> SUFFICES ASSUME NEW i \in DOMAIN meta', NEW j \in DOMAIN meta', i < j
               PROVE  meta'[i].test < meta'[j].test
    BY DEF TestsInOrder
  <2>1. i \in DOMAIN meta
    BY <1>6
  <2>2. CASE j \in DOMAIN meta
    BY <1>7, <1>11, <2>1, <2>2 DEF TestsInOrder
  <2>3. CASE j = Len(meta) + 1
    BY <1>4, <1>7, <1>8, <2>1, <2>3
  <2> QED
    BY <1>6, <2>2, <2>3
<1>13. \A i \in DOMAIN meta' : meta'[i].test \in Int /\ meta'[i].test <= tnum
  BY <1>1, <1>4, <1>6, <1>7, <1>8, <1>10, SuiteLength
<1>14. MetaBeforeTest'
  <2>1. tnum \in Int
    BY <1>1, SuiteLength
  <2> QED
    BY <1>1, <1>13, <2>1, NextTestType DEF MetaBeforeTest, Concluded
<1>15. WindowsDisjoint'
  <2> SUFFICES ASSUME NEW i \in DOMAIN meta'
               PROVE  /\ meta'[i].start <= meta'[i].end
                      /\ \A j \in DOMAIN meta' : i < j => meta'[i].end < meta'[j].start
    BY DEF WindowsDisjoint
  <2>1. CASE i = Len(meta) + 1
    BY <1>4, <1>6, <1>8, <2>1
  <2>2. CASE i \in DOMAIN meta
    <3>1. meta'[i].start <= meta'[i].end
      BY <1>7, <1>11, <2>2 DEF WindowsDisjoint
    <3>2. ASSUME NEW j \in DOMAIN meta', i < j
          PROVE  meta'[i].end < meta'[j].start
      <4>1. CASE j \in DOMAIN meta
        BY <1>7, <1>11, <2>2, <3>2, <4>1 DEF WindowsDisjoint
      <4>2. CASE j = Len(meta) + 1
        BY <1>4, <1>7, <1>8, <2>2, <4>2
      <4> QED
        BY <1>6, <4>1, <4>2
    <3> QED
      BY <3>1, <3>2
  <2> QED
    BY <1>6, <2>1, <2>2
<1>16. \A i \in DOMAIN meta' : meta'[i].end <= clock'
  BY <1>4, <1>6, <1>7, <1>8, <1>10, <1>11 DEF WindowOpen
<1> QED
  BY <1>5, <1>12, <1>14, <1>15, <1>16

\* And so it is when the row cannot be written.
LEMMA MetaWritten ==
  ASSUME AnaInv, logTest = tnum, NextTest,
         \A i \in DOMAIN meta : meta[i].test < tnum,
         NEW start \in Nat, NEW end \in Nat, NEW r \in -1 .. MAX_RETRY,
         WriteMeta(start, end, r),
         \A i \in DOMAIN meta : meta[i].end < start,
         clock \in Nat, clock' \in Nat,
         start <= end, end <= clock', clock <= clock'
  PROVE  /\ meta' \in Seq(MetaRows)
         /\ TestsInOrder' /\ MetaBeforeTest' /\ WindowsDisjoint'
         /\ \A i \in DOMAIN meta' : meta'[i].end <= clock'
<1>1. CASE meta' = Append(meta, [test |-> logTest, start |-> start, end |-> end,
                                 retries |-> r])
  BY <1>1, MetaExtended
<1>2. CASE UNCHANGED meta
  <2>1. tnum \in Tests /\ retry \in 0 .. MAX_RETRY /\ meta \in Seq(MetaRows)
    BY DEF AnaInv, AnaTypeOK
  <2>2. tnum \in Int /\ \A i \in DOMAIN meta : meta[i].test \in Int /\ meta[i].end \in Int
    BY <2>1, SuiteLength, MetaTypes
  <2>3. MetaBeforeTest'
    BY <1>2, <2>1, <2>2, NextTestType DEF MetaBeforeTest, Concluded
  <2>4. TestsInOrder' /\ WindowsDisjoint'
    BY <1>2 DEF AnaInv, TestsInOrder, WindowsDisjoint
  <2>5. \A i \in DOMAIN meta' : meta'[i].end <= clock'
    BY <1>2, <2>2 DEF AnaInv, WindowOpen
  <2> QED
    BY <1>2, <2>1, <2>3, <2>4, <2>5
<1> QED
  BY <1>1, <1>2 DEF WriteMeta

\* Flushing or committing what the logger holds of its test keeps every file on its topic,
\* unless the call overlaps the callback: then the test is among the spoiled ones.
LEMMA CommitOnTopic ==
  ASSUME AnaInv, logTest \in Tests, Commit \/ (Flush /\ UNCHANGED <<tsv, files>>),
         logTest' = logTest, apc # "begin"
  PROVE  /\ tsv' \subseteq Tests \X Messages /\ rows' \subseteq Messages
         /\ inHand' \subseteq Messages /\ spoiled' \subseteq Tests /\ files' \subseteq Tests
         /\ tsv' \subseteq tsv \cup ({logTest} \X rows)
         /\ CommittedOnTopic' /\ HeldOnTopic'
<1>1. rows' \subseteq rows /\ inHand' = inHand
  BY DEF Commit, Flush, Left
<1>2. tsv' \subseteq tsv \cup ({logTest} \X rows)
  BY DEF Commit, Left
<1>3. spoiled' = spoiled \cup (IF inHand # {} THEN {logTest} ELSE {})
  BY DEF Commit, Flush, Overlapping
<1>4. /\ tsv' \subseteq Tests \X Messages /\ rows' \subseteq Messages
      /\ inHand' \subseteq Messages /\ spoiled' \subseteq Tests /\ files' \subseteq Tests
  <2>1. files' \subseteq Tests
    BY DEF Commit, AnaInv, AnaTypeOK
  <2> QED
    BY <1>1, <1>2, <1>3, <2>1 DEF AnaInv, AnaTypeOK
<1>5. HeldOnTopic'
  BY <1>1, <1>3 DEF AnaInv, HeldOnTopic, Topic
<1>6. CommittedOnTopic'
  BY <1>2, <1>3 DEF AnaInv, CommittedOnTopic, HeldOnTopic, Topic
<1> QED
  BY <1>2, <1>4, <1>5, <1>6

\* Every test of the suite has its record when an attempt ends with one.
LEMMA AttemptConcluded ==
  ASSUME AnaInv, EnvTypeOK, NextTest, UNCHANGED netVars, logTest' = logTest,
         apc \in {"wait", "grace"}, clock' \in Nat,
         NEW start \in Nat, NEW end \in Nat, NEW r \in -1 .. MAX_RETRY,
         WriteMeta(start, end, r), start = g_test_start_ts,
         start <= end, end <= clock', clock <= clock',
         g_done' \in BOOLEAN, g_test_start_ts' \in Nat, g_test_end_ts' \in Nat,
         g_nonce' \in Nat, test_success' \in -1 .. MAX_RETRY, sysTest' = 0,
         Commit \/ (Flush /\ UNCHANGED <<tsv, files>>)
  PROVE  AnaInv' /\ EnvTypeOK'
<1>1. logTest = tnum /\ tnum \in Tests /\ retry \in 0 .. MAX_RETRY
  BY DEF AnaInv, AnaTypeOK, LoggerOnTest, Measuring
<1>2. /\ \A i \in DOMAIN meta : meta[i].test < tnum
      /\ \A i \in DOMAIN meta : meta[i].end < start
  BY DEF AnaInv, MetaBeforeTest, Concluded, WindowOpen
<1>3. clock \in Nat
  BY DEF EnvTypeOK
<1>4. /\ meta' \in Seq(MetaRows)
      /\ TestsInOrder' /\ MetaBeforeTest' /\ WindowsDisjoint'
      /\ \A i \in DOMAIN meta' : meta'[i].end <= clock'
  BY <1>1, <1>2, <1>3, MetaWritten
<1>5. /\ tsv' \subseteq Tests \X Messages /\ rows' \subseteq Messages
      /\ inHand' \subseteq Messages /\ spoiled' \subseteq Tests /\ files' \subseteq Tests
      /\ tsv' \subseteq tsv \cup ({logTest} \X rows)
      /\ CommittedOnTopic' /\ HeldOnTopic'
  BY <1>1, CommitOnTopic
<1>6. /\ tnum' \in Tests /\ retry' \in 0 .. MAX_RETRY
      /\ \/ apc' = "exit" /\ tnum' = tnum
         \/ apc' \in {"begin", "connect"} /\ tnum' = tnum + 1
  BY <1>1, NextTestType
<1>11. FilesBeforeTest'
  <2>1. \A q \in tsv : q[1] < tnum /\ q[1] \in Int
    BY SuiteLength DEF AnaInv, AnaTypeOK, FilesBeforeTest, Concluded
  <2>2. tnum \in Int
    BY <1>1, SuiteLength
  <2> QED
    BY <1>1, <1>5, <1>6, <2>1, <2>2 DEF FilesBeforeTest, Concluded
<1>7. LoggerOnTest'
  BY <1>6 DEF LoggerOnTest, Measuring
<1>8. WindowOpen'
  BY <1>4, <1>6 DEF WindowOpen
<1>9. AnaTypeOK'
  <2>1. logTest' \in 0 .. Len(Suite) /\ sysTest' \in 0 .. Len(Suite)
    BY <1>1, SuiteLength
  <2> QED
    BY <1>4, <1>5, <1>6, <2>1 DEF AnaTypeOK
<1>10. EnvTypeOK'
  BY DEF EnvTypeOK, netVars
<1> QED
  BY <1>4, <1>5, <1>7, <1>8, <1>9, <1>10, <1>11 DEF AnaInv

\* The three ends of an attempt at which run_test may write a record.
LEMMA ConcludingStep ==
  ASSUME AnaInv, EnvTypeOK,
         \/ WaitDone \/ GraceDone
         \/ GraceTimeout /\ retry = MAX_RETRY
  PROVE  AnaInv' /\ EnvTypeOK'
<1>1. /\ clock \in Nat /\ retry \in 0 .. MAX_RETRY
      /\ g_done \in BOOLEAN /\ g_test_start_ts \in Nat /\ g_test_end_ts \in Nat
      /\ g_nonce \in Nat /\ test_success \in -1 .. MAX_RETRY
  BY DEF EnvTypeOK, AnaInv, AnaTypeOK
<1>2. CASE WaitDone
  <2>1. g_test_start_ts <= clock /\ clock' \in Nat /\ clock <= clock'
    BY <1>1, <1>2 DEF WaitDone, Tick, AnaInv, WindowOpen
  <2>2. retry \in -1 .. MAX_RETRY
    BY <1>1, MaxRetryAssumption
  <2>3. WriteMeta(g_test_start_ts, clock, retry) /\ NextTest /\ Commit
    BY <1>2 DEF WaitDone, EndWindow, WriteMeta
  <2>4. /\ UNCHANGED netVars /\ logTest' = logTest /\ apc = "wait" /\ sysTest' = 0
        /\ g_done' = g_done /\ g_test_start_ts' = g_test_start_ts
        /\ g_test_end_ts' = clock /\ g_nonce' = g_nonce /\ test_success' = retry
    BY <1>2 DEF WaitDone, EndWindow
  <2> QED
    BY <1>1, <2>1, <2>2, <2>3, <2>4, AttemptConcluded
<1>3. CASE GraceDone
  <2>1. /\ g_test_start_ts <= g_test_end_ts /\ g_test_end_ts <= clock
        /\ clock' = clock /\ UNCHANGED netVars
    BY <1>3 DEF GraceDone, envVars, netVars, AnaInv, WindowOpen
  <2>2. /\ WriteMeta(g_test_start_ts, g_test_end_ts, test_success) /\ NextTest
        /\ Flush /\ UNCHANGED <<tsv, files>>
    BY <1>3 DEF GraceDone, ReturnLate
  <2>3. /\ logTest' = logTest /\ apc = "grace" /\ sysTest' = 0
        /\ g_done' = g_done /\ g_test_start_ts' = g_test_start_ts
        /\ g_test_end_ts' = g_test_end_ts /\ g_nonce' = g_nonce
        /\ test_success' = test_success
    BY <1>3 DEF GraceDone
  <2> QED
    BY <1>1, <2>1, <2>2, <2>3, AttemptConcluded
<1>4. CASE GraceTimeout /\ retry = MAX_RETRY
  <2>1. /\ g_test_start_ts <= g_test_end_ts /\ g_test_end_ts <= clock
        /\ clock' = clock /\ UNCHANGED netVars
    BY <1>4 DEF GraceTimeout, envVars, netVars, AnaInv, WindowOpen
  <2>2. -1 \in -1 .. MAX_RETRY
    BY MaxRetryAssumption
  <2>3. ~(retry < MAX_RETRY)
    BY <1>4, MaxRetryAssumption
  <2>4. /\ WriteMeta(g_test_start_ts, g_test_end_ts, -1) /\ NextTest /\ Commit
        /\ test_success' = -1
    BY <1>4, <2>3 DEF GraceTimeout
  <2>5. /\ logTest' = logTest /\ apc = "grace" /\ sysTest' = 0
        /\ g_done' = g_done /\ g_test_start_ts' = g_test_start_ts
        /\ g_test_end_ts' = g_test_end_ts /\ g_nonce' = g_nonce
    BY <1>4 DEF GraceTimeout
  <2> QED
    BY <1>1, <2>1, <2>2, <2>4, <2>5, AttemptConcluded
<1> QED
  BY <1>2, <1>3, <1>4

\* A step that leaves the records alone and keeps the rows on their topic.
LEMMA RecordsAlone ==
  ASSUME AnaInv, UNCHANGED <<meta, tsv>>, AnaTypeOK', LoggerOnTest', HeldOnTopic',
         MetaBeforeTest', FilesBeforeTest', WindowOpen',
         spoiled \ {tnum} \subseteq spoiled', Ended => spoiled \subseteq spoiled'
  PROVE  AnaInv'
<1>1. TestsInOrder' /\ WindowsDisjoint'
  BY DEF AnaInv, TestsInOrder, WindowsDisjoint
<1>2. CommittedOnTopic'
  <2>1. tnum \in Int
    BY SuiteLength DEF AnaInv, AnaTypeOK
  <2>2. \A r \in tsv : r[1] # tnum \/ Ended
    BY <2>1 DEF AnaInv, FilesBeforeTest, Concluded
  <2> QED
    BY <2>2 DEF AnaInv, CommittedOnTopic, Topic
<1> QED
  BY <1>1, <1>2 DEF AnaInv

\* Steps that open and close connections.
LEMMA ConnectionStep ==
  ASSUME AnaInv, EnvTypeOK, Setup \/ Connect \/ Finish \/ Reconnect
  PROVE  AnaInv' /\ EnvTypeOK'
<1> USE DEF ConnectClients
<1>1. EnvTypeOK'
  <2>1. CASE Setup
    BY <2>1 DEF Setup, envVars, EnvTypeOK
  <2>2. CASE Connect \/ Finish \/ Reconnect
    BY <2>2, EmptyQueue DEF Connect, Finish, Reconnect, Drained, EnvTypeOK
  <2> QED
    BY <2>1, <2>2
<1>2. /\ UNCHANGED <<meta, tsv, files, inHand, rows, spoiled, logTest, g_done, g_test_start_ts>>
      /\ UNCHANGED <<g_test_end_ts, g_nonce, test_success, clock>>
      /\ sysTest' \in {0, sysTest} /\ spoiled' = spoiled
  BY DEF Setup, Connect, Finish, Reconnect, Drained, envVars
<1>3. HeldOnTopic'
  <2>1. apc # "begin"
    BY DEF Setup, Connect, Finish, Reconnect
  <2> QED
    BY <1>2, <2>1 DEF AnaInv, HeldOnTopic, Topic
<1>4. /\ tnum \in Tests /\ retry \in 0 .. MAX_RETRY
      /\ \A j \in DOMAIN meta : meta[j].test \in Int
      /\ \A r \in tsv : r[1] \in Int
  BY MetaTypes, SuiteLength DEF AnaInv, AnaTypeOK
<1>5. /\ tnum' \in Tests /\ retry' \in 0 .. MAX_RETRY
      /\ apc' \in {"connect", "begin", "failed", "retry", "exit", "stopped"}
      /\ \A t \in Int : Concluded(t) => Concluded(t)'
  <2> USE DEF Concluded
  <2>1. CASE Setup \/ Connect
    <3>2. tnum \in Int
      BY <1>4, SuiteLength
    <3> QED
      BY <1>2, <1>4, <2>1, <3>2 DEF Setup, Connect
  <2>2. CASE Finish
    BY <1>2, <1>4, <2>2 DEF Finish
  <2>3. CASE Reconnect
    <3>1. apc = "reconnect"
      BY <2>3 DEF Reconnect
    <3>2. CASE apc' = "begin" /\ UNCHANGED <<tnum, retry>>
      BY <1>2, <1>4, <3>1, <3>2
    <3>3. CASE retry < MAX_RETRY /\ NextAttempt
      BY <1>2, <1>4, <3>1, <3>3, MaxRetryAssumption DEF NextAttempt
    <3>4. CASE NextTest
      <4>1. tnum \in Int
        BY <1>4, SuiteLength
      <4>2. /\ tnum' \in Tests /\ retry' \in 0 .. MAX_RETRY
            /\ \/ apc' = "exit" /\ tnum' = tnum
               \/ apc' \in {"begin", "connect"} /\ tnum' = tnum + 1
        BY <1>4, <3>4, NextTestType
      <4> QED
        BY <1>2, <1>4, <3>1, <4>1, <4>2
    <3> QED
      BY <2>3, <3>2, <3>3, <3>4 DEF Reconnect, Continue
  <2> QED
    BY <2>1, <2>2, <2>3
<1>6. LoggerOnTest'
  BY <1>5 DEF LoggerOnTest, Measuring
<1>7. WindowOpen'
  BY <1>2, <1>5 DEF AnaInv, WindowOpen
<1>8. AnaTypeOK'
  BY <1>2, <1>5, SuiteLength DEF AnaInv, AnaTypeOK
<1>9. MetaBeforeTest' /\ FilesBeforeTest'
  BY <1>2, <1>4, <1>5 DEF AnaInv, MetaBeforeTest, FilesBeforeTest
<1> QED
  BY <1>1, <1>2, <1>3, <1>6, <1>7, <1>8, <1>9, RecordsAlone

\* Setting the logger's test: either nothing is held or in hand, or the test is spoiled.
LEMMA SetTestHolds ==
  ASSUME AnaInv, tnum \in Tests, SetTest(tnum), UNCHANGED tnum, ~Ended
  PROVE  /\ logTest' = tnum /\ rows' \subseteq Messages /\ inHand' \subseteq Messages
         /\ spoiled' \subseteq Tests /\ HeldOnTopic'
         /\ spoiled \ {tnum} \subseteq spoiled'
<1>1. CASE Overlapping
  BY <1>1 DEF SetTest, Overlapping, Left, AnaInv, AnaTypeOK, HeldOnTopic
<1>2. CASE ~Overlapping
  BY <1>2 DEF SetTest, Overlapping, Left, AnaInv, AnaTypeOK, HeldOnTopic
<1> QED
  BY <1>1, <1>2

\* Nothing concludes a test or takes that back while main() goes on with it.
LEMMA NotConcluded ==
  ASSUME AnaInv, UNCHANGED <<tnum, meta, tsv>>, ~Ended, ~Ended'
  PROVE  MetaBeforeTest' /\ FilesBeforeTest'
  BY DEF AnaInv, MetaBeforeTest, FilesBeforeTest, Concluded

\* Steps from the parameters to the timeout.
LEMMA AttemptStep ==
  ASSUME AnaInv, EnvTypeOK,
         \/ Begin \/ Stamp \/ Launch \/ WaitTimeout \/ RetryReset
         \/ GraceTimeout /\ retry < MAX_RETRY
  PROVE  AnaInv' /\ EnvTypeOK'
<1>1. /\ tnum \in Tests /\ logTest \in 0 .. Len(Suite) /\ retry \in 0 .. MAX_RETRY
      /\ clock \in Nat /\ toPub \in Seq(Requests) /\ g_test_start_ts \in Nat
      /\ meta \in Seq(MetaRows)
  BY DEF AnaInv, AnaTypeOK, EnvTypeOK
<1>2. /\ DOMAIN meta = 1 .. Len(meta)
      /\ \A j \in DOMAIN meta : meta[j].test \in Int /\ meta[j].end \in Int
  BY <1>1, MetaTypes
<1> USE <1>1
<1>3. CASE Begin
  <2>1. toPub' \in Seq(Requests)
    <3> DEFINE r == [k \in Fields |-> Param(k, Topic(tnum)[k])]
    <3>1. Send(r)
      BY <1>3 DEF Begin
    <3>2. r \in Seq(Requests)
      BY RequestType
    <3> HIDE DEF r
    <3> QED
      BY <3>1, <3>2, SendType
  <2>2. EnvTypeOK'
    BY <1>3, <2>1 DEF Begin, Tick, EnvTypeOK
  <2>6. /\ logTest' = tnum /\ rows' \subseteq Messages /\ inHand' \subseteq Messages
        /\ spoiled' \subseteq Tests /\ HeldOnTopic'
        /\ spoiled \ {tnum} \subseteq spoiled' /\ ~Ended
    BY <1>3, SetTestHolds DEF Begin
  <2>3. AnaTypeOK'
    BY <1>3, <2>6, SuiteLength DEF Begin, AnaInv, AnaTypeOK
  <2>4. LoggerOnTest'
    BY <1>3, <2>6 DEF Begin, LoggerOnTest
  <2>5. MetaBeforeTest' /\ FilesBeforeTest' /\ UNCHANGED <<meta, tsv>>
    BY <1>3, NotConcluded DEF Begin
  <2>7. WindowOpen'
    BY <1>2, <1>3 DEF Begin, Tick, AnaInv, WindowOpen
  <2> QED
    BY <2>2, <2>3, <2>4, <2>5, <2>6, <2>7, RecordsAlone
<1>4. CASE Stamp
  <2>1. EnvTypeOK'
    BY <1>4 DEF Stamp, Tick, netVars, EnvTypeOK
  <2>2. AnaTypeOK'
    BY <1>4 DEF Stamp, Tick, AnaInv, AnaTypeOK
  <2>5. MetaBeforeTest' /\ FilesBeforeTest' /\ spoiled' = spoiled
    BY <1>4, NotConcluded DEF Stamp
  <2>3. LoggerOnTest' /\ HeldOnTopic'
    BY <1>4 DEF Stamp, AnaInv, LoggerOnTest, Measuring, HeldOnTopic, Topic
  <2>4. WindowOpen' /\ UNCHANGED <<meta, tsv>>
    BY <1>2, <1>4 DEF Stamp, Tick, AnaInv, WindowOpen
  <2> QED
    BY <2>1, <2>2, <2>3, <2>4, <2>5, RecordsAlone
<1>5. CASE Launch
  <2>1. toPub' \in Seq(Requests)
    <3> DEFINE r == <<Start(g_test_start_ts)>>
    <3>1. Send(r)
      BY <1>5 DEF Launch
    <3>2. r \in Seq(Requests)
      BY RequestType
    <3> HIDE DEF r
    <3> QED
      BY <3>1, <3>2, SendType
  <2>2. EnvTypeOK'
    BY <1>5, <2>1 DEF Launch, Tick, EnvTypeOK
  <2>3. AnaTypeOK'
    BY <1>5 DEF Launch, AnaInv, AnaTypeOK
  <2>4. LoggerOnTest' /\ HeldOnTopic'
    BY <1>5 DEF Launch, AnaInv, LoggerOnTest, Measuring, HeldOnTopic, Topic
  <2>5. WindowOpen' /\ UNCHANGED <<meta, tsv>>
    BY <1>2, <1>5 DEF Launch, Tick, AnaInv, WindowOpen
  <2>6. MetaBeforeTest' /\ FilesBeforeTest' /\ spoiled' = spoiled
    BY <1>5, NotConcluded DEF Launch
  <2> QED
    BY <2>2, <2>3, <2>4, <2>5, <2>6, RecordsAlone
<1>6. CASE WaitTimeout
  <2>1. toPub' \in Seq(Requests)
    BY <1>6, RequestType, SendType DEF WaitTimeout
  <2>2. EnvTypeOK'
    BY <1>6, <2>1 DEF WaitTimeout, Tick, EnvTypeOK
  <2>3. AnaTypeOK'
    BY <1>6 DEF WaitTimeout, EndWindow, AnaInv, AnaTypeOK
  <2>4. LoggerOnTest' /\ HeldOnTopic'
    BY <1>6 DEF WaitTimeout, AnaInv, LoggerOnTest, Measuring, HeldOnTopic, Topic
  <2>5. WindowOpen' /\ UNCHANGED <<meta, tsv>>
    BY <1>2, <1>6 DEF WaitTimeout, EndWindow, Tick, AnaInv, WindowOpen
  <2>6. MetaBeforeTest' /\ FilesBeforeTest' /\ spoiled' = spoiled
    BY <1>6, NotConcluded DEF WaitTimeout
  <2> QED
    BY <2>2, <2>3, <2>4, <2>5, <2>6, RecordsAlone
<1>7. CASE RetryReset
  <2>1. toPub' \in Seq(Requests)
    BY <1>7, RequestType, SendType DEF RetryReset
  <2>2. EnvTypeOK'
    BY <1>7, <2>1 DEF RetryReset, EnvTypeOK
  <2>6. /\ logTest' = tnum /\ rows' \subseteq Messages /\ inHand' \subseteq Messages
        /\ spoiled' \subseteq Tests /\ HeldOnTopic'
        /\ spoiled \ {tnum} \subseteq spoiled' /\ ~Ended
    BY <1>7, SetTestHolds DEF RetryReset
  <2>3. AnaTypeOK'
    BY <1>7, <2>6, SuiteLength DEF RetryReset, AnaInv, AnaTypeOK
  <2>4. LoggerOnTest'
    BY <1>7 DEF RetryReset, LoggerOnTest, Measuring
  <2>5. MetaBeforeTest' /\ FilesBeforeTest' /\ UNCHANGED <<meta, tsv>>
    BY <1>7, NotConcluded DEF RetryReset
  <2>7. WindowOpen'
    BY <1>2, <1>7 DEF RetryReset, AnaInv, WindowOpen
  <2> QED
    BY <2>2, <2>3, <2>4, <2>5, <2>6, <2>7, RecordsAlone
<1>8. CASE GraceTimeout /\ retry < MAX_RETRY
  <2>1. retry # MAX_RETRY
    BY <1>8, MaxRetryAssumption
  <2>2. /\ apc = "grace" /\ apc' = "retry" /\ retry' = retry + 1 /\ sysTest' = 0
        /\ UNCHANGED <<tnum, test_success, meta, tsv, files, g_done, logTest>>
        /\ UNCHANGED <<g_test_start_ts, g_test_end_ts, g_nonce>>
        /\ UNCHANGED envVars
        /\ Flush
    BY <1>8, <2>1 DEF GraceTimeout, NextAttempt
  <2>3. retry' \in 0 .. MAX_RETRY
    BY <1>8, <2>2, MaxRetryAssumption
  <2>4. EnvTypeOK'
    BY <2>2 DEF envVars, EnvTypeOK
  <2>8. logTest \in Tests
    BY <2>2 DEF AnaInv, LoggerOnTest, Measuring
  <2>9. /\ rows' \subseteq Messages /\ inHand' \subseteq Messages
        /\ spoiled' \subseteq Tests /\ HeldOnTopic'
    BY <2>2, <2>8, CommitOnTopic
  <2>10. spoiled \ {tnum} \subseteq spoiled' /\ ~Ended
    BY <2>2 DEF Flush
  <2>5. AnaTypeOK'
    BY <2>2, <2>3, <2>9, SuiteLength DEF AnaInv, AnaTypeOK
  <2>6. LoggerOnTest'
    BY <2>2 DEF LoggerOnTest, Measuring
  <2>7. MetaBeforeTest' /\ FilesBeforeTest'
    BY <2>2, NotConcluded
  <2>11. WindowOpen'
    BY <2>2 DEF envVars, AnaInv, WindowOpen
  <2> QED
    BY <2>2, <2>4, <2>5, <2>6, <2>7, <2>9, <2>10, <2>11, RecordsAlone
<1> QED
  BY <1>3, <1>4, <1>5, <1>6, <1>7, <1>8

\* Callbacks.
LEMMA CallbackStep ==
  ASSUME AnaInv, EnvTypeOK, OnDone \/ OnCounter \/ LogRow
  PROVE  AnaInv' /\ EnvTypeOK'
<1>0. /\ MetaBeforeTest' /\ FilesBeforeTest' /\ WindowOpen'
      /\ UNCHANGED <<meta, tsv>> /\ spoiled' = spoiled
  BY DEF OnDone, OnCounter, LogRow, envVars, AnaInv, MetaBeforeTest, FilesBeforeTest,
         Concluded, WindowOpen
<1>1. CASE OnDone
  <2>1. EnvTypeOK'
    BY <1>1, QueueHead DEF OnDone, EnvTypeOK
  <2>2. g_done' \in BOOLEAN
    BY <1>1 DEF OnDone, AnaInv, AnaTypeOK
  <2>3. AnaTypeOK'
    BY <1>1, <2>2 DEF OnDone, AnaInv, AnaTypeOK
  <2>4. LoggerOnTest' /\ HeldOnTopic'
    BY <1>1 DEF OnDone, AnaInv, LoggerOnTest, Measuring, HeldOnTopic, Topic
  <2> QED
    BY <1>0, <2>1, <2>3, <2>4, RecordsAlone
<1>2. CASE OnCounter
  <2>1. Head(toData) \in Messages /\ Tail(toData) \in Seq(Messages)
    BY <1>2, QueueHead DEF OnCounter, EnvTypeOK
  <2>2. EnvTypeOK'
    BY <1>2, <2>1 DEF OnCounter, EnvTypeOK
  <2>3. inHand' \subseteq Messages
    BY <1>2, <2>1 DEF OnCounter
  <2>4. AnaTypeOK'
    BY <1>2, <2>3 DEF OnCounter, AnaInv, AnaTypeOK
  <2>5. LoggerOnTest'
    BY <1>2 DEF OnCounter, AnaInv, LoggerOnTest, Measuring
  <2>6. HeldOnTopic'
    <3> SUFFICES ASSUME apc # "begin", logTest \notin spoiled
                 PROVE  \A m \in rows \cup inHand' : m.topic = Topic(logTest)
      BY <1>2 DEF OnCounter, HeldOnTopic, Topic
    <3>1. Topic(logTest) \in Topics
      BY TopicType DEF AnaInv, AnaTypeOK
    <3>2. \A topic \in TopicsRead : topic = Topic(logTest)
      BY <3>1 DEF TopicsRead, Topics
    <3>3. \A m \in inHand' : m.topic = Topic(logTest)
      BY <1>2, <3>2 DEF OnCounter, Recorded
    <3> QED
      BY <3>3 DEF AnaInv, HeldOnTopic
  <2> QED
    BY <1>0, <2>2, <2>4, <2>5, <2>6, RecordsAlone
<1>3. CASE LogRow
  <2>1. EnvTypeOK'
    BY <1>3 DEF LogRow, envVars, EnvTypeOK
  <2>2. rows' \subseteq rows \cup inHand /\ inHand' = {}
    BY <1>3 DEF LogRow
  <2>3. AnaTypeOK'
    BY <1>3, <2>2 DEF LogRow, AnaInv, AnaTypeOK
  <2>4. LoggerOnTest' /\ HeldOnTopic'
    BY <1>3, <2>2 DEF LogRow, AnaInv, LoggerOnTest, Measuring, HeldOnTopic, Topic
  <2> QED
    BY <1>0, <2>1, <2>3, <2>4, RecordsAlone
<1> QED
  BY <1>1, <1>2, <1>3

-----------------------------------------------------------------------------
(* The invariant.                                                          *)

\* Every step of the two programs and of the environment keeps the invariant.
LEMMA Inductive == IndInv /\ [Next]_vars => IndInv'
<1> SUFFICES ASSUME IndInv, [Next]_vars PROVE IndInv'
  OBVIOUS
<1>1. TypeOK /\ AnaInv /\ EnvTypeOK /\ PubTypeOK
  BY DEF IndInv, TypeOK, AnaInv
<1>2. ASSUME EnvTypeOK', PubTypeOK', AnaInv'
      PROVE  IndInv'
  BY <1>2 DEF IndInv, TypeOK, AnaInv
<1>3. ASSUME UNCHANGED pubVars PROVE PubTypeOK'
  BY <1>1, <1>3 DEF pubVars, PubTypeOK
<1>4. CASE AnaMain /\ UNCHANGED pubVars
  <2>1. AnaInv' /\ EnvTypeOK'
    <3>1. CASE WaitDone \/ GraceDone \/ (GraceTimeout /\ retry = MAX_RETRY)
      BY <1>1, <3>1, ConcludingStep
    <3>2. CASE Setup \/ Connect \/ Finish \/ Reconnect
      BY <1>1, <3>2, ConnectionStep
    <3>3. CASE \/ Begin \/ Stamp \/ Launch \/ WaitTimeout \/ RetryReset
               \/ GraceTimeout /\ retry < MAX_RETRY
      BY <1>1, <3>3, AttemptStep
    <3>4. GraceTimeout => retry < MAX_RETRY \/ retry = MAX_RETRY
      BY DEF GraceTimeout
    <3> QED
      BY <1>4, <3>1, <3>2, <3>3, <3>4 DEF AnaMain
  <2> QED
    BY <1>2, <1>3, <1>4, <2>1
<1>5. CASE AnaCallbacks /\ UNCHANGED pubVars
  BY <1>1, <1>2, <1>3, <1>5, CallbackStep DEF AnaCallbacks
<1>6. CASE (PubMain \/ OnRequest) /\ UNCHANGED anaVars
  BY <1>1, <1>2, <1>6, PublisherStep, AnalyserAlone
<1>7. CASE EnvNext /\ UNCHANGED <<pubVars, anaVars>>
  BY <1>1, <1>2, <1>3, <1>7, EnvironmentStep, AnalyserAlone
<1>8. CASE UNCHANGED vars
  <2>1. EnvTypeOK' /\ clock' = clock
    BY <1>1, <1>8 DEF vars, envVars, EnvTypeOK
  <2> QED
    BY <1>1, <1>2, <1>3, <1>8, <2>1, AnalyserAlone DEF vars
<1> QED
  BY <1>4, <1>5, <1>6, <1>7, <1>8 DEF Next, Terminated

\* Bench stays within IndInv.
THEOREM Invariance == Spec => []IndInv
  BY Initially, Inductive, PTL DEF Spec

\* Every variable keeps its type, for every suite, bound and set of faults: in
\* particular run_test counts at most MAX_RETRY retries and never runs past the
\* last test.
THEOREM TypeCorrect == Spec => []TypeOK
<1>1. IndInv => TypeOK
  BY DEF IndInv
<1> QED
  BY <1>1, Invariance, PTL

\* test_timestamps.tsv has at most one row for a test, in the order of the suite.
THEOREM OneRowPerTest == Spec => []TestsInOrder
<1>1. IndInv => TestsInOrder
  BY DEF IndInv
<1> QED
  BY <1>1, Invariance, PTL

\* The recorded windows do not end before they start, and do not overlap.
THEOREM SeparateWindows == Spec => []WindowsDisjoint
<1>1. IndInv => WindowsDisjoint
  BY DEF IndInv
<1> QED
  BY <1>1, Invariance, PTL

\* A committed row has the topic of the test whose file it is in, unless one of the
\* calls for that test overlapped the callback.
THEOREM FilesOnTopic == Spec => []CommittedOnTopic
<1>1. IndInv => CommittedOnTopic
  BY DEF IndInv
<1> QED
  BY <1>1, Invariance, PTL

-----------------------------------------------------------------------------
(* How far main() is from its end.                                         *)

\* The steps that main() may still take: in the attempt in hand, and eleven in each of the
\* attempts that are left to this test and to those that follow.
PhaseLeft ==
  [setup |-> 10, connect |-> 9, retry |-> 8, reconnect |-> 7, begin |-> 6, settle |-> 5,
   stamp |-> 4, wait |-> 3, grace |-> 2, exit |-> 1, stopped |-> 0, failed |-> 0]
AttemptsLeft == (Len(Suite) - tnum) * (MAX_RETRY + 1) + (MAX_RETRY - retry)
StepsLeft    == 11 * AttemptsLeft + PhaseLeft[apc]

\* The numbers of steps and attempts left.
LEMMA LeftTypes ==
  ASSUME TypeOK
  PROVE  AttemptsLeft \in Nat /\ PhaseLeft[apc] \in 0 .. 10 /\ StepsLeft \in Nat
<1>1. Len(Suite) - tnum \in Nat /\ MAX_RETRY - retry \in Nat /\ MAX_RETRY + 1 \in Nat
  BY SuiteLength, MaxRetryAssumption DEF TypeOK, AnaTypeOK, Tests
<1>2. \A a, b, c \in Nat : a * b + c \in Nat
  OBVIOUS
<1>3. AttemptsLeft \in Nat
  BY <1>1, <1>2 DEF AttemptsLeft
<1>4. PhaseLeft[apc] \in 0 .. 10
  BY DEF TypeOK, AnaTypeOK, PhaseLeft
<1> QED
  BY <1>3, <1>4 DEF StepsLeft

\* A step within the attempt in hand.
LEMMA WithinAttempt ==
  ASSUME TypeOK, UNCHANGED <<tnum, retry>>, PhaseLeft[apc'] < PhaseLeft[apc],
         PhaseLeft[apc'] \in 0 .. 10
  PROVE  StepsLeft' < StepsLeft
<1>1. AttemptsLeft' = AttemptsLeft /\ PhaseLeft' = PhaseLeft
  BY DEF AttemptsLeft, PhaseLeft
<1> QED
  BY <1>1, LeftTypes DEF StepsLeft

\* A step to a further attempt.
LEMMA ToNextAttempt ==
  ASSUME TypeOK, NextAttempt
  PROVE  StepsLeft' < StepsLeft
<1>1. AttemptsLeft' = AttemptsLeft - 1
  <2> DEFINE left == (Len(Suite) - tnum) * (MAX_RETRY + 1)
  <2>1. left' = left /\ left \in Int
    BY SuiteLength, MaxRetryAssumption DEF NextAttempt, TypeOK, AnaTypeOK, Tests
  <2> HIDE DEF left
  <2>2. AttemptsLeft = left + (MAX_RETRY - retry) /\ AttemptsLeft' = left' + (MAX_RETRY - retry')
    BY DEF AttemptsLeft, left
  <2> QED
    BY <2>1, <2>2, MaxRetryAssumption DEF NextAttempt, TypeOK, AnaTypeOK
<1>2. (PhaseLeft[apc])' = 8
  BY DEF NextAttempt, PhaseLeft
<1> QED
  BY <1>1, <1>2, LeftTypes DEF StepsLeft

\* A step to the next test, or past the last.
LEMMA ToNextTest ==
  ASSUME TypeOK, NextTest, apc \in {"wait", "grace", "reconnect"}
  PROVE  StepsLeft' < StepsLeft
<1>1. CASE tnum = Len(Suite)
  <2>1. apc' = "exit" /\ UNCHANGED <<tnum, retry>>
    BY <1>1 DEF NextTest
  <2>2. PhaseLeft[apc'] = 1 /\ PhaseLeft[apc] > 1
    BY <2>1 DEF PhaseLeft
  <2> QED
    BY <2>1, <2>2, WithinAttempt
<1>2. CASE tnum # Len(Suite)
  <2>1. tnum' = tnum + 1 /\ retry' = 0 /\ apc' \in {"begin", "connect"}
    BY <1>2 DEF NextTest, FirstAttempt
  <2>2. AttemptsLeft' <= AttemptsLeft - 1 /\ AttemptsLeft' \in Int
    <3> DEFINE left == Len(Suite) - tnum   each == MAX_RETRY + 1
    <3>1. left \in Int /\ left' = left - 1 /\ each \in Int /\ retry \in 0 .. MAX_RETRY
      BY <2>1, SuiteLength, MaxRetryAssumption DEF TypeOK, AnaTypeOK, Tests
    <3>2. AttemptsLeft = left * each + (MAX_RETRY - retry)
          /\ AttemptsLeft' = left' * each + MAX_RETRY
      BY <2>1, MaxRetryAssumption DEF AttemptsLeft
    <3>3. \A a, b \in Int : (a - 1) * b = a * b - b /\ a * b \in Int
      OBVIOUS
    <3>4. left' * each = left * each - each /\ left * each \in Int
      BY <3>1, <3>3
    <3> QED
      BY <3>1, <3>2, <3>4, MaxRetryAssumption
  <2>3. (PhaseLeft[apc])' \in {6, 9}
    BY <2>1 DEF PhaseLeft
  <2> QED
    BY <2>2, <2>3, LeftTypes DEF StepsLeft
<1> QED
  BY <1>1, <1>2

\* Every step of main() is one of those that were left.
LEMMA StepTaken ==
  ASSUME TypeOK, AnaMain
  PROVE  StepsLeft' < StepsLeft
<1>1. \/ NextAttempt
      \/ NextTest /\ apc \in {"wait", "grace", "reconnect"}
      \/ UNCHANGED <<tnum, retry>> /\ PhaseLeft[apc'] < PhaseLeft[apc]
         /\ PhaseLeft[apc'] \in 0 .. 10
  <2> USE DEF PhaseLeft
  <2>1. CASE Setup \/ Connect \/ Begin \/ Stamp \/ Launch \/ WaitTimeout \/ RetryReset \/ Finish
    BY <2>1 DEF Setup, Connect, ConnectClients, Begin, Stamp, Launch, WaitTimeout, RetryReset,
                Finish
  <2>2. CASE WaitDone \/ GraceDone \/ GraceTimeout
    BY <2>2 DEF WaitDone, GraceDone, ReturnLate, GraceTimeout
  <2>3. CASE Reconnect
    BY <2>3 DEF Reconnect, ConnectClients, Continue
  <2> QED
    BY <2>1, <2>2, <2>3 DEF AnaMain
<1> QED
  BY <1>1, ToNextAttempt, ToNextTest, WithinAttempt

\* The suite runs down, for every suite and MAX_RETRY and under every fault: each step of main()
\* takes one from the number of steps that are left, and nothing else adds to it.  Whatever is
\* lost, late or broken, main() makes no more than 11 * Len(Suite) * (MAX_RETRY + 1) steps.
THEOREM SuiteRunsDown ==
  Spec => /\ [](StepsLeft \in Nat)
          /\ [][/\ AnaMain => StepsLeft' < StepsLeft
                /\ ~AnaMain => UNCHANGED StepsLeft]_vars
<1>1. TypeOK => StepsLeft \in Nat
  BY LeftTypes
<1>2. TypeOK /\ [Next]_vars => [/\ AnaMain => StepsLeft' < StepsLeft
                                /\ ~AnaMain => UNCHANGED StepsLeft]_vars
  <2> SUFFICES ASSUME TypeOK, Next, ~AnaMain
               PROVE  UNCHANGED StepsLeft
    BY StepTaken
  <2>1. UNCHANGED <<apc, tnum, retry>>
    BY DEF Next, AnaCallbacks, OnDone, OnCounter, LogRow, Terminated, vars, anaVars
  <2> QED
    BY <2>1 DEF StepsLeft, AttemptsLeft, PhaseLeft
<1> QED
  BY <1>1, <1>2, TypeCorrect, PTL DEF Spec

=============================================================================
