----------------------------- MODULE TimelyProofs -----------------------------
(***************************************************************************)
(* Proofs about the test bench in an environment that is not "slow", on    *)
(* top of the invariants of BenchProofs and NonceProofs: what a success    *)
(* recorded in test_timestamps.tsv means, what is in the file of a         *)
(* successful test, and that the report tells the truth about it.  They    *)
(* hold for every suite, number of retries, length of a burst and set of   *)
(* the other faults, except where a theorem says otherwise.                *)
(***************************************************************************)
EXTENDS NonceProofs, Report

USE DEF shared, burstVars, stamps, store, Over, Ended

-----------------------------------------------------------------------------
(* The phases of an attempt.                                               *)

\* Outside of the wait for "done" the publisher is idle, and neither a "start" nor a
\* "done" is on its way.
Quiet ==
  apc # "wait" =>
    /\ ppc = "poll" /\ ~g_start /\ toCtrl = << >>
    /\ \A k \in DOMAIN toPub : toPub[k].kind # "start"
    /\ apc \in {"settle", "stamp", "grace"} => ~g_done
    /\ apc \in {"setup", "connect", "begin", "retry"} => toPub = << >>

\* During the wait there is one thing at most of: the "start" on its way, the start
\* accepted, the burst, the "done" on its way and the "done" received; and it is of
\* the attempt under way.
OneAnswer ==
  apc = "wait" =>
    /\ \A k \in DOMAIN toPub : toPub[k].kind = "start" => toPub[k].nonce = g_nonce
    /\ g_start => ppc = "poll" /\ g_start_nonce = g_nonce
    /\ ppc # "poll" => launch = g_nonce
    /\ g_start \/ ppc # "poll" => toCtrl = << >> /\ ~g_done
    /\ toCtrl # << >> => toCtrl = <<g_nonce>> /\ ~g_done
    /\ toCtrl # << >> \/ g_done => g_start_nonce = g_nonce

PhaseInv == Quiet /\ OneAnswer

\* What is left of the requests after one of them, or all, are gone.
LEMMA Remaining ==
  ASSUME toPub \in Seq(Requests),
         \/ UNCHANGED toPub
         \/ toPub' = << >>
         \/ toPub # << >> /\ toPub' = Tail(toPub)
  PROVE  \A k \in DOMAIN toPub' : \E j \in DOMAIN toPub : toPub'[k] = toPub[j]
<1>1. CASE UNCHANGED toPub \/ toPub' = << >>
  BY <1>1
<1>2. CASE toPub # << >> /\ toPub' = Tail(toPub)
  BY <1>2, QueueTail
<1> QED
  BY <1>1, <1>2

\* Steps of main() of the analyser that publish nothing.
LEMMA SilentPhases ==
  ASSUME "slow" \notin Faults, TypeOK, NonceInv, PhaseInv, UNCHANGED pubVars,
         \/ Setup \/ Connect \/ Finish \/ Stamp \/ WaitDone \/ GraceDone
         \/ Settled /\ GraceTimeout
         \/ Settled /\ Reconnect
  PROVE  PhaseInv'
<1> USE DEF PhaseInv
<1>1. UNCHANGED <<ppc, g_start>>
  BY DEF pubVars
<1>2. UNCHANGED toPub /\ (UNCHANGED toCtrl \/ toCtrl' = << >>)
  BY DEF Setup, Connect, Reconnect, ConnectClients, Finish, Drained, Stamp, WaitDone,
         GraceDone, GraceTimeout, envVars, netVars
<1>3. ~GraceDone
  BY DEF Quiet, GraceDone
<1>4. ppc = "poll" /\ ~g_start /\ toCtrl = << >>
      /\ \A k \in DOMAIN toPub : toPub[k].kind # "start"
  <2>1. CASE WaitDone
    <3>1. apc = "wait" /\ g_done
      BY <2>1 DEF WaitDone
    <3>2. g_start_nonce = g_nonce /\ ppc = "poll" /\ ~g_start /\ toCtrl = << >>
      BY <3>1 DEF OneAnswer
    <3>3. toPub = << >>
      BY <3>1, <3>2 DEF NonceInv, StartIsLast
    <3> QED
      BY <3>2, <3>3
  <2>2. CASE ~WaitDone
    BY <1>3, <2>2 DEF Quiet, Setup, Connect, Finish, Stamp, GraceTimeout, Reconnect
  <2> QED
    BY <2>1, <2>2
<1>5. /\ apc' \notin {"setup", "settle", "wait", "grace"}
      /\ apc' = "stamp" => ~g_done'
      /\ apc' \in {"connect", "begin", "retry"} => toPub = << >>
  <2>1. CASE Setup \/ Connect \/ Finish
    BY <2>1 DEF Setup, Connect, Finish, ConnectClients, Quiet
  <2>2. CASE Stamp
    BY <2>2 DEF Stamp, Quiet
  <2>3. CASE WaitDone
    <3>1. apc = "wait" /\ g_done /\ apc' \in {"exit", "begin", "connect"}
      BY <2>3 DEF WaitDone, NextTest
    <3>2. toPub = << >>
      BY <3>1 DEF OneAnswer, NonceInv, StartIsLast
    <3> QED
      BY <3>1, <3>2
  <2>4. CASE Settled /\ GraceTimeout
    BY <2>4 DEF Settled, GraceTimeout, NextAttempt, NextTest
  <2>5. CASE Settled /\ Reconnect
    BY <2>5 DEF Settled, Reconnect, ConnectClients, Continue, NextAttempt, NextTest
  <2> QED
    BY <1>3, <2>1, <2>2, <2>3, <2>4, <2>5
<1> QED
  BY <1>1, <1>2, <1>4, <1>5 DEF Quiet, OneAnswer

\* Steps of main() of the analyser that publish parameters or a "reset".
LEMMA RequestPhases ==
  ASSUME "slow" \notin Faults, TypeOK, NonceInv, PhaseInv, UNCHANGED pubVars,
         Begin \/ (Settled /\ WaitTimeout) \/ RetryReset
  PROVE  PhaseInv'
<1> USE DEF PhaseInv
<1>1. toPub = << >> /\ toCtrl = << >> /\ ppc = "poll" /\ ~g_start
  BY DEF Begin, RetryReset, Settled, Quiet
<1>2. UNCHANGED <<ppc, g_start, toCtrl>>
  BY DEF pubVars, Begin, WaitTimeout, RetryReset
<1>3. /\ apc' \in {"settle", "grace", "reconnect"}
      /\ ~g_done'
  BY DEF Begin, WaitTimeout, RetryReset
<1>4. \A k \in DOMAIN toPub' : toPub'[k].kind # "start"
  <2>1. ASSUME NEW r \in Seq(Requests), Send(r), \A k \in DOMAIN r : r[k].kind # "start"
        PROVE  \A k \in DOMAIN toPub' : toPub'[k].kind # "start"
    <3>1. toPub \in Seq(Requests)
      BY DEF TypeOK, EnvTypeOK
    <3> QED
      BY <1>1, <2>1, <3>1, QueueSent
  <2>2. CASE Begin
    <3> DEFINE r == [k \in Fields |-> Param(k, Topic(tnum)[k])]
    <3>1. Send(r)
      BY <2>2 DEF Begin
    <3>2. r \in Seq(Requests)
      BY RequestType DEF TypeOK, AnaTypeOK
    <3>3. \A k \in DOMAIN r : r[k].kind # "start"
      BY DEF Param
    <3> HIDE DEF r
    <3> QED
      BY <2>1, <3>1, <3>2, <3>3
  <2>3. CASE WaitTimeout \/ RetryReset
    <3> DEFINE r == <<Reset>>
    <3>1. Send(r)
      BY <2>3 DEF WaitTimeout, RetryReset
    <3>2. r \in Seq(Requests)
      BY RequestType
    <3>3. \A k \in DOMAIN r : r[k].kind # "start"
      BY DEF Reset
    <3> HIDE DEF r
    <3> QED
      BY <2>1, <3>1, <3>2, <3>3
  <2> QED
    BY <2>2, <2>3
<1> QED
  BY <1>1, <1>2, <1>3, <1>4 DEF Quiet, OneAnswer

\* The "start" goes out when nothing else is under way.
LEMMA LaunchPhase ==
  ASSUME TypeOK, PhaseInv, UNCHANGED pubVars, Launch
  PROVE  PhaseInv'
<1> USE DEF PhaseInv
<1>1. /\ ppc = "poll" /\ ~g_start /\ toCtrl = << >> /\ ~g_done
      /\ \A k \in DOMAIN toPub : toPub[k].kind # "start"
  BY DEF Launch, Quiet
<1>2. UNCHANGED <<ppc, g_start, toCtrl, g_done>> /\ apc' = "wait" /\ g_nonce' = g_test_start_ts
  BY DEF Launch, pubVars
<1>3. \A k \in DOMAIN toPub' : toPub'[k].kind = "start" => toPub'[k].nonce = g_nonce'
  <2> DEFINE r == <<Start(g_test_start_ts)>>
  <2>1. Send(r) /\ r \in Seq(Requests) /\ toPub \in Seq(Requests)
    BY RequestType DEF Launch, TypeOK, AnaTypeOK, EnvTypeOK
  <2>2. \A k \in DOMAIN r : r[k].nonce = g_test_start_ts
    BY DEF Start
  <2> HIDE DEF r
  <2> QED
    BY <1>1, <1>2, <2>1, <2>2, QueueSent
<1> QED
  BY <1>1, <1>2, <1>3 DEF Quiet, OneAnswer

\* Callbacks of the analyser.
LEMMA CallbackPhases ==
  ASSUME TypeOK, PhaseInv, UNCHANGED pubVars, OnDone \/ OnCounter \/ LogRow
  PROVE  PhaseInv'
<1> USE DEF PhaseInv
<1>1. UNCHANGED <<ppc, g_start, g_start_nonce, launch, toPub, apc, g_nonce>>
  BY DEF pubVars, OnDone, OnCounter, LogRow, envVars
<1>2. CASE OnDone
  <2>1. toCtrl # << >> /\ toCtrl' = Tail(toCtrl)
    BY <1>2 DEF OnDone
  <2>2. apc = "wait" /\ toCtrl = <<g_nonce>>
    BY <2>1 DEF Quiet, OneAnswer
  <2>3. toCtrl' = << >>
    BY <2>1, <2>2
  <2>4. g_start_nonce = g_nonce /\ ~g_start /\ ppc = "poll"
    BY <2>1, <2>2 DEF OneAnswer
  <2> QED
    BY <1>1, <2>2, <2>3, <2>4 DEF Quiet, OneAnswer
<1>3. CASE OnCounter \/ LogRow
  <2>1. UNCHANGED <<toCtrl, g_done>>
    BY <1>3 DEF OnCounter, LogRow, envVars
  <2> QED
    BY <1>1, <2>1 DEF Quiet, OneAnswer
<1> QED
  BY <1>2, <1>3

\* Steps of main() and run_burst() of the publisher.
LEMMA PublisherPhases ==
  ASSUME TypeOK, NonceInv, PhaseInv, PubMain, UNCHANGED anaVars
  PROVE  PhaseInv'
<1> USE DEF PhaseInv
<1>1. UNCHANGED <<apc, g_nonce, g_done, toPub, g_start_nonce>>
  BY DEF anaVars, envVars, PubMain, PollStart, SnapshotField, OpenBurst, PublishMessage,
         AbortBurst, EndBurst, SendDone
<1>2. apc = "wait"
  BY DEF Quiet, PubMain, PollStart, SnapshotField, OpenBurst, PublishMessage, AbortBurst,
         EndBurst, SendDone
<1>3. CASE PollStart
  <2>1. ppc' = "snapshot" /\ g_start' = FALSE /\ launch' = g_start_nonce /\ UNCHANGED toCtrl
    BY <1>3 DEF PollStart, envVars
  <2>2. g_start
    BY <1>3 DEF PollStart
  <2> QED
    BY <1>1, <1>2, <2>1, <2>2 DEF Quiet, OneAnswer
<1>4. CASE SnapshotField \/ OpenBurst \/ PublishMessage \/ AbortBurst \/ EndBurst
  <2>1. UNCHANGED <<g_start, launch, toCtrl>> /\ ppc # "poll" /\ ppc' # "poll"
    BY <1>4 DEF SnapshotField, OpenBurst, PublishMessage, AbortBurst, EndBurst, envVars
  <2> QED
    BY <1>1, <1>2, <2>1 DEF Quiet, OneAnswer
<1>5. CASE SendDone
  <2>1. /\ UNCHANGED <<g_start, launch>> /\ ppc = "done" /\ ppc' = "poll"
        /\ toCtrl' = toCtrl \/ toCtrl' = Append(toCtrl, g_start_nonce)
    BY <1>5 DEF SendDone
  <2>2. launch = g_nonce /\ ~g_start /\ toCtrl = << >> /\ ~g_done
    BY <1>2, <2>1 DEF OneAnswer
  <2>3. g_start_nonce = g_nonce
    BY <1>2, <2>2 DEF NonceInv, StartIsLast
  <2>4. toCtrl' = << >> \/ toCtrl' = <<g_nonce>>
    BY <2>1, <2>2, <2>3
  <2> QED
    BY <1>1, <1>2, <2>1, <2>2, <2>3, <2>4 DEF Quiet, OneAnswer
<1> QED
  BY <1>3, <1>4, <1>5 DEF PubMain

\* The callback of the publisher.
LEMMA RequestTaken ==
  ASSUME TypeOK, NonceInv, PhaseInv, OnRequest, UNCHANGED anaVars
  PROVE  PhaseInv'
<1> USE DEF PhaseInv
<1>1. /\ toPub \in Seq(Requests) /\ toPub # << >> /\ toPub' = Tail(toPub)
      /\ UNCHANGED <<apc, g_nonce, g_done, toCtrl, ppc, launch>>
  BY DEF anaVars, OnRequest, OnParam, OnStart, OnReset, Receive, TypeOK, EnvTypeOK
<1>2. \A k \in DOMAIN toPub' : \E j \in DOMAIN toPub : toPub'[k] = toPub[j]
  BY <1>1, Remaining
<1>3. Head(toPub) = toPub[1] /\ 1 \in DOMAIN toPub
  BY <1>1, QueueTail
<1>4. CASE OnStart
  <2>1. Head(toPub).kind = "start" /\ g_start_nonce' = Head(toPub).nonce /\ g_start' = TRUE
    BY <1>4 DEF OnStart, Receive
  <2>2. apc = "wait" /\ g_start_nonce' = g_nonce
    BY <1>3, <2>1 DEF Quiet, OneAnswer
  <2>3. g_start_nonce # g_nonce
    BY <1>1, <2>2 DEF NonceInv, StartIsLast
  <2>4. launch # g_nonce
    BY <2>2, <2>3 DEF NonceInv, StartIsLast
  <2>5. ppc = "poll" /\ toCtrl = << >> /\ ~g_done
    BY <2>2, <2>3, <2>4 DEF OneAnswer
  <2> QED
    BY <1>1, <1>2, <2>1, <2>2, <2>5 DEF Quiet, OneAnswer
<1>5. CASE OnParam \/ OnReset
  <2>1. UNCHANGED <<g_start, g_start_nonce>>
    BY <1>5 DEF OnParam, OnReset
  <2>2. apc \in {"setup", "connect", "begin", "retry"} => toPub' = << >>
    BY <1>1 DEF Quiet
  <2> QED
    BY <1>1, <1>2, <2>1, <2>2 DEF Quiet, OneAnswer
<1> QED
  BY <1>4, <1>5 DEF OnRequest

\* Lost messages and broken links.
LEMMA FaultPhases ==
  ASSUME TypeOK, PhaseInv, EnvNext, UNCHANGED <<pubVars, anaVars>>
  PROVE  PhaseInv'
<1> USE DEF PhaseInv
<1>1. /\ UNCHANGED <<ppc, g_start, g_start_nonce, launch, apc, g_nonce, g_done>>
      /\ toPub \in Seq(Requests)
  BY DEF pubVars, anaVars, TypeOK, EnvTypeOK
<1>2. \/ UNCHANGED toPub
      \/ toPub' = << >>
      \/ toPub # << >> /\ toPub' = Tail(toPub)
  BY DEF EnvNext, LoseRequest, LoseMessage, BreakPublisherLink, BreakControlLink,
         BreakDataLink
<1>3. UNCHANGED toCtrl \/ toCtrl' = << >>
  BY DEF EnvNext, LoseRequest, LoseMessage, BreakPublisherLink, BreakControlLink,
         BreakDataLink
<1>4. \A k \in DOMAIN toPub' : \E j \in DOMAIN toPub : toPub'[k] = toPub[j]
  BY <1>1, <1>2, Remaining
<1>5. toPub = << >> => toPub' = << >>
  BY <1>2
<1> QED
  BY <1>1, <1>3, <1>4, <1>5 DEF Quiet, OneAnswer

\* Every step keeps the phases apart.
LEMMA PhasesInductive ==
  ASSUME "slow" \notin Faults, IndInv, NonceInv, PhaseInv, [Next]_vars
  PROVE  PhaseInv'
<1>1. TypeOK
  BY DEF IndInv
<1>2. CASE AnaMain /\ UNCHANGED pubVars
  <2>1. CASE Launch
    BY <1>1, <1>2, <2>1, LaunchPhase
  <2>2. CASE Begin \/ (Settled /\ WaitTimeout) \/ RetryReset
    BY <1>1, <1>2, <2>2, RequestPhases
  <2>3. CASE \/ Setup \/ Connect \/ Finish \/ Stamp \/ WaitDone \/ GraceDone
             \/ Settled /\ GraceTimeout
             \/ Settled /\ Reconnect
    BY <1>1, <1>2, <2>3, SilentPhases
  <2> QED
    BY <1>2, <2>1, <2>2, <2>3 DEF AnaMain
<1>3. CASE AnaCallbacks /\ UNCHANGED pubVars
  BY <1>1, <1>3, CallbackPhases DEF AnaCallbacks
<1>4. CASE (PubMain \/ OnRequest) /\ UNCHANGED anaVars
  BY <1>1, <1>4, PublisherPhases, RequestTaken
<1>5. CASE EnvNext /\ UNCHANGED <<pubVars, anaVars>>
  BY <1>1, <1>5, FaultPhases
<1>6. CASE UNCHANGED vars
  BY <1>6 DEF vars, envVars, pubVars, anaVars, PhaseInv, Quiet, OneAnswer
<1> QED
  BY <1>2, <1>3, <1>4, <1>5, <1>6 DEF Next, Terminated

\* Without delays that outlast the waits, one attempt is over before the next begins.
LEMMA PhaseInvariance ==
  ASSUME "slow" \notin Faults
  PROVE  Spec => []PhaseInv
<1>1. Init => PhaseInv
  BY DEF Init, EnvInit, PubInit, AnaInit, PhaseInv, Quiet, OneAnswer
<1>2. PhaseInv /\ [IndInv /\ NonceInv /\ Next]_vars => PhaseInv'
  BY PhasesInductive DEF vars, envVars, pubVars, anaVars, PhaseInv, Quiet, OneAnswer
<1> QED
  BY <1>1, <1>2, Invariance, NonceInvariance, PTL DEF Spec

-----------------------------------------------------------------------------
(* What a success means.                                                   *)

\* test_timestamps.tsv gets at most one row more, and the row is the one given.
LEMMA MetaGrows ==
  ASSUME meta \in Seq(MetaRows), logTest \in Tests,
         NEW start \in Int, NEW end \in Int, NEW r \in -1 .. MAX_RETRY,
         WriteMeta(start, end, r)
  PROVE  \A i \in DOMAIN meta' :
           \/ i \in DOMAIN meta /\ meta'[i] = meta[i]
           \/ meta'[i] = [test |-> logTest, start |-> start, end |-> end, retries |-> r]
<1> DEFINE row == [test |-> logTest, start |-> start, end |-> end, retries |-> r]
<1> SUFFICES ASSUME meta' # meta PROVE \A i \in DOMAIN meta' :
                                        (i \in DOMAIN meta /\ meta'[i] = meta[i]) \/ meta'[i] = row
  OBVIOUS
<1>1. row \in MetaRows /\ meta' = Append(meta, row)
  BY DEF MetaRows, WriteMeta
<1> HIDE DEF row
<1>2. /\ DOMAIN meta' = 1 .. Len(meta) + 1 /\ DOMAIN meta = 1 .. Len(meta)
      /\ \A i \in 1 .. Len(meta) : meta'[i] = meta[i]
      /\ meta'[Len(meta) + 1] = row /\ Len(meta) \in Nat
  BY <1>1
<1>3. \A i \in DOMAIN meta' : (i \in DOMAIN meta /\ meta'[i] = meta[i]) \/ meta'[i] = row
  BY <1>2
<1> QED
  BY <1>3

\* A row with a count of retries is an old one, or it is the row of the attempt in
\* hand, whose "done" has come in time.
LEMMA SuccessRows ==
  ASSUME IndInv, NonceInv, PhaseInv, [Next]_vars,
         NEW i \in DOMAIN meta', meta'[i].retries >= 0
  PROVE  \/ i \in DOMAIN meta /\ meta'[i] = meta[i]
         \/ /\ WaitDone /\ UNCHANGED pubVars
            /\ meta'[i].test = tnum /\ meta'[i].start = g_nonce /\ meta'[i].end = clock
<1>1. /\ meta \in Seq(MetaRows) /\ tnum \in Tests /\ retry \in 0 .. MAX_RETRY
      /\ g_test_start_ts \in Int /\ g_test_end_ts \in Int /\ clock \in Int
  BY DEF IndInv, TypeOK, EnvTypeOK, AnaTypeOK
<1>2. CASE WaitDone /\ UNCHANGED pubVars
  <2>1. apc = "wait" /\ logTest = tnum /\ g_test_start_ts = g_nonce
    BY <1>2 DEF WaitDone, IndInv, LoggerOnTest, Measuring, NonceInv, NoncesInOrder
  <2>2. WriteMeta(g_test_start_ts, clock, retry) /\ retry \in -1 .. MAX_RETRY
    BY <1>1, <1>2, MaxRetryAssumption DEF WaitDone, EndWindow, WriteMeta
  <2>3. \/ i \in DOMAIN meta /\ meta'[i] = meta[i]
        \/ meta'[i] = [test |-> logTest, start |-> g_test_start_ts, end |-> clock,
                       retries |-> retry]
    BY <1>1, <2>1, <2>2, MetaGrows
  <2> QED
    BY <1>2, <2>1, <2>3
<1>3. CASE GraceTimeout
  <2>1. CASE UNCHANGED meta
    BY <2>1
  <2>2. CASE ~UNCHANGED meta
    <3>1. WriteMeta(g_test_start_ts, g_test_end_ts, -1) /\ logTest = tnum
      BY <1>3, <2>2 DEF GraceTimeout, IndInv, LoggerOnTest, Measuring
    <3>2. -1 \in -1 .. MAX_RETRY
      BY MaxRetryAssumption
    <3>3. \/ i \in DOMAIN meta /\ meta'[i] = meta[i]
          \/ meta'[i] = [test |-> logTest, start |-> g_test_start_ts, end |-> g_test_end_ts,
                         retries |-> -1]
      BY <1>1, <3>1, <3>2, MetaGrows
    <3> QED
      BY <3>3
  <2> QED
    BY <2>1, <2>2
<1>4. CASE AnaMain /\ ~WaitDone /\ ~GraceTimeout
  <2>1. ~GraceDone
    BY DEF PhaseInv, Quiet, GraceDone
  <2>2. UNCHANGED meta
    BY <1>4, <2>1 DEF AnaMain, Setup, Connect, Begin, Stamp, Launch, WaitTimeout,
                      RetryReset, Reconnect, Finish
  <2> QED
    BY <2>2
<1>5. CASE AnaCallbacks \/ UNCHANGED anaVars
  <2>1. UNCHANGED meta
    BY <1>5 DEF AnaCallbacks, OnDone, OnCounter, LogRow, anaVars
  <2> QED
    BY <2>1
<1> QED
  BY <1>2, <1>3, <1>4, <1>5 DEF Next, AnaMain, Terminated, vars

-----------------------------------------------------------------------------
(* What is published of a burst.                                           *)

\* The messages in the publisher's file are of bursts that have been asked for.
Launched == \A p \in pubTsv : p.msg.burst <= g_nonce

\* No two messages of a burst have the same number: the burst is launched only once.
Numbered ==
  /\ \A p, q \in pubTsv :
       p.msg.burst = q.msg.burst /\ p.msg.n = q.msg.n => p.msg = q.msg
  /\ apc = "wait" /\ (g_start_nonce # g_nonce \/ g_start \/ ppc = "snapshot")
       => \A p \in pubTsv : p.msg.burst # g_nonce
  /\ apc = "wait" /\ ppc = "burst"
       => \A p \in pubTsv : p.msg.burst = launch => p.msg.n < counter

OnceInv == Launched /\ Numbered

\* The numbers in a row of the publisher's file.
LEMMA RowTypes ==
  ASSUME TypeOK, NEW p \in pubTsv
  PROVE  p.msg.burst \in Int /\ p.msg.ts \in Int /\ p.msg.n \in Nat
<1>1. p.msg \in Messages
  BY DEF TypeOK, PubTypeOK
<1> QED
  BY <1>1 DEF Messages

\* The numbers of the analyser that the stamps are compared with.
LEMMA StampTypes ==
  ASSUME TypeOK
  PROVE  /\ clock \in Int /\ g_nonce \in Int /\ g_test_start_ts \in Int
         /\ launch \in Int /\ counter \in Int
  BY DEF TypeOK, EnvTypeOK, PubTypeOK, AnaTypeOK

\* Only PublishMessage writes to the publisher's file.
LEMMA TsvAlone ==
  ASSUME [Next]_vars
  PROVE  \/ UNCHANGED pubTsv
         \/ PublishMessage /\ UNCHANGED anaVars
  BY DEF Next, Terminated, vars, pubVars, PubMain, PollStart, SnapshotField, OpenBurst,
         AbortBurst, EndBurst, SendDone, OnRequest, OnParam, OnStart, OnReset, Receive

\* What PublishMessage writes, and when.
LEMMA NewRow ==
  ASSUME IndInv, NonceInv, PhaseInv, PublishMessage, UNCHANGED anaVars
  PROVE  /\ apc = "wait" /\ ppc = "burst" /\ launch = g_nonce /\ g_nonce = g_test_start_ts
         /\ g_test_start_ts <= clock
         /\ UNCHANGED <<clock, g_start, g_start_nonce, ppc, launch>> /\ counter' = counter + 1
         /\ \A p \in pubTsv' : \/ p \in pubTsv
                               \/ /\ p.msg.burst = g_nonce /\ p.msg.n = counter
                                  /\ p.msg.ts = clock + Skew
         /\ \A p, q \in pubTsv' : p \notin pubTsv /\ q \notin pubTsv => p.msg = q.msg
<1>1. ppc = "burst" /\ apc = "wait" /\ launch = g_nonce
  BY DEF PublishMessage, PhaseInv, Quiet, OneAnswer
<1>2. g_nonce = g_test_start_ts /\ g_test_start_ts <= clock
  BY <1>1 DEF NonceInv, NoncesInOrder, IndInv, WindowOpen
<1>3. UNCHANGED <<clock, g_start, g_start_nonce, ppc, launch>> /\ counter' = counter + 1
  BY DEF PublishMessage
<1> DEFINE m == [topic |-> snap, n |-> counter, ts |-> PublisherClock, burst |-> launch]
<1>4. \A p \in pubTsv' : p \in pubTsv \/ p.msg = m
  BY DEF PublishMessage
<1>5. m.burst = g_nonce /\ m.n = counter /\ m.ts = clock + Skew
  BY <1>1 DEF PublisherClock
<1> HIDE DEF m
<1> QED
  BY <1>1, <1>2, <1>3, <1>4, <1>5

\* A burst is asked for before it is run.
LEMMA LaunchedStep ==
  ASSUME "slow" \notin Faults, IndInv, IndInv', NonceInv, PhaseInv, Launched, Next
  PROVE  Launched'
<1>0. TypeOK /\ TypeOK'
  BY DEF IndInv
<1>1. CASE PublishMessage /\ UNCHANGED anaVars
  <2>1. UNCHANGED g_nonce /\ \A p \in pubTsv' : p \in pubTsv \/ p.msg.burst = g_nonce
    BY <1>1, NewRow DEF anaVars
  <2> QED
    BY <1>0, <2>1, StampTypes DEF Launched
<1>2. CASE UNCHANGED pubTsv
  <2>1. CASE Launch
    <3>1. apc = "stamp" /\ g_nonce' = g_test_start_ts
      BY <2>1 DEF Launch
    <3>2. g_nonce < g_test_start_ts
      BY <3>1 DEF NonceInv, NoncesInOrder
    <3> QED
      BY <1>0, <1>2, <3>1, <3>2, RowTypes, StampTypes DEF Launched
  <2>2. CASE ~Launch
    <3>1. UNCHANGED g_nonce
      BY <2>2 DEF Next, Terminated, vars, anaVars, AnaMain, Setup, Connect, Begin, Stamp, WaitDone,
         WaitTimeout, GraceDone, GraceTimeout, RetryReset, Reconnect, Finish, AnaCallbacks,
         OnDone, OnCounter, LogRow
    <3> QED
      BY <1>2, <3>1 DEF Launched
  <2> QED
    BY <2>1, <2>2
<1> QED
  BY <1>1, <1>2, TsvAlone

\* A burst is launched once, and numbers its messages.
LEMMA NumberedStep ==
  ASSUME "slow" \notin Faults, IndInv, IndInv', NonceInv, PhaseInv, Launched, Numbered, Next
  PROVE  Numbered'
<1>0. TypeOK /\ TypeOK'
  BY DEF IndInv
<1>1. CASE PublishMessage /\ UNCHANGED anaVars
  <2>1. /\ apc = "wait" /\ ppc = "burst" /\ launch = g_nonce
        /\ UNCHANGED <<apc, g_nonce, g_start, g_start_nonce, ppc, launch>>
        /\ counter' = counter + 1 /\ counter \in Int
        /\ \A p \in pubTsv' : p \in pubTsv \/ (p.msg.burst = g_nonce /\ p.msg.n = counter)
        /\ \A p, q \in pubTsv' : p \notin pubTsv /\ q \notin pubTsv => p.msg = q.msg
    BY <1>0, <1>1, NewRow, StampTypes DEF anaVars
  <2>2. \A p \in pubTsv : p.msg.burst = g_nonce => p.msg.n < counter
    BY <2>1 DEF Numbered
  <2>3. \A p \in pubTsv : p.msg.n \in Int
    BY <1>0, RowTypes
  <2>4. \A p, q \in pubTsv' :
          p.msg.burst = q.msg.burst /\ p.msg.n = q.msg.n => p.msg = q.msg
    <3> SUFFICES ASSUME NEW p \in pubTsv', NEW q \in pubTsv',
                        p.msg.burst = q.msg.burst, p.msg.n = q.msg.n
                 PROVE  p.msg = q.msg
      OBVIOUS
    <3>1. CASE p \in pubTsv /\ q \in pubTsv
      BY <3>1 DEF Numbered
    <3>2. CASE p \in pubTsv /\ q \notin pubTsv
      BY <2>1, <2>2, <2>3, <3>2
    <3>3. CASE p \notin pubTsv /\ q \in pubTsv
      BY <2>1, <2>2, <2>3, <3>3
    <3>4. CASE p \notin pubTsv /\ q \notin pubTsv
      BY <2>1, <3>4
    <3> QED
      BY <3>1, <3>2, <3>3, <3>4
  <2>5. g_start_nonce = g_nonce /\ ~g_start
    BY <2>1 DEF PhaseInv, OneAnswer, NonceInv, StartIsLast
  <2>6. \A p \in pubTsv' : p.msg.burst = launch' => p.msg.n < counter'
    BY <2>1, <2>2, <2>3
  <2> QED
    BY <2>1, <2>4, <2>5, <2>6 DEF Numbered
<1>2. CASE ~(PublishMessage /\ UNCHANGED anaVars)
  <2>1. UNCHANGED pubTsv
    BY <1>2, TsvAlone
  <2>2. \A p, q \in pubTsv' :
          p.msg.burst = q.msg.burst /\ p.msg.n = q.msg.n => p.msg = q.msg
    BY <2>1 DEF Numbered
  <2>3. CASE Launch /\ UNCHANGED pubVars
    <3>1. apc = "stamp" /\ g_nonce' = g_test_start_ts /\ UNCHANGED ppc
      BY <2>3 DEF Launch, pubVars
    <3>2. g_nonce < g_test_start_ts /\ ppc = "poll" /\ g_nonce \in Int /\ g_test_start_ts \in Int
      BY <1>0, <3>1, StampTypes DEF NonceInv, NoncesInOrder, PhaseInv, Quiet
    <3>3. \A p \in pubTsv' : p.msg.burst # g_nonce'
      BY <1>0, <2>1, <3>1, <3>2, RowTypes DEF Launched
    <3> QED
      BY <2>2, <3>1, <3>2, <3>3 DEF Numbered
  <2>4. CASE OnRequest /\ UNCHANGED anaVars
    <3>1. /\ UNCHANGED <<apc, g_nonce, ppc, launch, counter>>
          /\ \/ UNCHANGED <<g_start, g_start_nonce>>
             \/ OnStart
      BY <2>4 DEF anaVars, OnRequest, OnParam, OnStart, OnReset, Receive
    <3>2. ASSUME apc = "wait", OnStart
          PROVE  g_start_nonce # g_nonce
      BY <3>2 DEF OnStart, Receive, NonceInv, StartIsLast
    <3> QED
      BY <2>1, <2>2, <3>1, <3>2 DEF Numbered
  <2>5. CASE PubMain /\ UNCHANGED anaVars
    <3>1. UNCHANGED <<apc, g_nonce, g_start_nonce>>
      BY <2>5 DEF anaVars, PubMain, PollStart, SnapshotField, OpenBurst, PublishMessage,
                  AbortBurst, EndBurst, SendDone
    <3>2. CASE PollStart
      <4>1. g_start /\ ppc' = "snapshot"
        BY <3>2 DEF PollStart
      <4> QED
        BY <2>1, <2>2, <3>1, <4>1 DEF Numbered
    <3>3. CASE SnapshotField
      <4>1. UNCHANGED <<g_start, ppc, launch, counter>> /\ ppc = "snapshot"
        BY <3>3 DEF SnapshotField
      <4> QED
        BY <2>1, <2>2, <3>1, <4>1 DEF Numbered
    <3>4. CASE OpenBurst
      <4>1. UNCHANGED <<g_start, launch>> /\ ppc = "snapshot" /\ ppc' \in {"burst", "done"}
        BY <3>4 DEF OpenBurst
      <4>2. apc = "wait" => launch = g_nonce
        BY <4>1 DEF PhaseInv, OneAnswer
      <4> QED
        BY <2>1, <2>2, <3>1, <4>1, <4>2 DEF Numbered
    <3>5. CASE AbortBurst \/ EndBurst \/ SendDone
      <4>1. UNCHANGED g_start /\ ppc' \in {"done", "poll"}
        BY <3>5 DEF AbortBurst, EndBurst, SendDone
      <4> QED
        BY <2>1, <2>2, <3>1, <4>1 DEF Numbered
    <3> QED
      BY <1>2, <2>5, <3>2, <3>3, <3>4, <3>5 DEF PubMain
  <2>6. CASE /\ UNCHANGED pubVars
             /\ ~Launch
    <3>1. UNCHANGED <<ppc, g_start, g_start_nonce, launch, counter>>
      BY <2>6 DEF pubVars
    <3>2. apc' # "wait" \/ UNCHANGED <<apc, g_nonce>>
      BY <2>6 DEF Next, Terminated, vars, anaVars, AnaMain, Setup, Connect, ConnectClients,
           Begin, Stamp, WaitDone, WaitTimeout, GraceDone, ReturnLate, GraceTimeout,
           RetryReset, Reconnect, Finish, Continue, NextAttempt, NextTest, AnaCallbacks,
           OnDone, OnCounter, LogRow
    <3> QED
      BY <2>1, <2>2, <3>1, <3>2 DEF Numbered
  <2> QED
    BY <2>3, <2>4, <2>5, <2>6 DEF Next, Terminated, vars
<1> QED
  BY <1>1, <1>2

\* Whatever was published, in every state.
LEMMA OnceInvariance ==
  ASSUME "slow" \notin Faults
  PROVE  Spec => []OnceInv
<1>1. Init => OnceInv
  BY DEF Init, PubInit, AnaInit, OnceInv, Launched, Numbered
<1>2. OnceInv /\ [IndInv /\ IndInv' /\ NonceInv /\ PhaseInv /\ Next]_vars => OnceInv'
  <2>1. OnceInv /\ UNCHANGED vars => OnceInv'
    BY DEF vars, pubVars, anaVars, OnceInv, Launched, Numbered
  <2> QED
    BY <2>1, LaunchedStep, NumberedStep DEF OnceInv
<1> QED
  BY <1>1, <1>2, Invariance, NonceInvariance, PhaseInvariance, PTL DEF Spec

-----------------------------------------------------------------------------
(* What a success means: a burst, or nothing of it.                        *)

\* The burst that is answered with "done" has run its full time, or was never opened.
WholeAnswer ==
  apc = "wait" =>
    /\ ppc = "done" => Whole(launch)
    /\ toCtrl # << >> \/ g_done => Whole(g_nonce)

WholeInv == WholeAnswer /\ NoPartialSuccess

\* A burst stays whole unless a message of it is published, which is one of the attempt under
\* way.
LEMMA WholeStays ==
  ASSUME IndInv, NonceInv, PhaseInv, [Next]_vars, NEW b, Whole(b),
         PublishMessage => b # g_nonce
  PROVE  Whole(b)'
<1>1. endings \subseteq endings'
  BY DEF Next, Terminated, vars, pubVars, PubMain, PollStart, SnapshotField, OpenBurst,
         PublishMessage, AbortBurst, EndBurst, SendDone, OnRequest, OnParam, OnStart, OnReset,
         Receive
<1>2. \A p \in pubTsv' : p \in pubTsv \/ (PublishMessage /\ p.msg.burst = g_nonce)
  <2>1. CASE UNCHANGED pubTsv
    BY <2>1
  <2>2. CASE PublishMessage /\ UNCHANGED anaVars
    BY <2>2, NewRow
  <2> QED
    BY <2>1, <2>2, TsvAlone
<1> QED
  BY <1>1, <1>2 DEF Whole

\* A recorded success is of an attempt before the one that waits.
LEMMA SuccessBefore ==
  ASSUME IndInv, NonceInv, NEW i \in DOMAIN meta, apc = "wait"
  PROVE  meta[i].start # g_nonce
<1>1. meta[i].start <= meta[i].end /\ meta[i].end < g_test_start_ts /\ g_nonce = g_test_start_ts
  BY DEF IndInv, WindowsDisjoint, WindowOpen, NonceInv, NoncesInOrder
<1>2. meta[i].start \in Int /\ meta[i].end \in Int /\ g_test_start_ts \in Int
  BY MetaTypes DEF IndInv, TypeOK, AnaTypeOK
<1> QED
  BY <1>1, <1>2

\* Every step of the publisher's main thread keeps WholeAnswer: a burst that is not opened has
\* published nothing, and one that is opened is not broken off.
LEMMA PublisherWhole ==
  ASSUME IndInv, NonceInv, PhaseInv, OnceInv, WholeAnswer, Next, PubMain, UNCHANGED anaVars
  PROVE  WholeAnswer'
<1>1. UNCHANGED <<apc, g_nonce, g_done>>
  BY DEF anaVars
<1>2. apc = "wait"
  BY DEF PhaseInv, Quiet, PubMain, PollStart, SnapshotField, OpenBurst, PublishMessage,
         AbortBurst, EndBurst, SendDone
<1>3. CASE PollStart \/ SnapshotField \/ OpenBurst \/ PublishMessage
  <2>1. /\ UNCHANGED toCtrl
        /\ ppc # "poll" \/ g_start
        /\ ppc' = "done" => OpenBurst /\ ppc = "snapshot" /\ <<launch, "unopened">> \in endings'
    BY <1>3 DEF PollStart, SnapshotField, OpenBurst, PublishMessage, envVars
  <2>2. ~(toCtrl # << >> \/ g_done)
    BY <1>2, <2>1 DEF PhaseInv, OneAnswer
  <2>3. ASSUME ppc' = "done" PROVE Whole(launch)'
    <3>1. UNCHANGED <<launch, pubTsv>> /\ <<launch, "unopened">> \in endings' /\ launch = g_nonce
      BY <1>2, <2>1, <2>3 DEF OpenBurst, PhaseInv, OneAnswer
    <3>2. \A p \in pubTsv : p.msg.burst # g_nonce
      BY <1>2, <2>1, <2>3 DEF OnceInv, Numbered
    <3> QED
      BY <3>1, <3>2 DEF Whole
  <2> QED
    BY <1>1, <2>1, <2>2, <2>3 DEF WholeAnswer
<1>4. ~AbortBurst
  BY <1>2 DEF PhaseInv, OneAnswer, NonceInv, StartIsLast, AbortBurst
<1>5. CASE EndBurst
  <2>1. UNCHANGED <<toCtrl, launch>> /\ <<launch, "full">> \in endings' /\ ppc = "burst"
    BY <1>5 DEF EndBurst, envVars
  <2>2. ~(toCtrl # << >> \/ g_done)
    BY <1>2, <2>1 DEF PhaseInv, OneAnswer
  <2> QED
    BY <1>1, <2>1, <2>2 DEF WholeAnswer, Whole
<1>6. CASE SendDone
  <2>1. ppc = "done" /\ ppc' = "poll" /\ ~PublishMessage
    BY <1>6 DEF SendDone, PublishMessage
  <2>2. launch = g_nonce /\ Whole(launch)
    BY <1>2, <2>1 DEF PhaseInv, OneAnswer, WholeAnswer
  <2>3. Whole(g_nonce)'
    <3>1. UNCHANGED <<endings, pubTsv, g_nonce>>
      BY <1>1, <1>6 DEF SendDone
    <3> QED
      BY <2>2, <3>1 DEF Whole
  <2> QED
    BY <2>1, <2>3 DEF WholeAnswer
<1> QED
  BY <1>3, <1>4, <1>5, <1>6 DEF PubMain

\* Every step keeps WholeAnswer.
LEMMA WholeAnswerStep ==
  ASSUME "slow" \notin Faults, IndInv, NonceInv, PhaseInv, OnceInv, WholeAnswer, [Next]_vars
  PROVE  WholeAnswer'
<1>1. CASE PubMain /\ UNCHANGED anaVars
  <2>1. Next
    BY <1>1 DEF Next
  <2> QED
    BY <1>1, <2>1, PublisherWhole
<1>2. CASE OnRequest /\ UNCHANGED anaVars
  <2>1. UNCHANGED <<apc, g_nonce, g_done, toCtrl, ppc, launch, endings, pubTsv>>
    BY <1>2 DEF anaVars, OnRequest, OnParam, OnStart, OnReset, Receive
  <2> QED
    BY <2>1 DEF WholeAnswer, Whole
<1>3. CASE EnvNext /\ UNCHANGED <<pubVars, anaVars>>
  <2>1. UNCHANGED <<apc, g_nonce, g_done, ppc, launch, endings, pubTsv>>
    BY <1>3 DEF pubVars, anaVars
  <2>2. UNCHANGED toCtrl \/ toCtrl' = << >>
    BY <1>3 DEF EnvNext, LoseRequest, LoseMessage, BreakPublisherLink, BreakControlLink,
                BreakDataLink
  <2> QED
    BY <2>1, <2>2 DEF WholeAnswer, Whole
<1>4. CASE AnaCallbacks /\ UNCHANGED pubVars
  <2>1. UNCHANGED <<apc, g_nonce, ppc, launch, endings, pubTsv>>
    BY <1>4 DEF pubVars, AnaCallbacks, OnDone, OnCounter, LogRow
  <2>2. \/ UNCHANGED <<toCtrl, g_done>>
        \/ toCtrl # << >>
    BY <1>4 DEF AnaCallbacks, OnDone, OnCounter, LogRow, envVars
  <2> QED
    BY <2>1, <2>2 DEF WholeAnswer, Whole
<1>5. CASE AnaMain /\ UNCHANGED pubVars
  <2>1. CASE Launch
    <3>1. ppc' = "poll" /\ toCtrl' = << >> /\ ~g_done'
      BY <1>5, <2>1 DEF Launch, pubVars, PhaseInv, Quiet
    <3> QED
      BY <3>1 DEF WholeAnswer
  <2>2. CASE ~Launch
    <3>1. apc' # "wait"
      BY <1>5, <2>2 DEF AnaMain, Setup, Connect, ConnectClients, Begin, Stamp, WaitDone,
                        WaitTimeout, GraceDone, ReturnLate, GraceTimeout, RetryReset,
                        Reconnect, Finish, Continue, NextAttempt, NextTest
    <3> QED
      BY <3>1 DEF WholeAnswer
  <2> QED
    BY <2>1, <2>2
<1>6. CASE UNCHANGED vars
  BY <1>6 DEF vars, envVars, pubVars, anaVars, WholeAnswer, Whole
<1> QED
  BY <1>1, <1>2, <1>3, <1>4, <1>5, <1>6 DEF Next, Terminated

\* Every step keeps WholeInv.
LEMMA WholeInductive ==
  ASSUME "slow" \notin Faults, IndInv, NonceInv, PhaseInv, OnceInv, WholeInv, [Next]_vars
  PROVE  WholeInv'
<1>1. WholeAnswer'
  BY WholeAnswerStep DEF WholeInv
<1>2. NoPartialSuccess'
  <2> SUFFICES ASSUME NEW i \in DOMAIN meta', meta'[i].retries >= 0, NEW b, b = meta'[i].start
               PROVE  \/ <<b, "full">> \in endings'
                      \/ <<b, "unopened">> \in endings' /\ \A p \in pubTsv' : p.msg.burst # b
    BY DEF NoPartialSuccess, Whole
  <2>1. CASE i \in DOMAIN meta /\ meta'[i] = meta[i]
    <3>1. Whole(b)
      BY <2>1 DEF WholeInv, NoPartialSuccess
    <3>2. PublishMessage => b # g_nonce
      <4>1. PublishMessage => apc = "wait"
        BY DEF PublishMessage, PhaseInv, Quiet
      <4> QED
        BY <2>1, <4>1, SuccessBefore
    <3>3. Whole(b)'
      BY <3>1, <3>2, WholeStays
    <3> QED
      BY <3>3 DEF Whole
  <2>2. CASE WaitDone /\ UNCHANGED pubVars /\ meta'[i].start = g_nonce
    <3>1. Whole(g_nonce) /\ UNCHANGED <<endings, pubTsv>>
      BY <2>2 DEF WaitDone, WholeInv, WholeAnswer, pubVars
    <3> QED
      BY <2>2, <3>1 DEF Whole
  <2> QED
    BY <2>1, <2>2, SuccessRows
<1> QED
  BY <1>1, <1>2 DEF WholeInv

\* For every suite, every skew of the clocks, and however many requests, messages,
\* links and connections are lost: a test that is recorded as successful is one whose
\* burst the publisher ran for its full time, in answer to the start of its window, or
\* for which run_burst returned early and published nothing.
THEOREM NoSuccessIsPartial ==
  ASSUME "slow" \notin Faults
  PROVE  Spec => []NoPartialSuccess
<1>1. Init => WholeInv
  BY DEF Init, EnvInit, AnaInit, WholeInv, WholeAnswer, NoPartialSuccess
<1>2. WholeInv /\ [IndInv /\ NonceInv /\ PhaseInv /\ OnceInv /\ Next]_vars => WholeInv'
  <2>1. WholeInv /\ UNCHANGED vars => WholeInv'
    BY DEF vars, envVars, pubVars, anaVars, WholeInv, WholeAnswer, NoPartialSuccess, Whole
  <2> QED
    BY <2>1, WholeInductive
<1>3. WholeInv => NoPartialSuccess
  BY DEF WholeInv
<1> QED
  BY <1>1, <1>2, <1>3, Invariance, NonceInvariance, PhaseInvariance, OnceInvariance, PTL DEF Spec

\* And without "unopened", where run_burst never returns early, it is one whose burst ran for
\* its full time.
THEOREM SuccessesAreFull ==
  ASSUME "slow" \notin Faults, "unopened" \notin Faults
  PROVE  Spec => [](\A i \in DOMAIN meta :
                      meta[i].retries >= 0 => <<meta[i].start, "full">> \in endings)
<1> DEFINE Opened == \A e \in endings : e[2] # "unopened"
<1>1. Init => Opened
  BY DEF Init, PubInit
<1>2. Opened /\ [Next]_vars => Opened'
  BY DEF Next, Terminated, vars, pubVars, PubMain, PollStart, SnapshotField, OpenBurst,
         PublishMessage, AbortBurst, EndBurst, SendDone, OnRequest, OnParam, OnStart, OnReset,
         Receive
<1>3. Opened /\ NoPartialSuccess =>
        \A i \in DOMAIN meta : meta[i].retries >= 0 => <<meta[i].start, "full">> \in endings
  BY DEF NoPartialSuccess, Whole
<1> QED
  BY <1>1, <1>2, <1>3, NoSuccessIsPartial, PTL DEF Spec

-----------------------------------------------------------------------------
(* What the publisher is told, in an environment that does not drop        *)
(* requests.                                                               *)

Wanted(k) == Topic(tnum)[k]
Coming(k) == \E j \in DOMAIN toPub : toPub[j].kind = "param" /\ toPub[j].k = k

\* The parameters on their way are those of the test in hand.
ParamsOfTest ==
  apc \in {"settle", "stamp", "wait"} =>
    \A j \in DOMAIN toPub :
      toPub[j].kind = "param" => toPub[j].v = Wanted(toPub[j].k)

\* If the "start" of the attempt can reach the publisher, it finds the parameters of
\* the test set, and so does the snapshot.
Configured ==
  /\ \/ apc \in {"settle", "stamp"} /\ pubUp /\ ctrlUp
     \/ apc = "wait" /\ \E j \in DOMAIN toPub : toPub[j].kind = "start"
     \/ apc = "wait" /\ g_start_nonce = g_nonce
     => \A k \in Fields : cfg[k] = Wanted(k) \/ Coming(k)
  /\ apc = "wait" /\ ppc # "poll" => \A k \in DOMAIN snap : snap[k] = Wanted(k)

\* The messages of the attempt have the topic of the test.
OwnTopic ==
  apc \in {"wait", "grace"} =>
    \A k \in DOMAIN toData :
      toData[k].burst = g_nonce => toData[k].topic = Topic(tnum)

\* No message is of a burst that has not been asked for.
BurstsStarted == \A k \in DOMAIN toData : toData[k].burst <= g_nonce

ConfInv == ParamsOfTest /\ Configured /\ OwnTopic /\ BurstsStarted

\* What is left of the counter messages after one of them, or all, are gone.
LEMMA MessagesLeft ==
  ASSUME toData \in Seq(Messages),
         \/ UNCHANGED toData
         \/ toData' = << >>
         \/ toData # << >> /\ toData' = Tail(toData)
  PROVE  \A k \in DOMAIN toData' : \E j \in DOMAIN toData : toData'[k] = toData[j]
<1>1. CASE UNCHANGED toData \/ toData' = << >>
  BY <1>1
<1>2. CASE toData # << >> /\ toData' = Tail(toData)
  BY <1>2, QueueTail
<1> QED
  BY <1>1, <1>2

\* The counter messages after PublishMessage: those before, and maybe the new one.
LEMMA MessagesSent ==
  ASSUME TypeOK, PublishMessage
  PROVE  \A k \in DOMAIN toData' :
           \/ k \in DOMAIN toData /\ toData'[k] = toData[k]
           \/ pubUp /\ toData'[k] = [topic |-> snap, n |-> counter, ts |-> PublisherClock,
                                     burst |-> launch]
<1> DEFINE m == [topic |-> snap, n |-> counter, ts |-> PublisherClock, burst |-> launch]
<1>1. toData' = toData \/ (pubUp /\ toData' = Append(toData, m))
  BY DEF PublishMessage
<1>2. m \in Messages /\ toData \in Seq(Messages)
  BY SnapshotType, MaxMsgsAssumption, SkewAssumption
  DEF PublishMessage, PublisherClock, TypeOK, EnvTypeOK, PubTypeOK, Messages
<1> HIDE DEF m
<1>3. CASE toData' = toData
  BY <1>3
<1>4. CASE pubUp /\ toData' = Append(toData, m)
  <2>1. /\ DOMAIN toData = 1 .. Len(toData) /\ DOMAIN toData' = 1 .. Len(toData) + 1
        /\ \A k \in 1 .. Len(toData) : toData'[k] = toData[k]
        /\ toData'[Len(toData) + 1] = m /\ Len(toData) \in Nat
    BY <1>2, <1>4
  <2>2. \A k \in DOMAIN toData' : (k \in DOMAIN toData /\ toData'[k] = toData[k]) \/ toData'[k] = m
    BY <2>1
  <2> QED
    BY <1>4, <2>2 DEF m
<1> QED
  BY <1>1, <1>3, <1>4 DEF m

\* A burst of the attempt under way is of the test's topic.
LEMMA SnapshotWanted ==
  ASSUME TypeOK, Configured, apc = "wait", ppc = "burst"
  PROVE  snap = Topic(tnum)
<1>1. tnum \in 0 .. Len(Suite)
  BY SuiteLength DEF TypeOK, AnaTypeOK
<1>2. Topic(tnum) \in Topics
  BY <1>1, TopicType
<1>3. snap \in Topics /\ DOMAIN snap = 1 .. 3
  BY SnapshotType DEF TypeOK, PubTypeOK, Topics
<1>4. \A k \in 1 .. 3 : snap[k] = Topic(tnum)[k]
  BY <1>3 DEF Configured, Wanted
<1> QED
  BY <1>2, <1>3, <1>4 DEF Topics

\* Nothing is wanted but by the test in hand.
LEMMA WantedSame == ASSUME UNCHANGED tnum PROVE \A k : Wanted(k)' = Wanted(k)
  BY DEF Wanted, Topic

\* The parameters go out.
LEMMA ConfiguredBegin ==
  ASSUME TypeOK, PhaseInv, BurstsStarted, Begin, UNCHANGED pubVars
  PROVE  ConfInv'
<1>1. tnum \in Tests /\ tnum' = tnum /\ apc' = "settle" /\ UNCHANGED <<pubUp, ctrlUp>>
  BY DEF Begin, TypeOK, AnaTypeOK
<1>2. toPub = << >>
  BY DEF Begin, PhaseInv, Quiet
<1> DEFINE r == [k \in Fields |-> Param(k, Topic(tnum)[k])]
<1>3. r \in Seq(Requests) /\ Send(r)
  BY <1>1, RequestType DEF Begin
<1>4. /\ DOMAIN r = Fields
      /\ \A k \in Fields : r[k].kind = "param" /\ r[k].k = k /\ r[k].v = Topic(tnum)[k]
  BY DEF Param
<1> HIDE DEF r
<1>5. toPub' = IF ctrlUp /\ pubUp THEN r ELSE << >>
  BY <1>2, <1>3, ConcatEmptySeq DEF Send
<1>6. ParamsOfTest'
  BY <1>1, <1>4, <1>5 DEF ParamsOfTest, Wanted, Topic
<1>7. Configured'
  <2>1. pubUp /\ ctrlUp => \A k \in Fields : Coming(k)'
    BY <1>4, <1>5 DEF Coming
  <2> QED
    BY <1>1, <2>1 DEF Configured
<1> QED
  <2>1. OwnTopic'
    BY <1>1 DEF OwnTopic
  <2>2. BurstsStarted'
    BY DEF Begin, BurstsStarted
  <2> QED
    BY <1>6, <1>7, <2>1, <2>2 DEF ConfInv

\* The "start" goes out behind the parameters.
LEMMA ConfiguredLaunch ==
  ASSUME IndInv, NonceInv, PhaseInv, ConfInv, Launch, UNCHANGED pubVars
  PROVE  ConfInv'
<1>1. /\ tnum' = tnum /\ apc = "stamp" /\ apc' = "wait" /\ g_nonce' = g_test_start_ts
      /\ UNCHANGED <<cfg, ppc, g_start_nonce, toData>>
      /\ toPub \in Seq(Requests)
  BY DEF Launch, pubVars, IndInv, TypeOK, EnvTypeOK
<1>2. ppc = "poll" /\ \A j \in DOMAIN toPub : toPub[j].kind # "start"
  BY <1>1 DEF PhaseInv, Quiet
<1>3. g_start_nonce # g_nonce' /\ g_nonce < g_nonce'
  BY <1>1 DEF NonceInv, NoncesInOrder, IndInv, TypeOK, PubTypeOK, AnaTypeOK
<1> DEFINE r == <<Start(g_test_start_ts)>>
<1>4. Send(r) /\ r \in Seq(Requests)
  BY RequestType DEF Launch, IndInv, TypeOK, AnaTypeOK
<1>5. \A j \in DOMAIN r : r[j].kind = "start"
  BY DEF Start
<1> HIDE DEF r
<1>6. \A j \in DOMAIN toPub' :
        \/ j \in DOMAIN toPub /\ toPub'[j] = toPub[j]
        \/ toPub'[j].kind = "start"
  BY <1>1, <1>4, <1>5, QueueSent
<1>7. ParamsOfTest'
  <2> SUFFICES ASSUME NEW j \in DOMAIN toPub', toPub'[j].kind = "param"
               PROVE  toPub'[j].v = Topic(tnum')[toPub'[j].k]
    BY DEF ParamsOfTest, Wanted
  <2>1. j \in DOMAIN toPub /\ toPub'[j] = toPub[j]
    BY <1>6
  <2> QED
    BY <1>1, <2>1 DEF ConfInv, ParamsOfTest, Wanted
<1>8. Configured'
  <2>1. CASE ctrlUp /\ pubUp
    <3>1. \A k \in Fields : cfg[k] = Wanted(k) \/ Coming(k)
      BY <1>1, <2>1 DEF ConfInv, Configured
    <3>2. \A j \in DOMAIN toPub : j \in DOMAIN toPub' /\ toPub'[j] = toPub[j]
      <4>1. toPub' = toPub \o r
        BY <1>4, <2>1 DEF Send
      <4> QED
        BY <1>1, <1>4, <4>1, ConcatProperties, LenProperties
    <3>3. \A k \in Fields : Coming(k) => Coming(k)'
      BY <3>2 DEF Coming
    <3> QED
      BY <1>1, <1>2, <3>1, <3>3, WantedSame DEF Configured
  <2>2. CASE ~(ctrlUp /\ pubUp)
    <3>1. toPub' = toPub
      BY <1>4, <2>2 DEF Send
    <3> QED
      BY <1>1, <1>2, <1>3, <3>1 DEF Configured
  <2> QED
    BY <2>1, <2>2
<1>9. /\ \A k \in DOMAIN toData : toData[k].burst < g_nonce'
      /\ \A k \in DOMAIN toData : toData[k].burst <= g_nonce'
      /\ \A k \in DOMAIN toData : toData[k].burst # g_nonce'
  <2> SUFFICES ASSUME NEW k \in DOMAIN toData
               PROVE  /\ toData[k].burst < g_nonce' /\ toData[k].burst <= g_nonce'
                      /\ toData[k].burst # g_nonce'
    OBVIOUS
  <2>1. toData[k] \in Messages
    BY ElementOfSeq, LenProperties DEF IndInv, TypeOK, EnvTypeOK
  <2>2. toData[k].burst \in Int /\ g_nonce \in Int /\ g_nonce' \in Int
    BY <1>1, <2>1 DEF Messages, IndInv, TypeOK, AnaTypeOK
  <2>3. toData[k].burst <= g_nonce
    BY DEF ConfInv, BurstsStarted
  <2> QED
    BY <1>3, <2>2, <2>3
<1>10. OwnTopic' /\ BurstsStarted'
  BY <1>1, <1>9 DEF OwnTopic, BurstsStarted
<1> QED
  BY <1>7, <1>8, <1>10 DEF ConfInv

\* The rest of what the analyser does sends no parameters.
LEMMA ConfiguredAnalyser ==
  ASSUME TypeOK, ConfInv, UNCHANGED pubVars,
         \/ Setup \/ Connect \/ Stamp \/ WaitDone \/ WaitTimeout \/ GraceDone
         \/ GraceTimeout \/ RetryReset \/ Reconnect \/ Finish \/ OnDone \/ OnCounter \/ LogRow
  PROVE  ConfInv'
<1>1. /\ UNCHANGED g_nonce /\ toData \in Seq(Messages)
      /\ \/ UNCHANGED toData
         \/ toData' = << >>
         \/ toData # << >> /\ toData' = Tail(toData)
  BY DEF Setup, Connect, ConnectClients, Drained, Stamp, WaitDone, WaitTimeout, GraceDone,
         GraceTimeout, RetryReset, Reconnect, Finish, OnDone, OnCounter, LogRow, envVars, netVars,
         TypeOK, EnvTypeOK
<1>2. \A k \in DOMAIN toData' : \E j \in DOMAIN toData : toData'[k] = toData[j]
  BY <1>1, MessagesLeft
<1>3. BurstsStarted'
  BY <1>1, <1>2 DEF ConfInv, BurstsStarted
<1>4. CASE apc' \notin {"settle", "stamp", "wait", "grace"}
  BY <1>3, <1>4 DEF ConfInv, ParamsOfTest, Configured, OwnTopic
<1>5. CASE WaitTimeout
  <2>1. apc = "wait" /\ apc' = "grace" /\ UNCHANGED <<toData, tnum, g_nonce>>
    BY <1>5 DEF WaitTimeout
  <2> QED
    BY <1>3, <2>1 DEF ConfInv, ParamsOfTest, Configured, OwnTopic, Topic
<1>6. CASE Stamp \/ OnDone \/ OnCounter \/ LogRow
  <2>1. UNCHANGED <<toPub, pubUp, ctrlUp, tnum, g_nonce, cfg, snap, ppc, g_start_nonce>>
    BY <1>6 DEF Stamp, OnDone, OnCounter, LogRow, envVars, netVars, pubVars
  <2>2. UNCHANGED apc \/ (apc = "settle" /\ apc' = "stamp")
    BY <1>6 DEF Stamp, OnDone, OnCounter, LogRow
  <2>3. ParamsOfTest' /\ Configured'
    BY <2>1, <2>2, WantedSame DEF ConfInv, ParamsOfTest, Configured, Coming
  <2>4. OwnTopic'
    BY <1>2, <2>1, <2>2 DEF ConfInv, OwnTopic, Topic
  <2> QED
    BY <1>3, <2>3, <2>4 DEF ConfInv
<1>7. \/ apc' \notin {"settle", "stamp", "wait", "grace"}
      \/ WaitTimeout \/ Stamp \/ OnDone \/ OnCounter \/ LogRow
  BY DEF Setup, Connect, ConnectClients, WaitDone, GraceDone, ReturnLate, GraceTimeout,
         RetryReset, Reconnect, Finish, Continue, NextAttempt, NextTest
<1> QED
  BY <1>4, <1>5, <1>6, <1>7

\* The publisher takes its snapshot and publishes.
LEMMA ConfiguredPublisher ==
  ASSUME TypeOK, NonceInv, PhaseInv, ConfInv, PubMain, UNCHANGED anaVars
  PROVE  ConfInv'
<1>1. /\ UNCHANGED <<apc, tnum, g_nonce, toPub, pubUp, ctrlUp, cfg, g_start_nonce>>
  BY DEF anaVars, envVars, PubMain, PollStart, SnapshotField, OpenBurst, PublishMessage,
         AbortBurst, EndBurst, SendDone
<1>2. apc = "wait"
  BY DEF PhaseInv, Quiet, PubMain, PollStart, SnapshotField, OpenBurst, PublishMessage,
         AbortBurst, EndBurst, SendDone
<1>3. ParamsOfTest'
  BY <1>1, WantedSame DEF ConfInv, ParamsOfTest
<1>4. Configured'
  <2>1. ppc' # "poll" => \A k \in DOMAIN snap' : snap'[k] = Wanted(k)
    <3>1. CASE PollStart
      BY <3>1 DEF PollStart
    <3>2. CASE SnapshotField
      <4>1. launch = g_nonce
        BY <1>2, <3>2 DEF SnapshotField, PhaseInv, OneAnswer
      <4>2. g_start_nonce = g_nonce /\ toPub = << >>
        BY <1>2, <4>1 DEF NonceInv, StartIsLast
      <4>3. \A k \in Fields : cfg[k] = Wanted(k)
        BY <1>2, <4>2 DEF ConfInv, Configured, Coming
      <4>4. /\ snap \in Seq(Int) /\ Len(snap) \in Nat /\ Len(snap) < 3
            /\ cfg[Len(snap) + 1] \in Int /\ Len(snap) + 1 \in 1 .. 3
        BY <3>2 DEF SnapshotField, TypeOK, PubTypeOK, Fields
      <4>5. snap' = Append(snap, cfg[Len(snap) + 1])
        BY <3>2 DEF SnapshotField
      <4>6. /\ DOMAIN snap' = 1 .. Len(snap) + 1 /\ DOMAIN snap = 1 .. Len(snap)
            /\ \A k \in 1 .. Len(snap) : snap'[k] = snap[k]
            /\ snap'[Len(snap) + 1] = cfg[Len(snap) + 1]
        BY <4>4, <4>5
      <4>7. \A k \in DOMAIN snap : snap[k] = Wanted(k)
        BY <1>2, <3>2 DEF SnapshotField, ConfInv, Configured
      <4> QED
        BY <4>3, <4>4, <4>6, <4>7 DEF Fields
    <3>3. CASE OpenBurst \/ PublishMessage \/ AbortBurst \/ EndBurst \/ SendDone
      <4>1. UNCHANGED snap /\ ppc # "poll"
        BY <3>3 DEF OpenBurst, PublishMessage, AbortBurst, EndBurst, SendDone
      <4> QED
        BY <1>2, <4>1 DEF ConfInv, Configured
    <3> QED
      BY <3>1, <3>2, <3>3 DEF PubMain
  <2> QED
    BY <1>1, <2>1, WantedSame DEF ConfInv, Configured, Coming
<1>5. OwnTopic' /\ BurstsStarted'
  <2>1. CASE ~PublishMessage
    <3>1. UNCHANGED toData
      BY <2>1 DEF PubMain, PollStart, SnapshotField, OpenBurst, AbortBurst, EndBurst,
                  SendDone, envVars
    <3> QED
      BY <1>1, <3>1 DEF ConfInv, OwnTopic, BurstsStarted, Topic
  <2>2. CASE PublishMessage
    <3>1. snap = Topic(tnum) /\ launch = g_nonce /\ g_nonce \in Int
      BY <1>2, <2>2, SnapshotWanted
      DEF PublishMessage, ConfInv, PhaseInv, OneAnswer, TypeOK, AnaTypeOK
    <3>2. \A k \in DOMAIN toData' :
            \/ k \in DOMAIN toData /\ toData'[k] = toData[k]
            \/ toData'[k].topic = Topic(tnum) /\ toData'[k].burst = g_nonce
      BY <2>2, <3>1, MessagesSent
    <3> QED
      BY <1>1, <3>1, <3>2 DEF ConfInv, OwnTopic, BurstsStarted, Topic
  <2> QED
    BY <2>1, <2>2
<1> QED
  BY <1>3, <1>4, <1>5 DEF ConfInv

\* The callback of the publisher takes the parameters, then the "start".
LEMMA ConfiguredRequest ==
  ASSUME TypeOK, NonceInv, PhaseInv, ConfInv, OnRequest, UNCHANGED anaVars
  PROVE  ConfInv'
<1>1. /\ toPub \in Seq(Requests) /\ toPub # << >> /\ toPub' = Tail(toPub)
      /\ UNCHANGED <<apc, tnum, g_nonce, pubUp, ctrlUp, ppc, snap, toData>>
      /\ cfg \in [Fields -> Int]
  BY DEF anaVars, OnRequest, OnParam, OnStart, OnReset, Receive, TypeOK, EnvTypeOK, PubTypeOK
<1>2. /\ Len(toPub) \in Nat \ {0} /\ DOMAIN toPub = 1 .. Len(toPub)
      /\ Head(toPub) = toPub[1] /\ toPub[1] \in Requests
      /\ DOMAIN toPub' = 1 .. Len(toPub) - 1
      /\ \A k \in DOMAIN toPub' : k + 1 \in DOMAIN toPub /\ toPub'[k] = toPub[k + 1]
  BY <1>1, QueueTail, QueueHead, LenProperties
<1>3. ParamsOfTest'
  BY <1>1, <1>2, WantedSame DEF ConfInv, ParamsOfTest
<1>4. OwnTopic' /\ BurstsStarted'
  BY <1>1 DEF ConfInv, OwnTopic, BurstsStarted, Topic
<1>5. ASSUME NEW k, Coming(k)
      PROVE  Coming(k)' \/ (toPub[1].kind = "param" /\ toPub[1].k = k)
  <2>1. PICK j \in DOMAIN toPub : toPub[j].kind = "param" /\ toPub[j].k = k
    BY <1>5 DEF Coming
  <2>2. CASE j # 1
    <3>1. j - 1 \in DOMAIN toPub' /\ toPub'[j - 1] = toPub[j]
      BY <1>2, <2>2
    <3> QED
      BY <2>1, <3>1 DEF Coming
  <2> QED
    BY <2>1, <2>2
<1>6. (\E j \in DOMAIN toPub' : toPub'[j].kind = "start")
        => \E j \in DOMAIN toPub : toPub[j].kind = "start"
  BY <1>2
<1>7. Configured'
  <2>1. CASE OnParam
    <3>1. /\ toPub[1].kind = "param" /\ toPub[1].k \in Fields
          /\ cfg' = [cfg EXCEPT ![toPub[1].k] = toPub[1].v] /\ UNCHANGED g_start_nonce
      BY <1>2, <2>1 DEF OnParam, Receive, Requests
    <3>2. apc \in {"settle", "stamp", "wait"} => toPub[1].v = Wanted(toPub[1].k)
      BY <1>2, <3>1 DEF ConfInv, ParamsOfTest
    <3>3. ASSUME apc \in {"settle", "stamp", "wait"},
                 NEW k \in Fields, cfg[k] = Wanted(k) \/ Coming(k)
          PROVE  cfg'[k] = Wanted(k) \/ Coming(k)'
      BY <1>1, <1>5, <3>1, <3>2, <3>3
    <3>4. \/ apc' \in {"settle", "stamp"} /\ pubUp' /\ ctrlUp'
          \/ apc' = "wait" /\ \E j \in DOMAIN toPub' : toPub'[j].kind = "start"
          \/ apc' = "wait" /\ g_start_nonce' = g_nonce'
          => \A k \in Fields : cfg[k] = Wanted(k) \/ Coming(k)
      BY <1>1, <1>6, <3>1 DEF ConfInv, Configured
    <3>5. \/ apc' \in {"settle", "stamp"} /\ pubUp' /\ ctrlUp'
          \/ apc' = "wait" /\ \E j \in DOMAIN toPub' : toPub'[j].kind = "start"
          \/ apc' = "wait" /\ g_start_nonce' = g_nonce'
          => \A k \in Fields : cfg'[k] = Wanted(k)' \/ Coming(k)'
      BY <1>1, <3>3, <3>4, WantedSame
    <3> QED
      BY <1>1, <3>5, WantedSame DEF ConfInv, Configured
  <2>2. CASE OnStart \/ OnReset
    <3>1. cfg' = cfg /\ toPub[1].kind # "param"
      BY <1>2, <2>2 DEF OnStart, OnReset, Receive
    <3>2. \A k \in Fields : Coming(k) => Coming(k)'
      BY <1>5, <3>1
    <3>3. g_start_nonce' = g_start_nonce \/ toPub[1].kind = "start"
      BY <1>2, <2>2 DEF OnStart, OnReset, Receive
    <3>4. \/ apc' \in {"settle", "stamp"} /\ pubUp' /\ ctrlUp'
          \/ apc' = "wait" /\ \E j \in DOMAIN toPub' : toPub'[j].kind = "start"
          \/ apc' = "wait" /\ g_start_nonce' = g_nonce'
          => \A k \in Fields : cfg[k] = Wanted(k) \/ Coming(k)
      BY <1>1, <1>2, <1>6, <3>3 DEF ConfInv, Configured
    <3>5. \/ apc' \in {"settle", "stamp"} /\ pubUp' /\ ctrlUp'
          \/ apc' = "wait" /\ \E j \in DOMAIN toPub' : toPub'[j].kind = "start"
          \/ apc' = "wait" /\ g_start_nonce' = g_nonce'
          => \A k \in Fields : cfg'[k] = Wanted(k)' \/ Coming(k)'
      BY <1>1, <3>1, <3>2, <3>4, WantedSame
    <3> QED
      BY <1>1, <3>5, WantedSame DEF ConfInv, Configured
  <2> QED
    BY <2>1, <2>2 DEF OnRequest
<1> QED
  BY <1>3, <1>4, <1>7 DEF ConfInv

\* A link breaks.
LEMMA ConfiguredFault ==
  ASSUME "drop" \notin Faults, TypeOK, NonceInv, ConfInv, EnvNext, UNCHANGED <<pubVars, anaVars>>
  PROVE  ConfInv'
<1>1. UNCHANGED <<apc, tnum, g_nonce, ppc, snap, cfg, g_start_nonce>>
  BY DEF pubVars, anaVars
<1>2. /\ UNCHANGED toPub \/ (toPub' = << >> /\ ~pubUp')
      /\ UNCHANGED toData \/ toData' = << >>
      /\ pubUp' => pubUp
      /\ ctrlUp' => ctrlUp
  BY DEF EnvNext, LoseRequest, LoseMessage, BreakPublisherLink, BreakControlLink,
         BreakDataLink
<1>3. OwnTopic' /\ BurstsStarted'
  BY <1>1, <1>2 DEF ConfInv, OwnTopic, BurstsStarted, Topic
<1>4. ParamsOfTest'
  BY <1>1, <1>2, WantedSame DEF ConfInv, ParamsOfTest
<1>5. Configured'
  <2>1. CASE UNCHANGED toPub
    BY <1>1, <1>2, <2>1, WantedSame DEF ConfInv, Configured, Coming
  <2>2. CASE toPub' = << >> /\ ~pubUp'
    <3>1. apc = "wait" /\ g_start_nonce = g_nonce => UNCHANGED toPub
      BY <2>2 DEF NonceInv, StartIsLast
    <3> QED
      BY <1>1, <2>2, <3>1, WantedSame DEF ConfInv, Configured, Coming
  <2> QED
    BY <1>2, <2>1, <2>2
<1> QED
  BY <1>3, <1>4, <1>5 DEF ConfInv

\* Every step keeps the publisher's configuration that of the test.
LEMMA ConfiguredInductive ==
  ASSUME "drop" \notin Faults, IndInv, NonceInv, PhaseInv, ConfInv, [Next]_vars
  PROVE  ConfInv'
<1>1. TypeOK
  BY DEF IndInv
<1>2. CASE AnaMain /\ UNCHANGED pubVars
  <2>1. CASE Begin
    BY <1>1, <1>2, <2>1, ConfiguredBegin DEF ConfInv
  <2>2. CASE Launch
    BY <1>2, <2>2, ConfiguredLaunch
  <2>3. CASE \/ Setup \/ Connect \/ Stamp \/ WaitDone \/ WaitTimeout \/ GraceDone
             \/ GraceTimeout \/ RetryReset \/ Reconnect \/ Finish
    BY <1>1, <1>2, <2>3, ConfiguredAnalyser
  <2> QED
    BY <1>2, <2>1, <2>2, <2>3 DEF AnaMain
<1>3. CASE AnaCallbacks /\ UNCHANGED pubVars
  BY <1>1, <1>3, ConfiguredAnalyser DEF AnaCallbacks
<1>4. CASE (PubMain \/ OnRequest) /\ UNCHANGED anaVars
  BY <1>1, <1>4, ConfiguredPublisher, ConfiguredRequest
<1>5. CASE EnvNext /\ UNCHANGED <<pubVars, anaVars>>
  BY <1>1, <1>5, ConfiguredFault
<1>6. CASE UNCHANGED vars
  <2>1. UNCHANGED <<apc, tnum, g_nonce, toPub, toData, pubUp, ctrlUp, cfg, g_start_nonce, ppc,
                    snap>>
    BY <1>6 DEF vars, envVars, pubVars, anaVars
  <2> QED
    BY <2>1, WantedSame DEF ConfInv, ParamsOfTest, Configured, OwnTopic, BurstsStarted,
                            Coming, Topic
<1> QED
  BY <1>2, <1>3, <1>4, <1>5, <1>6 DEF Next, Terminated

\* Without losses, the bursts of an attempt are of the topic of its test.
LEMMA ConfiguredInvariance ==
  ASSUME "slow" \notin Faults, "drop" \notin Faults
  PROVE  Spec => []ConfInv
<1>1. Init => ConfInv
  BY DEF Init, EnvInit, PubInit, AnaInit, ConfInv, ParamsOfTest, Configured, OwnTopic,
         BurstsStarted
<1>2. ConfInv /\ [IndInv /\ NonceInv /\ PhaseInv /\ Next]_vars => ConfInv'
  <2>1. ConfInv /\ UNCHANGED vars => ConfInv'
    <3> SUFFICES ASSUME ConfInv, UNCHANGED vars PROVE ConfInv'
      OBVIOUS
    <3>1. UNCHANGED <<apc, tnum, g_nonce, toPub, toData, pubUp, ctrlUp, cfg, g_start_nonce,
                      ppc, snap>>
      BY DEF vars, envVars, pubVars, anaVars
    <3> QED
      BY <3>1, WantedSame DEF ConfInv, ParamsOfTest, Configured, OwnTopic, BurstsStarted,
                              Coming, Topic
  <2> QED
    BY <2>1, ConfiguredInductive
<1> QED
  BY <1>1, <1>2, Invariance, NonceInvariance, PhaseInvariance, PTL DEF Spec

-----------------------------------------------------------------------------
(* What is in the file of a successful test.                               *)

\* The suite keeps the tests of one topic apart: no two tests of one subscription are
\* equal and no request is dropped, or there is a reconnect between any two tests.
Unmixed ==
  \/ /\ "drop" \notin Faults
     /\ \A s, t \in Tests : Suite[s] = Suite[t] => s = t
  \/ \A t \in Tests : t + 1 \in Tests => Suite[t].sub # Suite[t + 1].sub

\* The tests that may still run on the connections of the test in hand.
Ahead == {t \in Tests : t >= tnum /\ Suite[t].sub = Suite[tnum].sub}

\* A counter message on its way is of the attempt under way, or on_message will not
\* take it for one of the test in hand or of a test that follows on the connection.
InFlight ==
  apc \in {"begin", "settle", "stamp", "wait", "grace"} =>
    \A k \in DOMAIN toData :
      \/ apc \in {"wait", "grace"} /\ toData[k].burst = g_nonce
      \/ \A t \in Ahead : toData[k].topic # Topic(t)

\* The rows held and the one in hand are of the attempt under way, unless a call of its test
\* has overlapped the callback.
RowsOwn ==
  tnum \notin spoiled =>
    /\ apc \in {"settle", "stamp"} => rows = {} /\ inHand = {}
    /\ apc = "wait" => \A m \in rows \cup inHand : m.burst = g_nonce

IsoInv == InFlight /\ RowsOwn /\ WindowIsolation

\* Tests of one subscription with one topic are equal.
LEMMA SameTest ==
  ASSUME NEW s \in Tests, NEW t \in Tests, Suite[s].sub = Suite[t].sub, Topic(s) = Topic(t)
  PROVE  Suite[s] = Suite[t]
<1>1. \A u \in Tests : Suite[u] \in [sub : Int, pub : Int, delay : Int, size : Int]
  BY SuiteAssumption, ElementOfSeq DEF Tests
<1>2. \A u \in Tests : Topic(u) = <<Suite[u].pub, Suite[u].delay, Suite[u].size>>
  <2>1. \A u \in Tests : u # 0
    BY SuiteLength DEF Tests
  <2> QED
    BY <2>1 DEF Topic
<1>3. /\ Suite[s].pub = Suite[t].pub /\ Suite[s].delay = Suite[t].delay
      /\ Suite[s].size = Suite[t].size
  BY <1>2
<1>4. \A u \in Tests : Suite[u] = [sub |-> Suite[u].sub, pub |-> Suite[u].pub,
                                   delay |-> Suite[u].delay, size |-> Suite[u].size]
  BY <1>1
<1> QED
  BY <1>3, <1>4

\* When run_test returns, what is on its way is of no test ahead on the connection.
LEMMA NextForeign ==
  ASSUME "slow" \notin Faults, Unmixed, TypeOK, InFlight,
         "drop" \notin Faults => OwnTopic,
         apc \in {"wait", "grace"}, NextTest, UNCHANGED toData
  PROVE  InFlight'
<1>1. /\ tnum \in Tests /\ retry \in 0 .. MAX_RETRY /\ Len(Suite) \in Nat \ {0}
      /\ \A t \in Tests : t \in Int
  BY SuiteLength DEF TypeOK, AnaTypeOK
<1>2. CASE apc' # "begin"
  BY <1>2 DEF NextTest, InFlight
<1>3. CASE apc' = "begin"
  <2>1. /\ tnum' = tnum + 1 /\ tnum + 1 \in Tests
        /\ Suite[tnum + 1].sub = Suite[tnum].sub
    BY <1>1, <1>3 DEF NextTest, Tests
  <2>2. "drop" \notin Faults /\ \A s, t \in Tests : Suite[s] = Suite[t] => s = t
    BY <1>1, <2>1 DEF Unmixed
  <2>3. \A t \in Ahead' : t \in Ahead /\ t # tnum /\ t \in Tests /\ Suite[t].sub = Suite[tnum].sub
    BY <1>1, <2>1 DEF Ahead
  <2> SUFFICES ASSUME NEW k \in DOMAIN toData, NEW t \in Ahead'
               PROVE  toData[k].topic # Topic(t)
    BY <1>3 DEF InFlight, Topic
  <2>4. CASE toData[k].burst = g_nonce
    <3>1. toData[k].topic = Topic(tnum)
      BY <2>2, <2>4 DEF OwnTopic
    <3> QED
      BY <1>1, <2>2, <2>3, <3>1, SameTest
  <2>5. CASE toData[k].burst # g_nonce
    BY <2>3, <2>5 DEF InFlight
  <2> QED
    BY <2>4, <2>5
<1> QED
  BY <1>2, <1>3

\* Taking a message, or losing them all, leaves the others as they were.
LEMMA FlightTaken ==
  ASSUME TypeOK, InFlight, UNCHANGED <<apc, tnum, g_nonce>>,
         \/ UNCHANGED toData
         \/ toData' = << >>
         \/ toData # << >> /\ toData' = Tail(toData)
  PROVE  InFlight'
<1>1. \A k \in DOMAIN toData' : \E j \in DOMAIN toData : toData'[k] = toData[j]
  BY MessagesLeft DEF TypeOK, EnvTypeOK
<1>2. Ahead' = Ahead
  BY DEF Ahead
<1> QED
  BY <1>1, <1>2 DEF InFlight, Topic

\* A message that is recorded is of the attempt under way.
LEMMA RecordedOwn ==
  ASSUME TypeOK, LoggerOnTest, InFlight, apc \in {"settle", "stamp", "wait"}, toData # << >>,
         NEW topic \in TopicsRead, Recorded(Head(toData), topic)
  PROVE  apc = "wait" /\ Head(toData).burst = g_nonce
<1>1. 1 \in DOMAIN toData /\ Head(toData) = toData[1]
  BY QueueTail DEF TypeOK, EnvTypeOK
<1>2. toData[1].topic = Topic(tnum)
  <2>1. Topic(tnum) \in Topics
    BY SuiteLength, TopicType DEF TypeOK, AnaTypeOK
  <2>2. topic = Topic(tnum)
    BY <2>1 DEF TopicsRead, Topics, LoggerOnTest, Measuring
  <2> QED
    BY <1>1, <2>2 DEF Recorded
<1>3. tnum \in Ahead
  BY SuiteLength DEF Ahead, TypeOK, AnaTypeOK
<1> QED
  BY <1>1, <1>2, <1>3 DEF InFlight

\* A call on the logger at the end of an attempt puts nothing in a file but rows that were held.
LEMMA CommittedRows ==
  ASSUME logTest = tnum, Commit
  PROVE  /\ \A r \in tsv' : r \in tsv \/ (r[1] = tnum /\ r[2] \in rows)
         /\ spoiled \subseteq spoiled'
  BY DEF Commit, Left

\* What is in the files already is of the tests before the one in hand, and stays as it is.
LEMMA IsolationKept ==
  ASSUME IndInv, WindowIsolation, ~Ended, UNCHANGED meta,
         \A r \in tsv' : r \in tsv \/ r[1] = tnum,
         spoiled \ {tnum} \subseteq spoiled'
  PROVE  WindowIsolation'
<1>1. /\ tnum \in Int
      /\ \A i \in DOMAIN meta : meta[i].test < tnum /\ meta[i].test \in Int
  BY SuiteLength, MetaTypes DEF IndInv, TypeOK, AnaTypeOK, MetaBeforeTest, Concluded
<1> SUFFICES ASSUME NEW i \in DOMAIN meta, NEW r \in tsv', meta[i].retries >= 0,
                    r[1] = meta[i].test, r[1] \notin spoiled'
             PROVE  r[2].burst = meta[i].start
  BY DEF WindowIsolation
<1>2. meta[i].test # tnum
  BY <1>1
<1> QED
  BY <1>2 DEF WindowIsolation

\* A test that is recorded as successful takes the rows of its own burst.
LEMMA SuccessIsolated ==
  ASSUME IndInv, IndInv', NonceInv, PhaseInv, IsoInv, WaitDone, UNCHANGED pubVars
  PROVE  WindowIsolation'
<1>1. /\ tnum \in Int /\ apc = "wait" /\ logTest = tnum /\ Commit
      /\ \A i \in DOMAIN meta : meta[i].test < tnum /\ meta[i].test \in Int
      /\ \A r \in tsv : r[1] < tnum
  BY SuiteLength, MetaTypes
  DEF WaitDone, IndInv, TypeOK, AnaTypeOK, LoggerOnTest, Measuring, MetaBeforeTest,
      FilesBeforeTest, Concluded
<1>2. /\ \A r \in tsv' : r \in tsv \/ (r[1] = tnum /\ r[2] \in rows)
      /\ spoiled \subseteq spoiled'
  BY <1>1, CommittedRows
<1> SUFFICES ASSUME NEW i \in DOMAIN meta', NEW r \in tsv', meta'[i].retries >= 0,
                    r[1] = meta'[i].test, r[1] \notin spoiled'
             PROVE  r[2].burst = meta'[i].start
  BY DEF WindowIsolation
<1>3. CASE i \in DOMAIN meta /\ meta'[i] = meta[i]
  <2>1. meta[i].test # tnum
    BY <1>1, <1>3
  <2> QED
    BY <1>2, <1>3, <2>1 DEF IsoInv, WindowIsolation
<1>4. CASE meta'[i].test = tnum /\ meta'[i].start = g_nonce
  <2>1. r \notin tsv
    BY <1>1, <1>4
  <2> QED
    BY <1>1, <1>2, <1>4, <2>1 DEF IsoInv, RowsOwn
<1> QED
  BY <1>3, <1>4, SuccessRows DEF Next, AnaMain

\* The end of an attempt without a "done" concludes no test as a success.
LEMMA FailureIsolated ==
  ASSUME IndInv, NonceInv, PhaseInv, IsoInv, Settled /\ GraceTimeout, UNCHANGED pubVars
  PROVE  WindowIsolation'
<1>1. /\ tnum \in Int /\ apc = "grace" /\ logTest = tnum
      /\ \A i \in DOMAIN meta : meta[i].test < tnum /\ meta[i].test \in Int
  BY SuiteLength, MetaTypes
  DEF GraceTimeout, IndInv, TypeOK, AnaTypeOK, LoggerOnTest, Measuring, MetaBeforeTest,
      Concluded
<1>2. /\ \A r \in tsv' : r \in tsv \/ r[1] = tnum
      /\ spoiled \subseteq spoiled'
  <2>1. CASE Commit
    BY <1>1, <2>1, CommittedRows
  <2>2. CASE Flush /\ UNCHANGED tsv
    BY <2>2 DEF Flush
  <2> QED
    BY <2>1, <2>2 DEF GraceTimeout
<1> SUFFICES ASSUME NEW i \in DOMAIN meta', NEW r \in tsv', meta'[i].retries >= 0,
                    r[1] = meta'[i].test, r[1] \notin spoiled'
             PROVE  r[2].burst = meta'[i].start
  BY DEF WindowIsolation
<1>3. i \in DOMAIN meta /\ meta'[i] = meta[i]
  <2>1. ~WaitDone
    BY <1>1 DEF WaitDone
  <2> QED
    BY <2>1, SuccessRows DEF Next, AnaMain
<1>4. meta[i].test # tnum
  BY <1>1, <1>3
<1> QED
  BY <1>2, <1>3, <1>4 DEF IsoInv, WindowIsolation

\* Steps of the analyser.
LEMMA IsolatedAnalyser ==
  ASSUME "slow" \notin Faults, Unmixed, IndInv, IndInv', NonceInv, PhaseInv, IsoInv,
         "drop" \notin Faults => OwnTopic,
         AnaMain, UNCHANGED pubVars
  PROVE  IsoInv'
<1>0. TypeOK /\ LoggerOnTest /\ InFlight /\ RowsOwn /\ WindowIsolation
  BY DEF IndInv, IsoInv
<1>1. CASE Setup \/ Connect \/ Reconnect \/ Finish
  <2>1. UNCHANGED <<meta, tsv, spoiled>>
    BY <1>1 DEF Setup, Connect, Reconnect, Finish
  <2>2. \/ apc' \notin {"begin", "settle", "stamp", "wait", "grace"}
        \/ apc' = "begin" /\ toData' = << >>
    BY <1>1 DEF Setup, Connect, ConnectClients, Drained, Reconnect, Finish, Continue,
                NextAttempt, NextTest
  <2>3. InFlight' /\ RowsOwn'
    BY <2>2 DEF InFlight, RowsOwn
  <2> QED
    BY <1>0, <2>1, <2>3 DEF IsoInv, WindowIsolation
<1>2. CASE Begin \/ RetryReset
  <2>1. /\ UNCHANGED <<meta, tsv, tnum, toData>> /\ SetTest(tnum) /\ ~Ended
        /\ \/ apc = "begin" /\ apc' = "settle"
           \/ apc' = "reconnect"
    BY <1>2 DEF Begin, RetryReset
  <2>2. /\ spoiled \ {tnum} \subseteq spoiled'
        /\ tnum \notin spoiled' => rows' = {} /\ inHand' = {}
    BY <2>1 DEF SetTest, Overlapping, Left
  <2>3. WindowIsolation'
    BY <1>0, <2>1, <2>2, IsolationKept
  <2>4. Ahead' = Ahead
    BY <2>1 DEF Ahead
  <2>5. InFlight'
    BY <1>0, <2>1, <2>4 DEF InFlight, Topic
  <2>6. RowsOwn'
    BY <2>1, <2>2 DEF RowsOwn
  <2> QED
    BY <2>3, <2>5, <2>6 DEF IsoInv
<1>3. CASE Stamp \/ Launch \/ WaitTimeout
  <2>1. UNCHANGED <<meta, store, tnum, toData>>
    BY <1>3 DEF Stamp, Launch, WaitTimeout, netVars
  <2>2. WindowIsolation'
    BY <1>0, <2>1 DEF WindowIsolation
  <2>3. \/ apc \in {"settle", "stamp"} /\ apc' \in {"stamp", "wait"}
        \/ apc = "wait" /\ apc' = "grace" /\ g_nonce' = g_nonce
    BY <1>3 DEF Stamp, Launch, WaitTimeout
  <2>4. Ahead' = Ahead
    BY <2>1 DEF Ahead
  <2>5. InFlight'
    BY <1>0, <2>1, <2>3, <2>4 DEF InFlight, Topic
  <2>6. RowsOwn'
    BY <1>0, <2>1, <2>3 DEF RowsOwn
  <2> QED
    BY <2>2, <2>5, <2>6 DEF IsoInv
<1>4. CASE WaitDone
  <2>1. NextTest /\ UNCHANGED toData /\ apc = "wait"
    BY <1>4 DEF WaitDone, netVars
  <2>2. InFlight'
    BY <1>0, <2>1, NextForeign
  <2>3. RowsOwn'
    BY <2>1 DEF RowsOwn, NextTest
  <2> QED
    BY <1>4, <2>2, <2>3, SuccessIsolated DEF IsoInv
<1>5. ~GraceDone
  BY DEF PhaseInv, Quiet, GraceDone
<1>6. CASE Settled /\ GraceTimeout
  <2>1. UNCHANGED toData /\ apc = "grace" /\ (apc' = "retry" \/ NextTest)
    BY <1>6 DEF GraceTimeout, NextAttempt, envVars
  <2>2. InFlight'
    BY <1>0, <2>1, NextForeign DEF InFlight
  <2>3. RowsOwn'
    BY <2>1 DEF RowsOwn, NextTest
  <2> QED
    BY <1>6, <2>2, <2>3, FailureIsolated DEF IsoInv
<1> QED
  BY <1>1, <1>2, <1>3, <1>4, <1>5, <1>6 DEF AnaMain

\* Callbacks of the analyser.
LEMMA IsolatedCallback ==
  ASSUME IndInv, IsoInv, AnaCallbacks, UNCHANGED pubVars
  PROVE  IsoInv'
<1>0. TypeOK /\ LoggerOnTest /\ InFlight /\ RowsOwn /\ WindowIsolation
  BY DEF IndInv, IsoInv
<1>1. UNCHANGED <<meta, tsv, spoiled, apc, tnum, logTest, g_nonce>>
  BY DEF AnaCallbacks, OnDone, OnCounter, LogRow
<1>2. \/ UNCHANGED toData
      \/ toData # << >> /\ toData' = Tail(toData)
  BY DEF AnaCallbacks, OnDone, OnCounter, LogRow, envVars
<1>3. InFlight'
  BY <1>0, <1>1, <1>2, FlightTaken
<1>4. WindowIsolation'
  BY <1>0, <1>1 DEF WindowIsolation
<1>5. RowsOwn'
  <2>1. CASE OnDone \/ LogRow
    <3>1. rows' \cup inHand' \subseteq rows \cup inHand
      BY <2>1 DEF OnDone, LogRow
    <3> QED
      BY <1>0, <1>1, <3>1 DEF RowsOwn
  <2>2. CASE OnCounter
    <3>1. UNCHANGED rows /\ toData # << >>
      BY <2>2 DEF OnCounter
    <3>2. PICK topic \in TopicsRead : inHand' = {m \in {Head(toData)} : Recorded(m, topic)}
      BY <2>2 DEF OnCounter
    <3>3. ASSUME apc \in {"settle", "stamp", "wait"}
          PROVE  inHand' = {} \/ (apc = "wait" /\ \A m \in inHand' : m.burst = g_nonce)
      BY <1>0, <3>1, <3>2, <3>3, RecordedOwn
    <3> QED
      BY <1>0, <1>1, <3>1, <3>3 DEF RowsOwn
  <2> QED
    BY <2>1, <2>2 DEF AnaCallbacks
<1> QED
  BY <1>3, <1>4, <1>5 DEF IsoInv

\* Steps of the publisher and of the environment.
LEMMA IsolatedElsewhere ==
  ASSUME IndInv, PhaseInv, IsoInv, UNCHANGED anaVars,
         \/ PubMain \/ OnRequest
         \/ EnvNext /\ UNCHANGED pubVars
  PROVE  IsoInv'
<1>0. TypeOK /\ InFlight /\ RowsOwn /\ WindowIsolation
  BY DEF IndInv, IsoInv
<1>1. UNCHANGED <<meta, tsv, rows, inHand, spoiled, apc, tnum, g_nonce>>
  BY DEF anaVars
<1>2. WindowIsolation' /\ RowsOwn'
  BY <1>0, <1>1 DEF WindowIsolation, RowsOwn
<1>3. CASE ~PublishMessage
  <2>1. \/ UNCHANGED toData
        \/ toData' = << >>
        \/ toData # << >> /\ toData' = Tail(toData)
    BY <1>3 DEF PubMain, PollStart, SnapshotField, OpenBurst, AbortBurst, EndBurst, SendDone,
                envVars, OnRequest, OnParam, OnStart, OnReset, Receive, EnvNext, LoseRequest,
                LoseMessage, BreakPublisherLink, BreakControlLink, BreakDataLink
  <2> QED
    BY <1>0, <1>1, <1>2, <2>1, FlightTaken DEF IsoInv
<1>4. CASE PublishMessage
  <2>1. apc = "wait" /\ launch = g_nonce
    BY <1>4 DEF PublishMessage, PhaseInv, Quiet, OneAnswer
  <2>2. Ahead' = Ahead
    BY <1>1 DEF Ahead
  <2>3. \A k \in DOMAIN toData' :
          (k \in DOMAIN toData /\ toData'[k] = toData[k]) \/ toData'[k].burst = g_nonce
    BY <1>0, <1>4, <2>1, MessagesSent
  <2>4. InFlight'
    BY <1>0, <1>1, <2>1, <2>2, <2>3 DEF InFlight, Topic
  <2> QED
    BY <1>2, <2>4 DEF IsoInv
<1> QED
  BY <1>3, <1>4

\* Every step keeps the files of the successful tests apart.
LEMMA IsolationInductive ==
  ASSUME "slow" \notin Faults, Unmixed, IndInv, IndInv', NonceInv, PhaseInv, IsoInv,
         "drop" \notin Faults => OwnTopic,
         Next
  PROVE  IsoInv'
<1>1. CASE AnaMain /\ UNCHANGED pubVars
  BY <1>1, IsolatedAnalyser
<1>2. CASE AnaCallbacks /\ UNCHANGED pubVars
  BY <1>2, IsolatedCallback
<1>3. CASE (PubMain \/ OnRequest) /\ UNCHANGED anaVars
  BY <1>3, IsolatedElsewhere
<1>4. CASE EnvNext /\ UNCHANGED <<pubVars, anaVars>>
  BY <1>4, IsolatedElsewhere
<1>5. CASE Terminated
  BY <1>5 DEF Terminated, vars, envVars, anaVars, IsoInv, InFlight, Ahead, Topic, RowsOwn,
              WindowIsolation
<1> QED
  BY <1>1, <1>2, <1>3, <1>4, <1>5 DEF Next

\* For every suite that keeps its tests apart, every skew of the clocks, every way the calls on
\* the logger overlap its callback and every other fault: the file of a test that is recorded
\* as successful holds no row but those of the burst that its last "start" asked for, unless
\* a call of that very test overlapped the callback.
THEOREM FilesIsolated ==
  ASSUME "slow" \notin Faults, Unmixed
  PROVE  Spec => []WindowIsolation
<1>1. Init => IsoInv
  BY DEF Init, EnvInit, AnaInit, IsoInv, InFlight, RowsOwn, WindowIsolation
<1>2. IsoInv /\ UNCHANGED vars => IsoInv'
  BY DEF vars, envVars, anaVars, IsoInv, InFlight, Ahead, Topic, RowsOwn,
         WindowIsolation
<1>3. IsoInv => WindowIsolation
  BY DEF IsoInv
<1>4. CASE "drop" \in Faults
  <2>1. IsoInv /\ [IndInv /\ IndInv' /\ NonceInv /\ PhaseInv /\ Next]_vars => IsoInv'
    BY <1>2, <1>4, IsolationInductive
  <2> QED
    BY <1>1, <1>3, <2>1, Invariance, NonceInvariance, PhaseInvariance, PTL DEF Spec
<1>5. CASE "drop" \notin Faults
  <2>1. IsoInv /\ [IndInv /\ IndInv' /\ NonceInv /\ PhaseInv /\ ConfInv /\ Next]_vars => IsoInv'
    BY <1>2, IsolationInductive DEF ConfInv
  <2>2. Spec => []ConfInv
    BY <1>5, ConfiguredInvariance
  <2> QED
    BY <1>1, <1>3, <2>1, <2>2, Invariance, NonceInvariance, PhaseInvariance, PTL DEF Spec
<1> QED
  BY <1>4, <1>5

\* The suite of the code consists of 54 tests, and no two of them are equal.
LEMMA FullSuiteTests ==
  /\ FullSuite \in Seq([sub : Int, pub : Int, delay : Int, size : Int])
  /\ Len(FullSuite) = 54
  /\ \A s, t \in 1 .. 54 : FullSuite[s] = FullSuite[t] => s = t
<1> DEFINE subs == <<0, 1, 2>>
           pubs == <<0, 1, 2>>
           delays == <<0, 100>>
           sizes == <<1, 1000, 4000>>
           test(i) == [sub   |-> subs[1 + i \div 18],
                       pub   |-> pubs[1 + ((i \div 6) % 3)],
                       delay |-> delays[1 + ((i \div 3) % 2)],
                       size  |-> sizes[1 + (i % 3)]]
<1>1. FullSuite = [t \in 1 .. 54 |-> test(t - 1)]
  <2>1. Len(subs) = 3 /\ Len(pubs) = 3 /\ Len(delays) = 2 /\ Len(sizes) = 3
    OBVIOUS
  <2> HIDE DEF subs, pubs, delays, sizes
  <2>2. 3 * 2 = 6 /\ 3 * 2 * 3 = 18 /\ 3 * 3 * 2 * 3 = 54
    OBVIOUS
  <2>3. FullSuite = SuiteOf(subs, pubs, delays, sizes)
    BY DEF FullSuite, subs, pubs, delays, sizes
  <2> QED
    BY <2>1, <2>2, <2>3 DEF SuiteOf
<1>2. \A i \in 0 .. 53 :
        /\ i \div 18 \in 0 .. 2 /\ (i \div 6) % 3 \in 0 .. 2
        /\ (i \div 3) % 2 \in 0 .. 1 /\ i % 3 \in 0 .. 2
        /\ i = 18 * (i \div 18) + 6 * ((i \div 6) % 3) + 3 * ((i \div 3) % 2) + (i % 3)
  <2> TAKE i \in 0 .. 53
  <2> DEFINE q == i \div 18   r == i \div 6   h == i \div 3
  <2>1. /\ 18 * q <= i /\ i < 18 * q + 18 /\ q \in Int
        /\ 6 * r <= i /\ i < 6 * r + 6 /\ r \in Int
        /\ 3 * h <= i /\ i < 3 * h + 3 /\ h \in Int
    OBVIOUS
  <2>2. i % 3 = i - 3 * h
    OBVIOUS
  <2> HIDE DEF q, r, h
  <2>3. q \in 0 .. 2 /\ r - 3 * q \in 0 .. 2 /\ h - 2 * r \in 0 .. 1 /\ i - 3 * h \in 0 .. 2
    BY <2>1
  <2>4. r % 3 = r - 3 * q
    BY <2>1, <2>3
  <2>5. h % 2 = h - 2 * r
    BY <2>1, <2>3
  <2> QED
    BY <2>1, <2>2, <2>3, <2>4, <2>5 DEF q, r, h
<1>3. \A a, b \in 1 .. 3 :
        /\ subs[a] \in Int /\ pubs[a] \in Int /\ sizes[a] \in Int
        /\ (subs[a] = subs[b] => a = b) /\ (pubs[a] = pubs[b] => a = b)
        /\ (sizes[a] = sizes[b] => a = b)
  OBVIOUS
<1>4. \A a, b \in 1 .. 2 : delays[a] \in Int /\ (delays[a] = delays[b] => a = b)
  OBVIOUS
<1> HIDE DEF subs, pubs, delays, sizes
<1>5. \A i \in 0 .. 53 : test(i) \in [sub : Int, pub : Int, delay : Int, size : Int]
  <2> TAKE i \in 0 .. 53
  <2> DEFINE a == 1 + i \div 18   b == 1 + ((i \div 6) % 3)
             c == 1 + ((i \div 3) % 2)   d == 1 + (i % 3)
  <2>1. a \in 1 .. 3 /\ b \in 1 .. 3 /\ c \in 1 .. 2 /\ d \in 1 .. 3
    BY <1>2
  <2>2. test(i) = [sub |-> subs[a], pub |-> pubs[b], delay |-> delays[c], size |-> sizes[d]]
    OBVIOUS
  <2> HIDE DEF a, b, c, d, test
  <2> QED
    BY <1>3, <1>4, <2>1, <2>2
<1>6. ASSUME NEW i \in 0 .. 53, NEW j \in 0 .. 53, test(i) = test(j) PROVE i = j
  <2>1. /\ subs[1 + i \div 18] = subs[1 + j \div 18]
        /\ pubs[1 + ((i \div 6) % 3)] = pubs[1 + ((j \div 6) % 3)]
        /\ delays[1 + ((i \div 3) % 2)] = delays[1 + ((j \div 3) % 2)]
        /\ sizes[1 + (i % 3)] = sizes[1 + (j % 3)]
    BY <1>6
  <2>2. /\ i \div 18 = j \div 18 /\ (i \div 6) % 3 = (j \div 6) % 3
        /\ (i \div 3) % 2 = (j \div 3) % 2 /\ i % 3 = j % 3
    <3> DEFINE a(k) == k \div 18   b(k) == (k \div 6) % 3   c(k) == (k \div 3) % 2
               d(k) == k % 3
    <3>1. \A k \in {i, j} : a(k) \in 0 .. 2 /\ b(k) \in 0 .. 2 /\ c(k) \in 0 .. 1 /\ d(k) \in 0 .. 2
      BY <1>2
    <3>2. /\ subs[1 + a(i)] = subs[1 + a(j)] /\ pubs[1 + b(i)] = pubs[1 + b(j)]
          /\ delays[1 + c(i)] = delays[1 + c(j)] /\ sizes[1 + d(i)] = sizes[1 + d(j)]
      BY <2>1
    <3> HIDE DEF a, b, c, d
    <3>3. /\ 1 + a(i) = 1 + a(j) /\ 1 + b(i) = 1 + b(j)
          /\ 1 + c(i) = 1 + c(j) /\ 1 + d(i) = 1 + d(j)
      BY <1>3, <1>4, <3>1, <3>2
    <3>4. a(i) = a(j) /\ b(i) = b(j) /\ c(i) = c(j) /\ d(i) = d(j)
      BY <3>1, <3>3
    <3> QED
      BY <3>4 DEF a, b, c, d
  <2>3. /\ i = 18 * (i \div 18) + 6 * ((i \div 6) % 3) + 3 * ((i \div 3) % 2) + (i % 3)
        /\ j = 18 * (j \div 18) + 6 * ((j \div 6) % 3) + 3 * ((j \div 3) % 2) + (j % 3)
    BY <1>2
  <2> QED
    BY <2>2, <2>3
<1> HIDE DEF test
<1>7. \A t \in 1 .. 54 : t - 1 \in 0 .. 53 /\ FullSuite[t] = test(t - 1)
  BY <1>1
<1>8. FullSuite \in Seq([sub : Int, pub : Int, delay : Int, size : Int])
  BY <1>1, <1>5, <1>7
<1>9. Len(FullSuite) = 54
  BY <1>1, <1>8
<1>10. ASSUME NEW s \in 1 .. 54, NEW t \in 1 .. 54, FullSuite[s] = FullSuite[t] PROVE s = t
  <2>1. s - 1 = t - 1
    BY <1>6, <1>7, <1>10
  <2> QED
    BY <2>1
<1> QED
  BY <1>8, <1>9, <1>10

\* It keeps its tests apart: as long as no request or message is dropped on a connection that
\* stays up, the files of its successful tests hold rows of their own bursts only.
THEOREM FullSuiteIsolated ==
  ASSUME Suite = FullSuite, "slow" \notin Faults, "drop" \notin Faults
  PROVE  Spec => []WindowIsolation
<1>1. Unmixed
  BY FullSuiteTests DEF Unmixed, Tests
<1> QED
  BY <1>1, FilesIsolated

-----------------------------------------------------------------------------
(* That the report tells the truth about the successful tests.             *)

\* The two clocks agree.
ClocksAgree == Skew = 0

\* What arrived, is recorded or is committed has been published.
Published(m) == [msg |-> m, rc |-> 0] \in pubTsv
Provenance ==
  /\ \A k \in DOMAIN toData : Published(toData[k])
  /\ \A m \in rows \cup inHand : Published(m)
  /\ \A r \in tsv : Published(r[2])

\* A message is stamped between the start it answers and now, and before the start of
\* the attempt under way if it is of another.
Stamped ==
  \A p \in pubTsv :
    /\ p.msg.burst <= p.msg.ts /\ p.msg.ts <= clock
    /\ apc = "stamp" => p.msg.ts < g_test_start_ts
    /\ apc = "wait" /\ p.msg.burst # g_nonce => p.msg.ts < g_test_start_ts

\* The window of a successful test holds its burst and no other.
WindowsTrue ==
  \A i \in DOMAIN meta : meta[i].retries >= 0 =>
    \A p \in pubTsv : p.msg.burst = meta[i].start <=> InWindow(meta[i], p.msg)

\* The publisher has a file for every topic on which it tried to publish.
FilesOpened ==
  /\ \A p \in pubTsv : p.msg.topic \in pubFiles
  /\ ppc = "burst" => snap \in pubFiles

RepInv == Provenance /\ Stamped /\ WindowsTrue /\ FilesOpened

\* The analyser's steps, and the losses, invent no messages.
LEMMA ProvenanceStep ==
  ASSUME TypeOK, Provenance, [Next]_vars
  PROVE  Provenance'
<1>1. CASE PublishMessage /\ UNCHANGED anaVars
  <2> DEFINE m == [topic |-> snap, n |-> counter, ts |-> PublisherClock, burst |-> launch]
  <2>1. UNCHANGED <<rows, inHand, tsv>> /\ pubTsv \subseteq pubTsv'
    BY <1>1 DEF anaVars, PublishMessage
  <2>2. pubUp => [msg |-> m, rc |-> 0] \in pubTsv'
    BY <1>1 DEF PublishMessage
  <2>3. \A k \in DOMAIN toData' :
          (k \in DOMAIN toData /\ toData'[k] = toData[k]) \/ (pubUp /\ toData'[k] = m)
    BY <1>1, MessagesSent
  <2> HIDE DEF m
  <2> QED
    BY <2>1, <2>2, <2>3 DEF Provenance, Published
<1>2. CASE UNCHANGED pubTsv
  <2>1. \/ UNCHANGED toData
        \/ toData' = << >>
        \/ toData # << >> /\ toData' = Tail(toData)
        \/ PublishMessage /\ UNCHANGED anaVars
    BY DEF Next, Terminated, vars, envVars, netVars, AnaMain, Setup, Connect, ConnectClients,
           Drained, Begin, Stamp, Launch, WaitDone, WaitTimeout, GraceDone, GraceTimeout,
           RetryReset, Reconnect, Finish, AnaCallbacks, OnDone, OnCounter, LogRow,
           PubMain, PollStart,
           SnapshotField, OpenBurst, AbortBurst, EndBurst, SendDone, OnRequest, OnParam,
           OnStart, OnReset, Receive, EnvNext, LoseRequest, LoseMessage, BreakPublisherLink,
           BreakControlLink, BreakDataLink
  <2>2. /\ rows' \subseteq rows \cup inHand
        /\ \/ inHand' \subseteq inHand
           \/ toData # << >> /\ inHand' \subseteq {Head(toData)}
    BY DEF Next, Terminated, vars, AnaMain, Setup, Connect, Begin, SetTest, Left, Stamp,
           Launch, WaitDone, Commit, Flush, WaitTimeout, GraceDone, GraceTimeout, RetryReset,
           Reconnect,
           Finish, AnaCallbacks, OnDone, OnCounter, LogRow, anaVars
  <2>3. \A r \in tsv' : r \in tsv \/ r[2] \in rows
    BY DEF Next, Terminated, vars, AnaMain, Setup, Connect, Begin, Stamp, Launch,
           WaitDone, Commit, Left, WaitTimeout, GraceDone, GraceTimeout, RetryReset, Reconnect,
           Finish, AnaCallbacks, OnDone, OnCounter, LogRow, anaVars
  <2>4. toData \in Seq(Messages)
    BY DEF TypeOK, EnvTypeOK
  <2>5. \A m : Published(m) => Published(m)'
    BY <1>2 DEF Published
  <2>6. \A m \in rows' \cup inHand' : Published(m)
    <3>1. toData # << >> => 1 \in DOMAIN toData /\ Head(toData) = toData[1]
      BY <2>4, QueueTail
    <3> QED
      BY <2>2, <3>1 DEF Provenance
  <2>7. \A r \in tsv' : Published(r[2])
    BY <2>3 DEF Provenance
  <2>8. CASE PublishMessage /\ UNCHANGED anaVars
    BY <1>1, <2>8
  <2>9. CASE ~(PublishMessage /\ UNCHANGED anaVars)
    <3>1. \A k \in DOMAIN toData' : \E j \in DOMAIN toData : toData'[k] = toData[j]
      BY <2>1, <2>4, <2>9, MessagesLeft
    <3> QED
      BY <1>2, <2>6, <2>7, <3>1 DEF Provenance, Published
  <2> QED
    BY <2>8, <2>9
<1> QED
  BY <1>1, <1>2, TsvAlone

\* A message keeps its place among the stamps.
LEMMA StampedStep ==
  ASSUME ClocksAgree, "slow" \notin Faults, IndInv, IndInv', NonceInv, PhaseInv, Stamped,
         Next
  PROVE  Stamped'
<1>0. TypeOK /\ TypeOK'
  BY DEF IndInv
<1>1. CASE PublishMessage /\ UNCHANGED anaVars
  <2> SUFFICES ASSUME NEW p \in pubTsv'
               PROVE  /\ p.msg.burst <= p.msg.ts /\ p.msg.ts <= clock'
                      /\ apc' = "stamp" => p.msg.ts < g_test_start_ts'
                      /\ apc' = "wait" /\ p.msg.burst # g_nonce' => p.msg.ts < g_test_start_ts'
    BY DEF Stamped
  <2>1. UNCHANGED <<apc, g_nonce, g_test_start_ts>>
    BY <1>1 DEF anaVars
  <2>2. /\ apc = "wait" /\ g_nonce = g_test_start_ts /\ g_test_start_ts <= clock
        /\ clock' = clock
        /\ p \in pubTsv \/ (p.msg.burst = g_nonce /\ p.msg.ts = clock + Skew)
    BY <1>1, NewRow
  <2>3. CASE p \in pubTsv
    BY <2>1, <2>2, <2>3 DEF Stamped
  <2>4. CASE p.msg.burst = g_nonce /\ p.msg.ts = clock + Skew
    BY <1>0, <2>1, <2>2, <2>4, StampTypes DEF ClocksAgree
  <2> QED
    BY <2>2, <2>3, <2>4
<1>2. CASE ~(PublishMessage /\ UNCHANGED anaVars)
  <2>1. UNCHANGED pubTsv
    BY <1>2, TsvAlone
  <2> SUFFICES ASSUME NEW p \in pubTsv
               PROVE  /\ p.msg.burst <= p.msg.ts /\ p.msg.ts <= clock'
                      /\ apc' = "stamp" => p.msg.ts < g_test_start_ts'
                      /\ apc' = "wait" /\ p.msg.burst # g_nonce' => p.msg.ts < g_test_start_ts'
    BY <2>1 DEF Stamped
  <2>2. /\ p.msg.burst \in Int /\ p.msg.ts \in Int
        /\ clock \in Int /\ g_nonce \in Int /\ g_test_start_ts \in Int
    BY <1>0, RowTypes, StampTypes
  <2>3. /\ p.msg.burst <= p.msg.ts /\ p.msg.ts <= clock
        /\ apc = "stamp" => p.msg.ts < g_test_start_ts
        /\ apc = "wait" /\ p.msg.burst # g_nonce => p.msg.ts < g_test_start_ts
    BY DEF Stamped
  <2>4. CASE Stamp
    <3>1. clock' = clock + 1 /\ g_test_start_ts' = clock' /\ UNCHANGED g_nonce /\ apc' = "stamp"
      BY <2>4 DEF Stamp, Tick
    <3> QED
      BY <2>2, <2>3, <3>1, SkewAssumption DEF ClocksAgree
  <2>5. CASE Launch
    <3>1. /\ apc = "stamp" /\ clock' = clock + 1 /\ UNCHANGED g_test_start_ts
          /\ g_nonce' = g_test_start_ts /\ apc' = "wait"
      BY <2>5 DEF Launch, Tick, PhaseInv, Quiet
    <3>2. g_nonce < g_test_start_ts
      BY <3>1 DEF NonceInv, NoncesInOrder
    <3> QED
      BY <2>2, <2>3, <3>1, <3>2, SkewAssumption
  <2>6. CASE ~Stamp /\ ~Launch
    <3>1. UNCHANGED g_nonce /\ (clock' = clock \/ clock' = clock + 1)
      BY <2>6 DEF Next, Terminated, vars, envVars, anaVars, AnaMain, Setup, Connect,
           ConnectClients, Drained, Begin, WaitDone, WaitTimeout, GraceDone, GraceTimeout,
           RetryReset, Reconnect, Finish, AnaCallbacks, OnDone, OnCounter, LogRow,
           PubMain, PollStart,
           SnapshotField, OpenBurst, PublishMessage, AbortBurst, EndBurst, SendDone, OnRequest,
           OnParam, OnStart, OnReset, Receive, EnvNext, LoseRequest, LoseMessage,
           BreakPublisherLink, BreakControlLink, BreakDataLink, Tick
    <3>2. apc' \notin {"stamp", "wait"} \/ UNCHANGED <<apc, g_test_start_ts>>
      BY <2>6 DEF Next, Terminated, vars, anaVars, AnaMain, Setup, Connect, ConnectClients,
           Begin, WaitDone, WaitTimeout, GraceDone, ReturnLate, GraceTimeout, RetryReset,
           Reconnect, Finish, Continue, NextAttempt, NextTest, AnaCallbacks, OnDone,
           OnCounter, LogRow
    <3> QED
      BY <2>2, <2>3, <3>1, <3>2, SkewAssumption
  <2> QED
    BY <2>4, <2>5, <2>6
<1> QED
  BY <1>1, <1>2

\* run_burst opens the file before it publishes.
LEMMA FilesOpenedStep ==
  ASSUME FilesOpened, [Next]_vars
  PROVE  FilesOpened'
<1>1. CASE PubMain
  <2>1. CASE PublishMessage
    <3> DEFINE m == [topic |-> snap, n |-> counter, ts |-> PublisherClock, burst |-> launch]
    <3>1. \A p \in pubTsv' : p \in pubTsv \/ p.msg = m
      BY <2>1 DEF PublishMessage
    <3>2. ppc = "burst" /\ UNCHANGED <<snap, pubFiles>> /\ m.topic = snap
      BY <2>1 DEF PublishMessage
    <3> HIDE DEF m
    <3> QED
      BY <3>1, <3>2 DEF FilesOpened
  <2>2. CASE OpenBurst
    BY <2>2 DEF OpenBurst, FilesOpened
  <2>3. CASE PollStart \/ SnapshotField \/ AbortBurst \/ EndBurst \/ SendDone
    BY <2>3 DEF PollStart, SnapshotField, AbortBurst, EndBurst, SendDone, FilesOpened
  <2> QED
    BY <1>1, <2>1, <2>2, <2>3 DEF PubMain
<1>2. CASE UNCHANGED <<pubTsv, pubFiles, ppc, snap>>
  BY <1>2 DEF FilesOpened
<1> QED
  BY <1>1, <1>2 DEF Next, Terminated, vars, pubVars, OnRequest, OnParam, OnStart, OnReset,
                    Receive

\* The windows keep their bursts.
LEMMA WindowsTrueStep ==
  ASSUME ClocksAgree, "slow" \notin Faults, IndInv, NonceInv, PhaseInv, Stamped, WindowsTrue,
         Next
  PROVE  WindowsTrue'
<1>0. TypeOK
  BY DEF IndInv
<1>1. SUFFICES ASSUME NEW i \in DOMAIN meta', meta'[i].retries >= 0
               PROVE  \A p \in pubTsv' :
                        p.msg.burst = meta'[i].start <=> InWindow(meta'[i], p.msg)
  BY DEF WindowsTrue, InWindow
<1>2. CASE i \in DOMAIN meta /\ meta'[i] = meta[i]
  <2>2. ASSUME NEW p \in pubTsv' \ pubTsv
        PROVE  p.msg.burst # meta[i].start /\ ~InWindow(meta[i], p.msg)
    <3>1. PublishMessage /\ UNCHANGED anaVars
      BY <2>2, TsvAlone
    <3>2. /\ apc = "wait" /\ g_nonce = g_test_start_ts /\ g_test_start_ts <= clock
          /\ p.msg.burst = g_nonce /\ p.msg.ts = clock + Skew
      BY <2>2, <3>1, NewRow
    <3>3. meta[i].start <= meta[i].end /\ meta[i].end < g_test_start_ts
      BY <1>2, <3>2 DEF IndInv, WindowsDisjoint, WindowOpen
    <3>4. /\ meta[i].start \in Int /\ meta[i].end \in Int
          /\ clock \in Int /\ g_test_start_ts \in Int
      BY <1>0, <1>2, MetaTypes, StampTypes DEF TypeOK, AnaTypeOK
    <3> QED
      BY <3>2, <3>3, <3>4 DEF InWindow, ClocksAgree
  <2> QED
    BY <1>1, <1>2, <2>2 DEF WindowsTrue
<1>3. CASE /\ WaitDone /\ UNCHANGED pubVars
           /\ meta'[i].test = tnum /\ meta'[i].start = g_nonce /\ meta'[i].end = clock
  <2>1. apc = "wait" /\ logTest = tnum /\ g_nonce = g_test_start_ts
    BY <1>3 DEF WaitDone, IndInv, LoggerOnTest, Measuring, NonceInv, NoncesInOrder
  <2>3. UNCHANGED pubTsv
    BY <1>3 DEF pubVars
  <2>4. ASSUME NEW p \in pubTsv
        PROVE  p.msg.burst = g_nonce <=> (g_nonce <= p.msg.ts /\ p.msg.ts <= clock)
    <3>1. /\ p.msg.burst \in Int /\ p.msg.ts \in Int
          /\ clock \in Int /\ g_nonce \in Int /\ g_test_start_ts \in Int
      BY <1>0, RowTypes, StampTypes
    <3> QED
      BY <2>1, <3>1 DEF Stamped, ClocksAgree
  <2> QED
    BY <1>3, <2>3, <2>4 DEF InWindow
<1> QED
  BY <1>1, <1>2, <1>3, SuccessRows

\* Every step keeps RepInv.
LEMMA ReportInductive ==
  ASSUME ClocksAgree, "slow" \notin Faults, IndInv, IndInv', NonceInv, PhaseInv, RepInv, Next
  PROVE  RepInv'
  BY ProvenanceStep, StampedStep, WindowsTrueStep, FilesOpenedStep DEF RepInv, IndInv

\* The report of a state in which the windows are true.
LEMMA TruthOfReport == IndInv /\ OnceInv /\ RepInv => ReportTruthful
<1> SUFFICES ASSUME IndInv, OnceInv, RepInv, NEW i \in DOMAIN meta, meta[i].retries >= 0
             PROVE  LET row  == ReadMetadata[i]
                        file == AnaFile(row.test)
                        own  == {p \in PubFile(row.test) : p.msg.burst = row.start}
                    IN  /\ own # {} /\ row.test \in files => i \in Reported
                        /\ Tried(row) = own
                        /\ Arrived(row) = {m \in file : m.burst = row.start}
                        /\ Missing(row) = {p.msg : p \in {q \in own : q.rc = 0}} \ file
  BY DEF ReportTruthful
<1> DEFINE row  == ReadMetadata[i]
           file == AnaFile(row.test)
           own  == {p \in PubFile(row.test) : p.msg.burst = row.start}
<1>1. row.test = meta[i].test /\ row.start = meta[i].start /\ row.end = meta[i].end
  BY DEF ReadMetadata
<1>2. own # {} /\ row.test \in files => i \in Reported
  BY <1>1 DEF Reported, ReadMetadata, RepInv, FilesOpened, PubFile
<1>3. \A p \in pubTsv : p.msg.burst = row.start <=> InWindow(row, p.msg)
  BY <1>1 DEF RepInv, WindowsTrue, InWindow
<1>4. \A m \in file : Published(m)
  BY DEF AnaFile, RepInv, Provenance
<1>5. \A p, q \in pubTsv :
        p.msg.burst = q.msg.burst /\ p.msg.n = q.msg.n => p.msg = q.msg
  BY DEF OnceInv, Numbered
<1> HIDE DEF row
<1>6. Tried(row) = own
  BY <1>3 DEF Tried, PubFile
<1>7. \A m \in file : m.burst = row.start <=> InWindow(row, m)
  <2> SUFFICES ASSUME NEW m \in file PROVE m.burst = row.start <=> InWindow(row, m)
    OBVIOUS
  <2>1. [msg |-> m, rc |-> 0] \in pubTsv
    BY <1>4 DEF Published
  <2>2. [msg |-> m, rc |-> 0].msg = m
    OBVIOUS
  <2> QED
    BY <1>3, <2>1, <2>2
<1>8. Arrived(row) = {m \in file : m.burst = row.start}
  BY <1>7 DEF Arrived
<1> DEFINE sent == {p.msg : p \in {q \in own : q.rc = 0}}
<1>9. Expected(row) = sent
  BY <1>6 DEF Expected
<1>10. Missing(row) = sent \ file
  <2>1. ASSUME NEW m \in sent, m \notin file
        PROVE  \A a \in Arrived(row) : <<a.n, a.ts>> # <<m.n, m.ts>>
    <3> SUFFICES ASSUME NEW a \in Arrived(row), a.n = m.n PROVE FALSE
      OBVIOUS
    <3>1. a \in file /\ a.burst = row.start
      BY <1>8
    <3>2. [msg |-> a, rc |-> 0] \in pubTsv /\ [msg |-> a, rc |-> 0].msg = a
      BY <1>4, <3>1 DEF Published
    <3>3. PICK p \in pubTsv : p.msg = m /\ p.msg.burst = row.start
      BY DEF PubFile
    <3>4. a = m
      BY <1>5, <3>1, <3>2, <3>3
    <3> QED
      BY <2>1, <3>1, <3>4
  <2>2. ASSUME NEW m \in sent, m \in file
        PROVE  m \in Arrived(row)
    BY <1>8, <2>2
  <2> HIDE DEF sent
  <2> QED
    BY <1>9, <2>1, <2>2 DEF Missing
<1> QED
  BY <1>2, <1>6, <1>8, <1>10 DEF row

\* For every suite and every other fault, as long as the two clocks agree: the row that the
\* report gives to a test that is recorded as successful counts the messages of the burst that
\* its last "start" asked for, those of them that were committed and those that were lost; and
\* it gives one if that burst published anything and the logger committed a file.
THEOREM ReportIsTrue ==
  ASSUME "slow" \notin Faults, ClocksAgree
  PROVE  Spec => []ReportTruthful
<1>1. Init => RepInv
  BY DEF Init, EnvInit, PubInit, AnaInit, RepInv, Provenance, Stamped,
         WindowsTrue, FilesOpened
<1>2. RepInv /\ UNCHANGED vars => RepInv'
  BY DEF vars, envVars, pubVars, anaVars, RepInv, Provenance, Published, Stamped,
         WindowsTrue, InWindow, FilesOpened
<1>3. RepInv /\ [IndInv /\ IndInv' /\ NonceInv /\ PhaseInv /\ Next]_vars => RepInv'
  BY <1>2, ReportInductive
<1> QED
  BY <1>1, <1>3, TruthOfReport, Invariance, NonceInvariance, PhaseInvariance, OnceInvariance,
     PTL DEF Spec

=============================================================================
