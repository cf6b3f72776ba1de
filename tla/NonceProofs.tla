----------------------------- MODULE NonceProofs -----------------------------
(***************************************************************************)
(* Proofs about the nonces and the stamps of the test bench, on top of the *)
(* invariant of BenchProofs: a "reset" meant for an earlier attempt never  *)
(* aborts the burst of the attempt that is being waited for, and on_message*)
(* drops no message of the attempt under way for its timestamp.            *)
(***************************************************************************)
EXTENDS BenchProofs

USE DEF shared, burstVars, stamps, store, Over, Ended

\* The nonce of a "start" is a number.
LEMMA StartNonce == \A q \in Requests : q.kind = "start" => q.nonce \in Int
  BY DEF Requests

\* What is left when the head of the queue is taken.
LEMMA QueueTail ==
  ASSUME NEW S, NEW q \in Seq(S), q # << >>
  PROVE  /\ Len(q) \in Nat \ {0} /\ 1 \in DOMAIN q
         /\ Head(q) = q[1]
         /\ Len(Tail(q)) = Len(q) - 1
         /\ \A k \in DOMAIN Tail(q) : k + 1 \in DOMAIN q /\ Tail(q)[k] = q[k + 1]
  BY HeadTailProperties, LenProperties

\* What the queue holds after a publication of the control client.
LEMMA QueueSent ==
  ASSUME toPub \in Seq(Requests), NEW r \in Seq(Requests), Send(r)
  PROVE  \A k \in DOMAIN toPub' :
           \/ k \in DOMAIN toPub /\ toPub'[k] = toPub[k]
           \/ k - Len(toPub) \in DOMAIN r /\ toPub'[k] = r[k - Len(toPub)]
<1>1. CASE toPub' = toPub
  BY <1>1
<1>2. CASE toPub' = toPub \o r
  BY <1>2, ConcatProperties, LenProperties
<1> QED
  BY <1>1, <1>2 DEF Send

\* The part of NoncesInOrder that is about the requests on their way.
RequestsInOrder ==
  \A k \in DOMAIN toPub :
    toPub[k].kind = "start" => toPub[k].nonce <= g_nonce

\* The types that the steps below rely on.
NonceTypes ==
  /\ clock \in Nat /\ g_nonce \in Nat /\ g_test_start_ts \in Nat
  /\ g_start_nonce \in Int /\ launch \in Int
  /\ toPub \in Seq(Requests) /\ toData \in Seq(Messages)
  /\ g_start \in BOOLEAN /\ g_abort \in BOOLEAN

\* What the proof needs of the types follows from the composed type invariant.
LEMMA NonceTypesOK == TypeOK => NonceTypes
  BY DEF TypeOK, EnvTypeOK, PubTypeOK, AnaTypeOK, NonceTypes

\* A publication that holds no "start" leaves the nonces in order.
LEMMA SendKeepsOrder ==
  ASSUME NonceTypes, NonceTypes', RequestsInOrder, NEW r \in Seq(Requests), Send(r),
         g_nonce <= g_nonce', clock <= clock',
         \A k \in DOMAIN r : r[k].kind = "start" => r[k].nonce <= g_nonce'
  PROVE  RequestsInOrder'
<1> SUFFICES ASSUME NEW k \in DOMAIN toPub', toPub'[k].kind = "start"
             PROVE  toPub'[k].nonce <= g_nonce'
  BY DEF RequestsInOrder
<1>1. CASE k \in DOMAIN toPub /\ toPub'[k] = toPub[k]
  <2>1. toPub[k] \in Requests
    BY <1>1, ElementOfSeq, LenProperties DEF NonceTypes
  <2>2. toPub[k].nonce \in Int
    BY <1>1, <2>1, StartNonce
  <2> QED
    BY <1>1, <2>2 DEF RequestsInOrder, NonceTypes
<1>2. CASE k - Len(toPub) \in DOMAIN r /\ toPub'[k] = r[k - Len(toPub)]
  BY <1>2
<1> QED
  BY <1>1, <1>2, QueueSent DEF NonceTypes

\* Taking a request from the queue, or losing all of them, keeps the order.
LEMMA TakeKeepsOrder ==
  ASSUME NonceTypes, RequestsInOrder, UNCHANGED <<clock, g_nonce>>,
         \/ UNCHANGED toPub
         \/ toPub' = << >>
         \/ toPub # << >> /\ toPub' = Tail(toPub)
  PROVE  RequestsInOrder'
<1>1. CASE UNCHANGED toPub
  BY <1>1 DEF RequestsInOrder
<1>2. CASE toPub' = << >>
  BY <1>2 DEF RequestsInOrder
<1>3. CASE toPub # << >> /\ toPub' = Tail(toPub)
  <2>1. \A k \in DOMAIN toPub' : k + 1 \in DOMAIN toPub /\ toPub'[k] = toPub[k + 1]
    BY <1>3, QueueTail DEF NonceTypes
  <2> QED
    BY <2>1 DEF RequestsInOrder
<1> QED
  BY <1>1, <1>2, <1>3

-----------------------------------------------------------------------------
\* Steps of main() and run_burst() of the publisher.
LEMMA PublisherNonces ==
  ASSUME TypeOK, NonceInv, PubMain, UNCHANGED anaVars
  PROVE  NonceInv'
<1>0. NonceTypes
  BY NonceTypesOK
<1> USE DEF NonceInv
<1>1. NoncesInOrder'
  <2>1. UNCHANGED <<toPub, g_nonce, clock, apc, g_test_start_ts, g_start_nonce>>
    BY DEF PubMain, PollStart, SnapshotField, OpenBurst, PublishMessage, AbortBurst,
           EndBurst, SendDone, anaVars, envVars
  <2>2. CASE PollStart
    <3>1. launch' = g_start_nonce
      BY <2>2 DEF PollStart, NoncesInOrder
    <3> QED
      BY <2>1, <3>1 DEF NoncesInOrder
  <2>3. CASE ~PollStart
    <3>1. launch' = launch
      BY <2>3 DEF PubMain, SnapshotField, OpenBurst, PublishMessage, AbortBurst,
                  EndBurst, SendDone
    <3> QED
      BY <2>1, <3>1 DEF NoncesInOrder
  <2> QED
    BY <2>2, <2>3
<1>2. StartIsLast'
  <2>1. UNCHANGED <<toPub, g_nonce, apc, g_start_nonce>>
    BY DEF PubMain, PollStart, SnapshotField, OpenBurst, PublishMessage, AbortBurst,
           EndBurst, SendDone, anaVars, envVars
  <2>2. launch' \in {launch, g_start_nonce}
    BY DEF PubMain, PollStart, SnapshotField, OpenBurst, PublishMessage, AbortBurst,
           EndBurst, SendDone
  <2>3. ~g_abort => ~g_abort'
    BY DEF PubMain, PollStart, SnapshotField, OpenBurst, PublishMessage, AbortBurst,
           EndBurst, SendDone
  <2> QED
    BY <2>1, <2>2, <2>3 DEF StartIsLast
<1>3. StampedAfterStart'
  <2>1. CASE UNCHANGED toData
    BY <2>1 DEF StampedAfterStart
  <2>2. CASE PublishMessage /\ ~UNCHANGED toData
    <3> DEFINE m == [topic |-> snap, n |-> counter, ts |-> PublisherClock, burst |-> launch]
    <3>1. toData' = Append(toData, m) /\ ppc = "burst"
      BY <2>2 DEF PublishMessage
    <3>2. m.ts >= m.burst + Skew
      BY <1>0, <3>1, SkewAssumption DEF NoncesInOrder, NonceTypes, PublisherClock
    <3>4. m \in Messages
      BY <3>1, SnapshotType, MaxMsgsAssumption, SkewAssumption
      DEF PublisherClock, TypeOK, EnvTypeOK, PubTypeOK, Messages
    <3> HIDE DEF m
    <3>3. /\ DOMAIN toData = 1 .. Len(toData) /\ DOMAIN toData' = 1 .. Len(toData) + 1
          /\ \A k \in 1 .. Len(toData) : toData'[k] = toData[k]
          /\ toData'[Len(toData) + 1] = m /\ Len(toData) \in Nat
      BY <1>0, <3>1, <3>4 DEF NonceTypes
    <3> QED
      <4> SUFFICES ASSUME NEW k \in DOMAIN toData'
                   PROVE  toData'[k].ts >= toData'[k].burst + Skew
        BY DEF StampedAfterStart
      <4>1. CASE k \in 1 .. Len(toData)
        BY <3>3, <4>1 DEF StampedAfterStart
      <4>2. CASE k = Len(toData) + 1
        BY <3>2, <3>3, <4>2
      <4> QED
        BY <3>3, <4>1, <4>2
  <2> QED
    BY <2>1, <2>2 DEF PubMain, PollStart, SnapshotField, OpenBurst, AbortBurst,
                      EndBurst, SendDone, envVars
<1> QED
  BY <1>1, <1>2, <1>3


\* The callback of the publisher.
LEMMA CallbackNonces ==
  ASSUME TypeOK, TypeOK', NonceInv, OnRequest, UNCHANGED anaVars
  PROVE  NonceInv'
<1>0. NonceTypes /\ NonceTypes'
  BY NonceTypesOK DEF TypeOK, NonceTypes, EnvTypeOK, PubTypeOK, AnaTypeOK
<1> USE DEF NonceInv
<1>1. /\ toPub # << >> /\ toPub' = Tail(toPub)
      /\ UNCHANGED <<clock, toData, ppc, launch, g_nonce, apc, g_test_start_ts>>
  BY DEF OnRequest, OnParam, OnStart, OnReset, Receive, anaVars
<1>2. /\ Len(toPub) \in Nat \ {0} /\ 1 \in DOMAIN toPub /\ Head(toPub) = toPub[1]
      /\ Len(toPub') = Len(toPub) - 1
      /\ \A k \in DOMAIN toPub' : k + 1 \in DOMAIN toPub /\ toPub'[k] = toPub[k + 1]
  BY <1>0, <1>1, QueueTail DEF NonceTypes
<1>3. RequestsInOrder'
  BY <1>0, <1>1, TakeKeepsOrder DEF NoncesInOrder, RequestsInOrder
<1>4. CASE OnStart
  <2>1. /\ Head(toPub) \in Requests /\ Head(toPub).kind = "start"
        /\ g_start_nonce' = Head(toPub).nonce
    BY <1>0, <1>1, <1>4, QueueHead DEF OnStart, Receive, NonceTypes
  <2>2. ~g_abort'
    BY <1>4 DEF OnStart, WithdrawAbort
  <2>3. g_start_nonce' <= g_nonce
    BY <1>2, <2>1 DEF NoncesInOrder
  <2>4. NoncesInOrder'
    BY <1>1, <1>3, <2>3 DEF NoncesInOrder, RequestsInOrder
  <2>5. StartIsLast'
    <3> SUFFICES ASSUME apc = "wait"
                 PROVE  /\ \A k \in DOMAIN toPub' :
                             toPub'[k] = Start(g_nonce) => k = Len(toPub')
                        /\ g_start_nonce' = g_nonce => toPub' = << >> /\ ~g_abort'
                        /\ launch = g_nonce => g_start_nonce' = g_nonce
      BY <1>1 DEF StartIsLast, Start
    <3>1. \A k \in DOMAIN toPub' : toPub'[k] = Start(g_nonce) => k = Len(toPub')
      BY <1>2 DEF StartIsLast
    <3>2. g_start_nonce' = g_nonce => Head(toPub) = Start(g_nonce)
      BY <2>1 DEF Requests, Start
    <3>3. g_start_nonce' = g_nonce => Len(toPub) = 1
      BY <1>2, <3>2 DEF StartIsLast
    <3>4. g_start_nonce' = g_nonce => toPub' = << >>
      BY <1>0, <1>2, <3>3, EmptySeq DEF NonceTypes
    <3>5. launch = g_nonce => g_start_nonce = g_nonce
      BY DEF StartIsLast
    <3>6. g_start_nonce # g_nonce
      BY <1>1 DEF StartIsLast
    <3> QED
      BY <1>1, <2>2, <3>1, <3>4, <3>5, <3>6
  <2> QED
    BY <1>1, <2>4, <2>5 DEF StampedAfterStart
<1>5. CASE OnParam \/ OnReset
  <2>1. UNCHANGED <<g_start, g_start_nonce>>
    BY <1>5 DEF OnParam, OnReset
  <2>2. NoncesInOrder'
    BY <1>1, <1>3, <2>1 DEF NoncesInOrder, RequestsInOrder
  <2>3. StartIsLast'
    BY <1>1, <1>2, <2>1 DEF StartIsLast
  <2> QED
    BY <1>1, <2>2, <2>3 DEF StampedAfterStart
<1> QED
  BY <1>4, <1>5 DEF OnRequest

\* Lost messages and broken links.
LEMMA FaultNonces ==
  ASSUME TypeOK, TypeOK', NonceInv, EnvNext, UNCHANGED <<pubVars, anaVars>>
  PROVE  NonceInv'
<1>0. NonceTypes /\ NonceTypes'
  BY NonceTypesOK DEF TypeOK, NonceTypes, EnvTypeOK, PubTypeOK, AnaTypeOK
<1> USE DEF NonceInv
<1>1. UNCHANGED <<clock, ppc, launch, g_start, g_start_nonce, g_abort, g_nonce, apc,
                  g_test_start_ts>>
  BY DEF EnvNext, LoseRequest, LoseMessage, BreakPublisherLink, BreakControlLink,
         BreakDataLink, pubVars, anaVars
<1>2. \/ UNCHANGED toPub
      \/ toPub' = << >>
      \/ toPub # << >> /\ toPub' = Tail(toPub)
  BY DEF EnvNext, LoseRequest, LoseMessage, BreakPublisherLink, BreakControlLink,
         BreakDataLink
<1>3. \/ UNCHANGED toData
      \/ toData' = << >>
      \/ toData # << >> /\ toData' = Tail(toData)
  BY DEF EnvNext, LoseRequest, LoseMessage, BreakPublisherLink, BreakControlLink,
         BreakDataLink
<1>4. NoncesInOrder'
  <2>1. RequestsInOrder'
    BY <1>0, <1>1, <1>2, TakeKeepsOrder DEF NoncesInOrder, RequestsInOrder
  <2> QED
    BY <1>1, <2>1 DEF NoncesInOrder, RequestsInOrder
<1>5. StartIsLast'
  <2>1. CASE UNCHANGED toPub \/ toPub' = << >>
    BY <1>1, <2>1 DEF StartIsLast
  <2>2. CASE toPub # << >> /\ toPub' = Tail(toPub)
    <3>1. /\ Len(toPub) \in Nat \ {0} /\ Len(toPub') = Len(toPub) - 1
          /\ \A k \in DOMAIN toPub' : k + 1 \in DOMAIN toPub /\ toPub'[k] = toPub[k + 1]
      BY <1>0, <2>2, QueueTail DEF NonceTypes
    <3> QED
      BY <1>1, <2>2, <3>1 DEF StartIsLast
  <2> QED
    BY <1>2, <2>1, <2>2
<1>6. StampedAfterStart'
  <2>1. CASE UNCHANGED toData \/ toData' = << >>
    BY <2>1 DEF StampedAfterStart
  <2>2. CASE toData # << >> /\ toData' = Tail(toData)
    <3>1. \A k \in DOMAIN toData' : k + 1 \in DOMAIN toData /\ toData'[k] = toData[k + 1]
      BY <1>0, <2>2, QueueTail DEF NonceTypes
    <3> QED
      BY <3>1 DEF StampedAfterStart
  <2> QED
    BY <1>3, <2>1, <2>2
<1> QED
  BY <1>4, <1>5, <1>6

-----------------------------------------------------------------------------
\* The messages on their way are taken one by one or lost all together.
LEMMA TakeKeepsStamps ==
  ASSUME NonceTypes, StampedAfterStart,
         \/ UNCHANGED toData
         \/ toData' = << >>
         \/ toData # << >> /\ toData' = Tail(toData)
  PROVE  StampedAfterStart'
<1>1. CASE UNCHANGED toData \/ toData' = << >>
  BY <1>1 DEF StampedAfterStart
<1>2. CASE toData # << >> /\ toData' = Tail(toData)
  <2>1. \A k \in DOMAIN toData' : k + 1 \in DOMAIN toData /\ toData'[k] = toData[k + 1]
    BY <1>2, QueueTail DEF NonceTypes
  <2> QED
    BY <2>1 DEF StampedAfterStart
<1> QED
  BY <1>1, <1>2

\* Steps of the analyser that publish nothing.
LEMMA SilentStep ==
  ASSUME TypeOK, TypeOK', NonceInv, UNCHANGED pubVars,
         \/ Setup \/ Connect \/ Stamp \/ WaitDone \/ GraceDone \/ GraceTimeout
         \/ Reconnect \/ Finish \/ OnDone \/ OnCounter \/ LogRow
  PROVE  NonceInv'
<1>0. NonceTypes /\ NonceTypes'
  BY NonceTypesOK DEF TypeOK, NonceTypes, EnvTypeOK, PubTypeOK, AnaTypeOK
<1> USE DEF NonceInv
<1>1. UNCHANGED <<ppc, launch, g_start, g_start_nonce, g_abort>>
  BY DEF pubVars
<1>2. UNCHANGED <<toPub, g_nonce>>
  BY DEF Setup, Connect, ConnectClients, Drained, Stamp, WaitDone, GraceDone,
         GraceTimeout, Reconnect, Finish, OnDone, OnCounter, LogRow, envVars, netVars
<1>3. \/ UNCHANGED toData
      \/ toData' = << >>
      \/ toData # << >> /\ toData' = Tail(toData)
  BY DEF Setup, Connect, ConnectClients, Drained, Stamp, WaitDone, GraceDone,
         GraceTimeout, Reconnect, Finish, OnDone, OnCounter, LogRow, envVars, netVars
<1>4. clock' = clock \/ clock' = clock + 1
  BY DEF Setup, Connect, ConnectClients, Drained, Stamp, WaitDone, GraceDone,
         GraceTimeout, Reconnect, Finish, OnDone, OnCounter, LogRow, envVars, Tick
<1>5. \/ apc' = "stamp" /\ g_test_start_ts' = clock + 1
      \/ apc' \notin {"stamp", "wait", "grace"}
      \/ UNCHANGED <<apc, g_test_start_ts>>
  <2>1. CASE Stamp
    BY <2>1 DEF Stamp, Tick
  <2>2. CASE WaitDone \/ GraceDone \/ GraceTimeout
    BY <2>2 DEF WaitDone, GraceDone, GraceTimeout, ReturnLate, NextTest, NextAttempt
  <2>3. CASE Setup \/ Connect \/ Reconnect \/ Finish
    BY <2>3 DEF Setup, Connect, Reconnect, Finish, ConnectClients, Continue,
                NextTest, NextAttempt
  <2>4. CASE OnDone \/ OnCounter \/ LogRow
    BY <2>4 DEF OnDone, OnCounter, LogRow, envVars
  <2> QED
    BY <2>1, <2>2, <2>3, <2>4
<1>6. NoncesInOrder'
  <2>1. /\ g_start_nonce' <= g_nonce' /\ launch' <= g_nonce' /\ g_nonce' <= clock'
    BY <1>0, <1>1, <1>2, <1>4 DEF NoncesInOrder, NonceTypes
  <2>2. \A k \in DOMAIN toPub' :
          toPub'[k].kind = "start" => toPub'[k].nonce <= g_nonce'
    BY <1>2 DEF NoncesInOrder
  <2>3. /\ apc' = "stamp" => g_nonce' < g_test_start_ts'
        /\ apc' \in {"wait", "grace"} => g_nonce' = g_test_start_ts'
    BY <1>0, <1>2, <1>5 DEF NoncesInOrder, NonceTypes
  <2> QED
    BY <2>1, <2>2, <2>3 DEF NoncesInOrder
<1>7. StartIsLast'
  BY <1>1, <1>2, <1>5 DEF StartIsLast, Start
<1>8. StampedAfterStart'
  BY <1>0, <1>3, TakeKeepsStamps
<1> QED
  BY <1>6, <1>7, <1>8

\* Steps that publish parameters or a "reset".
LEMMA RequestStep ==
  ASSUME TypeOK, TypeOK', NonceInv, UNCHANGED pubVars, Begin \/ WaitTimeout \/ RetryReset
  PROVE  NonceInv'
<1>0. NonceTypes /\ NonceTypes'
  BY NonceTypesOK DEF TypeOK, NonceTypes, EnvTypeOK, PubTypeOK, AnaTypeOK
<1> USE DEF NonceInv
<1>1. UNCHANGED <<ppc, launch, g_start, g_start_nonce, g_abort>>
  BY DEF pubVars
<1>2. UNCHANGED <<g_nonce, g_test_start_ts, toData>>
  BY DEF Begin, WaitTimeout, RetryReset
<1>3. clock' = clock \/ clock' = clock + 1
  BY DEF Begin, WaitTimeout, RetryReset, Tick
<1>4. RequestsInOrder'
  <2>1. ASSUME NEW r \in Seq(Requests), Send(r), \A k \in DOMAIN r : r[k].kind # "start"
        PROVE  RequestsInOrder'
    BY <1>0, <1>2, <1>3, <2>1, SendKeepsOrder
    DEF NoncesInOrder, RequestsInOrder, NonceTypes
  <2>2. CASE Begin
    <3> DEFINE r == [k \in Fields |-> Param(k, Topic(tnum)[k])]
    <3>1. Send(r)
      BY <2>2 DEF Begin
    <3>2. r \in Seq(Requests)
      BY RequestType DEF TypeOK, AnaTypeOK
    <3>3. \A k \in DOMAIN r : r[k].kind # "start"
      BY DEF Param
    <3> HIDE DEF r
    <3> QED
      BY <2>1, <3>1, <3>2, <3>3
  <2>3. CASE WaitTimeout \/ RetryReset
    <3> DEFINE r == <<Reset>>
    <3>1. Send(r)
      BY <2>3 DEF WaitTimeout, RetryReset
    <3>2. r \in Seq(Requests)
      BY RequestType
    <3>3. \A k \in DOMAIN r : r[k].kind # "start"
      BY DEF Reset
    <3> HIDE DEF r
    <3> QED
      BY <2>1, <3>1, <3>2, <3>3
  <2> QED
    BY <2>2, <2>3
<1>5. /\ apc' \in {"settle", "grace", "reconnect"}
      /\ apc' = "grace" => apc = "wait"
  BY DEF Begin, WaitTimeout, RetryReset
<1>6. NoncesInOrder'
  BY <1>0, <1>1, <1>2, <1>3, <1>4, <1>5 DEF NoncesInOrder, RequestsInOrder, NonceTypes
<1>7. StartIsLast'
  BY <1>5 DEF StartIsLast
<1> QED
  BY <1>2, <1>6, <1>7 DEF StampedAfterStart

\* The "start".
LEMMA LaunchStep ==
  ASSUME TypeOK, TypeOK', WindowOpen, NonceInv, UNCHANGED pubVars, Launch
  PROVE  NonceInv'
<1>0. NonceTypes /\ NonceTypes'
  BY NonceTypesOK DEF TypeOK, NonceTypes, EnvTypeOK, PubTypeOK, AnaTypeOK
<1> USE DEF NonceInv
<1>1. UNCHANGED <<ppc, launch, g_start, g_start_nonce, g_abort>>
  BY DEF pubVars
<1>2. /\ g_nonce < g_test_start_ts /\ g_test_start_ts <= clock
      /\ g_nonce' = g_test_start_ts /\ g_test_start_ts' = g_test_start_ts
      /\ clock' \in {clock, clock + 1} /\ UNCHANGED toData /\ apc' = "wait"
  BY DEF Launch, Tick, NoncesInOrder, WindowOpen
<1> DEFINE r == <<Start(g_test_start_ts)>>
<1>3. Send(r) /\ r \in Seq(Requests)
  BY <1>0, RequestType DEF Launch, NonceTypes
<1>4. DOMAIN r = {1} /\ Len(r) = 1 /\ r[1].nonce = g_test_start_ts
  BY DEF Start
<1> HIDE DEF r
<1>5. RequestsInOrder'
  <2>1. RequestsInOrder
    BY DEF NoncesInOrder, RequestsInOrder
  <2>2. g_nonce <= g_nonce' /\ clock <= clock'
    BY <1>0, <1>2 DEF NonceTypes
  <2>3. \A k \in DOMAIN r :
          r[k].kind = "start" => r[k].nonce <= g_nonce'
    BY <1>0, <1>2, <1>4 DEF NonceTypes
  <2> HIDE DEF NonceInv
  <2> QED
    BY <1>0, <1>3, <2>1, <2>2, <2>3, SendKeepsOrder
<1>6. NoncesInOrder'
  BY <1>0, <1>1, <1>2, <1>5 DEF NoncesInOrder, RequestsInOrder, NonceTypes
<1>7. StartIsLast'
  <2>1. g_start_nonce' # g_nonce' /\ launch' # g_nonce'
    BY <1>0, <1>1, <1>2 DEF NoncesInOrder, NonceTypes
  <2>2. ASSUME NEW k \in DOMAIN toPub', toPub'[k] = Start(g_nonce')
        PROVE  k = Len(toPub')
    <3>1. CASE k \in DOMAIN toPub /\ toPub'[k] = toPub[k]
      <4>1. toPub[k].kind = "start" /\ toPub[k].nonce = g_test_start_ts
        BY <1>2, <2>2, <3>1 DEF Start
      <4> QED
        BY <1>0, <1>2, <3>1, <4>1 DEF NoncesInOrder, NonceTypes
    <3>2. CASE k - Len(toPub) \in DOMAIN r
      <4>1. toPub' = toPub \o r \/ toPub' = toPub
        BY <1>3 DEF Send
      <4>2. Len(toPub) \in Nat /\ DOMAIN toPub = 1 .. Len(toPub)
        BY <1>0, LenProperties DEF NonceTypes
      <4>3. DOMAIN toPub' = 1 .. Len(toPub')
        BY <1>0, LenProperties DEF NonceTypes
      <4>4. toPub' = toPub \o r => Len(toPub') = Len(toPub) + 1
        BY <1>0, <1>3, <1>4, ConcatProperties DEF NonceTypes
      <4>5. k \in 1 .. Len(toPub') /\ k = Len(toPub) + 1
        BY <1>4, <3>2, <4>2, <4>3
      <4>6. toPub' # toPub
        BY <4>2, <4>5
      <4> QED
        BY <4>1, <4>4, <4>5, <4>6
    <3> QED
      BY <1>0, <1>3, <2>2, <3>1, <3>2, QueueSent DEF NonceTypes
  <2> QED
    BY <2>1, <2>2 DEF StartIsLast
<1> QED
  BY <1>2, <1>6, <1>7 DEF StampedAfterStart

-----------------------------------------------------------------------------
\* Initially no nonce has been given out.
LEMMA NoncesInitially == Init => NonceInv
  BY DEF Init, EnvInit, PubInit, AnaInit, NonceInv, NoncesInOrder, StartIsLast,
         StampedAfterStart

\* Every step keeps the nonces in order.
LEMMA NoncesInductive == IndInv /\ IndInv' /\ NonceInv /\ [Next]_vars => NonceInv'
<1> SUFFICES ASSUME IndInv, IndInv', NonceInv, [Next]_vars PROVE NonceInv'
  OBVIOUS
<1>1. TypeOK /\ TypeOK' /\ WindowOpen
  BY DEF IndInv
<1>2. CASE AnaMain /\ UNCHANGED pubVars
  <2>1. CASE Launch
    BY <1>1, <1>2, <2>1, LaunchStep
  <2>2. CASE Begin \/ WaitTimeout \/ RetryReset
    BY <1>1, <1>2, <2>2, RequestStep
  <2>3. CASE \/ Setup \/ Connect \/ Stamp \/ WaitDone \/ GraceDone \/ GraceTimeout
             \/ Reconnect \/ Finish
    BY <1>1, <1>2, <2>3, SilentStep
  <2> QED
    BY <1>2, <2>1, <2>2, <2>3 DEF AnaMain
<1>3. CASE AnaCallbacks /\ UNCHANGED pubVars
  BY <1>1, <1>3, SilentStep DEF AnaCallbacks
<1>4. CASE (PubMain \/ OnRequest) /\ UNCHANGED anaVars
  BY <1>1, <1>4, PublisherNonces, CallbackNonces
<1>5. CASE EnvNext /\ UNCHANGED <<pubVars, anaVars>>
  BY <1>1, <1>5, FaultNonces
<1>6. CASE UNCHANGED vars
  BY <1>6 DEF vars, envVars, pubVars, anaVars, NonceInv, NoncesInOrder, StartIsLast,
              StampedAfterStart
<1> QED
  BY <1>2, <1>3, <1>4, <1>5, <1>6 DEF Next, Terminated

\* Bench stays within NonceInv.
LEMMA NonceInvariance == Spec => []NonceInv
<1>1. NonceInv /\ [IndInv /\ IndInv' /\ Next]_vars => NonceInv'
  BY NoncesInductive DEF vars, envVars, pubVars, anaVars, NonceInv, NoncesInOrder,
                         StartIsLast, StampedAfterStart
<1> QED
  BY <1>1, NoncesInitially, Invariance, PTL DEF Spec

\* For every suite, every number of retries and every fault: the publisher never
\* aborts the burst of the attempt that the analyser is waiting for, because nothing
\* that was sent before its "start" is acted on after it.
THEOREM AbortsAreMeant == Spec => NoFriendlyAbort
<1>1. NonceInv /\ [Next]_vars
        => [AbortBurst => ~(apc = "wait" /\ launch = g_nonce)]_vars
  BY DEF NonceInv, StartIsLast, AbortBurst
<1> QED
  BY <1>1, NonceInvariance, PTL DEF Spec, NoFriendlyAbort

\* For every suite, fault and skew of the clocks within the tolerance: on_message
\* drops no message of the attempt under way for its timestamp.
THEOREM ToleranceSuffices == Spec => []OwnBurstRecorded
<1>1. IndInv /\ NonceInv => OwnBurstRecorded
  <2> SUFFICES ASSUME IndInv, NonceInv, Skew >= -PARAM_SETTLE,
                      apc \in {"wait", "grace"}, NEW k \in DOMAIN toData,
                      toData[k].burst = g_nonce, toData[k].topic = Topic(logTest)
               PROVE  Recorded(toData[k], Topic(logTest))
    BY DEF OwnBurstRecorded
  <2>1. NonceTypes
    BY NonceTypesOK DEF IndInv
  <2>2. toData[k].ts >= g_test_start_ts + Skew
    BY DEF NonceInv, NoncesInOrder, StampedAfterStart
  <2>3. toData[k].ts \in Int
    <3>1. k \in 1 .. Len(toData)
      BY <2>1, LenProperties DEF NonceTypes
    <3>2. toData[k] \in Messages
      BY <2>1, <3>1, ElementOfSeq DEF NonceTypes
    <3> QED
      BY <3>2 DEF Messages
  <2> QED
    BY <2>1, <2>2, <2>3, SkewAssumption DEF NonceTypes, Recorded, PARAM_SETTLE
<1> QED
  BY <1>1, Invariance, NonceInvariance, PTL

=============================================================================
