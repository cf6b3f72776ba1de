------------------------------ MODULE Publisher ------------------------------
(***************************************************************************)
(* The publisher process (publisher/src/main.c): main() polls g_start and  *)
(* runs a burst, while on_message, on the MQTT library's thread, writes    *)
(* the configuration and the flags.  The two threads share cfg_qos,        *)
(* cfg_delay_ms, cfg_msg_size, g_start, g_abort and g_start_nonce without  *)
(* a lock.  A callback is one step: each of its interleavings with main()  *)
(* has the effect of the callback run just before or just after the access *)
(* it races with.  The three reads that snapshot the configuration are     *)
(* three steps, because callbacks between them are visible.                *)
(***************************************************************************)
EXTENDS Environment

CONSTANT MaxMsgs  \* bound: messages one burst publishes before its 30 s are over

ASSUME MaxMsgsAssumption == MaxMsgs \in Nat

VARIABLES
  cfg,            \* cfg_qos, cfg_delay_ms and cfg_msg_size
  g_start,
  g_abort,
  g_start_nonce,  \* 0 before the first "start"
  ppc,            \* control point of main() and run_burst()
  snap,           \* run_burst's copy of the configuration, read so far
  counter,
  launch,         \* history: the nonce of the "start" that launched the burst
  pubTsv,         \* rows of the publisher's TSV files: messages with their rc
  pubFiles,       \* the topics whose TSV file exists
  endings         \* history: the bursts that ran their full time, and those not opened

shared    == <<cfg, g_start, g_abort, g_start_nonce>>
burstVars == <<snap, counter, launch>>
pubVars   == <<shared, ppc, burstVars, pubTsv, pubFiles, endings>>

PubInit ==
  /\ cfg = [k \in Fields |-> IF k = 1 THEN 0 ELSE IF k = 2 THEN 100 ELSE 1]
  /\ g_start = FALSE /\ g_abort = FALSE /\ g_start_nonce = 0
  /\ ppc = "poll"
  /\ snap = << >> /\ counter = 0 /\ launch = 0
  /\ pubTsv = {} /\ pubFiles = {} /\ endings = {}

-----------------------------------------------------------------------------
(* on_message, one action per topic and payload it tells apart.            *)

Receive(kind) ==
  /\ pubUp
  /\ toPub # << >>
  /\ Head(toPub).kind = kind
  /\ toPub' = Tail(toPub)
  /\ UNCHANGED <<clock, toCtrl, toData, pubUp, ctrlUp, dataUp>>
  /\ UNCHANGED <<ppc, burstVars, pubTsv, pubFiles, endings>>

OnParam ==
  /\ Receive("param")
  /\ cfg' = [cfg EXCEPT ![Head(toPub).k] = Head(toPub).v]
  /\ UNCHANGED <<g_start, g_abort, g_start_nonce>>

\* Variant of WithdrawAbort: a pending abort is left for the next burst.
KeepAbort == UNCHANGED g_abort

\* A "start" withdraws an abort that no burst has looked at yet.
WithdrawAbort == g_abort' = FALSE

OnStart ==
  /\ Receive("start")
  /\ g_start_nonce' = Head(toPub).nonce
  /\ WithdrawAbort
  /\ g_start' = TRUE
  /\ UNCHANGED cfg

OnReset ==
  /\ Receive("reset")
  /\ g_abort' = TRUE
  /\ UNCHANGED <<cfg, g_start, g_start_nonce>>

OnRequest == OnParam \/ OnStart \/ OnReset

-----------------------------------------------------------------------------
(* main() and run_burst().                                                 *)

PollStart ==
  /\ ppc = "poll"
  /\ g_start
  /\ g_start' = FALSE
  /\ ppc' = "snapshot"
  /\ snap' = << >>
  /\ launch' = g_start_nonce
  /\ UNCHANGED <<cfg, g_abort, g_start_nonce, counter, pubTsv, pubFiles, endings, envVars>>

SnapshotField ==
  /\ ppc = "snapshot"
  /\ Len(snap) < 3
  /\ snap' = Append(snap, cfg[Len(snap) + 1])
  /\ UNCHANGED <<shared, ppc, counter, launch, pubTsv, pubFiles, endings, envVars>>

\* The buffers are allocated and the TSV is opened, or run_burst returns early.
OpenBurst ==
  /\ ppc = "snapshot"
  /\ Len(snap) = 3
  /\ \/ /\ ppc' = "burst"
        /\ pubFiles' = pubFiles \cup {snap}
        /\ UNCHANGED endings
     \/ /\ "unopened" \in Faults
        /\ ppc' = "done"
        /\ endings' = endings \cup {<<launch, "unopened">>}
        /\ UNCHANGED pubFiles
  /\ counter' = 0
  /\ UNCHANGED <<shared, snap, launch, pubTsv, envVars>>

\* One turn of the loop.  The row is written whatever rc says.
PublishMessage ==
  /\ ppc = "burst"
  /\ ~g_abort
  /\ counter < MaxMsgs
  /\ LET m == [topic |-> snap, n |-> counter, ts |-> PublisherClock, burst |-> launch]
     IN  /\ toData' = IF pubUp /\ dataUp THEN Append(toData, m) ELSE toData
         /\ pubTsv' = pubTsv \cup {[msg |-> m, rc |-> IF pubUp THEN 0 ELSE -1]}
  /\ counter' = counter + 1
  /\ UNCHANGED <<shared, ppc, snap, launch, pubFiles, endings>>
  /\ UNCHANGED <<clock, toPub, toCtrl, pubUp, ctrlUp, dataUp>>

AbortBurst ==
  /\ ppc = "burst"
  /\ g_abort
  /\ g_abort' = FALSE
  /\ ppc' = "done"
  /\ UNCHANGED <<cfg, g_start, g_start_nonce, burstVars, pubTsv, pubFiles, endings, envVars>>

EndBurst ==
  /\ ppc = "burst"  \* time(NULL) >= end_time, tested before g_abort
  /\ ppc' = "done"
  /\ endings' = endings \cup {<<launch, "full">>}
  /\ UNCHANGED <<shared, burstVars, pubTsv, pubFiles, envVars>>

\* "done:<g_start_nonce>", the nonce as it is now.
SendDone ==
  /\ ppc = "done"
  /\ ppc' = "poll"
  /\ toCtrl' = IF pubUp /\ ctrlUp THEN Append(toCtrl, g_start_nonce) ELSE toCtrl
  /\ UNCHANGED <<shared, burstVars, pubTsv, pubFiles, endings>>
  /\ UNCHANGED <<clock, toPub, toData, pubUp, ctrlUp, dataUp>>

PubMain ==
  \/ PollStart
  \/ SnapshotField
  \/ OpenBurst
  \/ PublishMessage
  \/ AbortBurst
  \/ EndBurst
  \/ SendDone

PubTypeOK ==
  /\ cfg \in [Fields -> Int]
  /\ g_start \in BOOLEAN /\ g_abort \in BOOLEAN
  /\ g_start_nonce \in Int /\ launch \in Int
  /\ ppc \in {"poll", "snapshot", "burst", "done"}
  /\ snap \in Seq(Int) /\ Len(snap) <= 3
  /\ ppc \in {"burst", "done"} => Len(snap) = 3
  /\ counter \in 0 .. MaxMsgs
  /\ pubTsv \subseteq [msg : Messages, rc : {0, -1}]
  /\ pubFiles \subseteq Seq(Int)
  /\ endings \subseteq Int \X {"full", "unopened"}

=============================================================================
