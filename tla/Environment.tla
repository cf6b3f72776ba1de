----------------------------- MODULE Environment -----------------------------
(***************************************************************************)
(* What lies between the two programs: the MQTT broker with the three      *)
(* connections that matter (the publisher's, the analyser's control client *)
(* and the analyser's data client) and the wall clock.  None of this is    *)
(* code under src/; it is modelled from the way src/ uses it.              *)
(*                                                                         *)
(*   toPub   requests on their way to the publisher.  It subscribes to     *)
(*           request/# with SUB_QOS 0, so a request may be lost; one TCP   *)
(*           stream, so requests are not reordered.                        *)
(*   toCtrl  "done" messages on their way to the control client, which     *)
(*           subscribes with QoS 2: never lost while it is connected.      *)
(*   toData  counter/# messages on their way to the data client.           *)
(*                                                                         *)
(* A clean session is used everywhere, so what is in flight to a client is *)
(* gone when that client disconnects.  The copies of request/go that the   *)
(* broker echoes to their own senders are left out: both callbacks ignore  *)
(* them.                                                                   *)
(***************************************************************************)
EXTENDS Integers, Sequences

CONSTANTS
  Faults,  \* the faults this environment can show, a subset of FaultKinds
  Skew     \* the publisher's clock minus the analyser's, in units of clock

(***************************************************************************)
(*   drop      the broker drops a QoS 0 request or a counter message       *)
(*   link      a connection breaks                                         *)
(*   connect   MQTTClient_connect fails, in either program                 *)
(*   slow      a burst or a delivery outlasts the analyser's timeouts      *)
(*   unopened  the publisher cannot open its TSV or allocate its buffers   *)
(*   io        a file of the analyser does not open or a write to it       *)
(*             fails, or it cannot set up its logger or its $SYS client    *)
(***************************************************************************)
FaultKinds == {"drop", "link", "connect", "slow", "unopened", "io"}

ASSUME FaultsAssumption == Faults \subseteq FaultKinds
ASSUME SkewAssumption == Skew \in Int

VARIABLES
  clock,   \* get_timestamp_ms() of the analyser, in logical units (see Tick)
  toPub,
  toCtrl,
  toData,
  pubUp,   \* the publisher is connected; it never reconnects
  ctrlUp,  \* g_ctrl_client is connected and subscribed
  dataUp   \* g_data_client is connected and subscribed

netVars == <<toPub, toCtrl, toData, pubUp, ctrlUp, dataUp>>
envVars == <<clock, toPub, toCtrl, toData, pubUp, ctrlUp, dataUp>>

EnvInit ==
  /\ clock = 0
  /\ toPub = << >> /\ toCtrl = << >> /\ toData = << >>
  /\ pubUp \in {TRUE, "connect" \notin Faults}  \* subscribed before the suite starts
  /\ ctrlUp = FALSE /\ dataUp = FALSE

-----------------------------------------------------------------------------
(* Requests and data, abstracted to what the two programs branch on.       *)

Param(k, v) == [kind |-> "param", k |-> k, v |-> v]  \* request/qos, delay, messagesize
Start(n)    == [kind |-> "start", nonce |-> n]       \* "start:<n>" on request/go
Reset       == [kind |-> "reset"]                    \* "reset" on request/go

Fields == 1 .. 3         \* the parameters in publication order: qos, delay, size
Topics == [Fields -> Int]  \* counter/<qos>/<delay>/<size>

Requests == [kind : {"param"}, k : Fields, v : Int]
              \cup [kind : {"start"}, nonce : Int]
              \cup [kind : {"reset"}]

\* A counter message; burst, the nonce that launched its burst, is history.
Messages == [topic : Topics, n : Nat, ts : Int, burst : Int]

(***************************************************************************)
(* The analyser's waits and stamps are the only moments whose order the    *)
(* programs compare, so time advances by one unit at each of them.         *)
(***************************************************************************)
Tick == clock' = clock + 1

PublisherClock == clock + Skew

\* MQTTClient_publish by the control client; its return code is ignored.
Send(requests) ==
  toPub' = IF ctrlUp /\ pubUp THEN toPub \o requests ELSE toPub

-----------------------------------------------------------------------------
(* Faults.                                                                 *)

LoseRequest ==
  /\ "drop" \in Faults
  /\ toPub # << >>
  /\ toPub' = Tail(toPub)
  /\ UNCHANGED <<clock, toCtrl, toData, pubUp, ctrlUp, dataUp>>

LoseMessage ==
  /\ "drop" \in Faults
  /\ toData # << >>
  /\ toData' = Tail(toData)
  /\ UNCHANGED <<clock, toPub, toCtrl, pubUp, ctrlUp, dataUp>>

BreakPublisherLink ==
  /\ "link" \in Faults
  /\ pubUp
  /\ pubUp' = FALSE
  /\ toPub' = << >>
  /\ UNCHANGED <<clock, toCtrl, toData, ctrlUp, dataUp>>

\* on_connection_lost only prints: the analyser's state does not change.
BreakControlLink ==
  /\ "link" \in Faults
  /\ ctrlUp
  /\ ctrlUp' = FALSE
  /\ toCtrl' = << >>
  /\ UNCHANGED <<clock, toPub, toData, pubUp, dataUp>>

BreakDataLink ==
  /\ "link" \in Faults
  /\ dataUp
  /\ dataUp' = FALSE
  /\ toData' = << >>
  /\ UNCHANGED <<clock, toPub, toCtrl, pubUp, ctrlUp>>

EnvNext ==
  \/ LoseRequest
  \/ LoseMessage
  \/ BreakPublisherLink
  \/ BreakControlLink
  \/ BreakDataLink

EnvTypeOK ==
  /\ clock \in Nat
  /\ toPub \in Seq(Requests)
  /\ toCtrl \in Seq(Int)
  /\ toData \in Seq(Messages)
  /\ pubUp \in BOOLEAN /\ ctrlUp \in BOOLEAN /\ dataUp \in BOOLEAN

=============================================================================
