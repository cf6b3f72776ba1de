-------------------------------- MODULE Influx --------------------------------
(***************************************************************************)
(* The latency points that the analyser's logger samples for InfluxDB      *)
(* (analyser/src/logger.c): one for every influx_sample_rate-th message,   *)
(* collected in influx_buffer and posted when that is full or main()       *)
(* flushes it at the end of an attempt.  As in module Logger, main() and   *)
(* the callback thread share the logger without a lock, and a step is a    *)
(* run of accesses of one of them that the other cannot tell from one.     *)
(*                                                                         *)
(* A message is known by its number in the order of arrival, a point by    *)
(* its message and the parameters it is tagged with.  All lines of the     *)
(* buffer have one length.  Files are left to module Logger: a dump is     *)
(* the moment at which it zeroes the count.                                *)
(***************************************************************************)
EXTENDS Integers, Sequences

CONSTANTS
  N,                \* the tests of the suite are 1 .. N
  MAX_RETRY,
  LOGGER_BUF_SIZE,
  INFLUX_POINTS,    \* the lines that fit into influx_buffer
  Rates,            \* the sample rates it may be configured with
  MaxWrites         \* bound: counter messages that arrive

ASSUME InfluxAssumption ==
  /\ N \in Nat \ {0}
  /\ MAX_RETRY \in Nat
  /\ LOGGER_BUF_SIZE \in Nat \ {0}
  /\ INFLUX_POINTS \in Nat \ {0}
  /\ Rates \subseteq Nat \ {0}
  /\ MaxWrites \in Nat

Threads == {"main", "callback"}

VARIABLES
  curl,                \* InfluxDB is configured: log->curl is not NULL
  influx_sample_rate,
  g_message_counter,
  influx_buffer,       \* the lines of log->influx_buffer
  influx_buffer_pos,   \* the number of lines before it
  count, buf,          \* log->count, and the messages in log->buf
  params,              \* the test that log's parameters are of; 0: all zeros
  mpc, tnum, retry,    \* of main() and run_test
  again,               \* a retry calls logger_set_test twice; TRUE before the second
  fi,                  \* the index i of logger_flush
  wpc, wslot,          \* control point of the callback, and its entry
  reg,                 \* of each thread: g_message_counter as ++ has loaded it
  spc, line, pos,      \* of each thread: control point in influx_send_point or
                       \* influx_flush, line, and influx_buffer_pos as += has loaded it
  posted,              \* the points that InfluxDB has been sent
  written,             \* history: test and attempt of each message
  sampled,             \* history: the messages that have made a point
  calm,                \* history: since the last logger_set_test no callback has run inside
                       \* one of main()'s calls of the logger
  spoilt               \* history: the messages logged when it was not calm

conf       == <<curl, influx_sample_rate>>
bufferVars == <<influx_buffer, influx_buffer_pos, spc, line, pos, posted>>
counting   == <<g_message_counter, reg, sampled>>
mainVars   == <<params, mpc, tnum, retry, again, fi>>
backVars   == <<wpc, wslot, written, spoilt>>
vars == <<conf, bufferVars, counting, mainVars, backVars, count, buf, calm>>

Ids     == 1 .. MaxWrites
Slots   == 0 .. LOGGER_BUF_SIZE - 1
Lines   == 0 .. INFLUX_POINTS - 1
Points  == [id : Ids, test : 1 .. N, calm : BOOLEAN]
NoPoint == [id |-> 0, test |-> 0, calm |-> FALSE]

\* logger_init, and logger_init_influx if the environment asks for it.
Init ==
  /\ curl \in BOOLEAN /\ influx_sample_rate \in Rates
  /\ g_message_counter = 0
  /\ influx_buffer = [k \in Lines |-> NoPoint] /\ influx_buffer_pos = 0
  /\ count = 0 /\ buf = [s \in Slots |-> 0]
  /\ params = 0
  /\ mpc = "set" /\ tnum = 1 /\ retry = 0 /\ again = FALSE /\ fi = 0
  /\ wpc = "idle" /\ wslot = 0
  /\ reg = [th \in Threads |-> 0]
  /\ spc = [th \in Threads |-> "off"]
  /\ line = [th \in Threads |-> NoPoint] /\ pos = [th \in Threads |-> 0]
  /\ posted = {} /\ written = << >> /\ sampled = {}
  /\ calm = TRUE /\ spoilt = {}

-----------------------------------------------------------------------------
(* influx_send_point and influx_flush, run by either thread.               *)

SendUnchanged == UNCHANGED <<conf, counting, mainVars, backVars, count, buf>>

\* Variant of IsFull: one line later.
IsFullLate == influx_buffer_pos > INFLUX_POINTS

IsFull == influx_buffer_pos >= INFLUX_POINTS

Room(th) ==
  /\ spc[th] = "room"
  /\ spc' = [spc EXCEPT ![th] = IF IsFull THEN "post" ELSE "copy"]
  /\ UNCHANGED <<influx_buffer, influx_buffer_pos, line, pos, posted>>
  /\ SendUnchanged

Unsent == {influx_buffer[k] : k \in {l \in Lines : l < influx_buffer_pos}} \ {NoPoint}

\* curl_easy_perform takes up to 100 ms, and may fail.
Post(th) ==
  /\ spc[th] = "post"
  /\ spc' = [spc EXCEPT ![th] = "posted"]
  /\ posted' \in {posted, posted \cup Unsent}
  /\ UNCHANGED <<influx_buffer, influx_buffer_pos, line, pos>>
  /\ SendUnchanged

\* What the other thread has added in the meantime is gone, too.
Posted(th) ==
  /\ spc[th] = "posted"
  /\ spc' = [spc EXCEPT ![th] = IF th = "main" /\ mpc = "dump" THEN "off" ELSE "copy"]
  /\ influx_buffer_pos' = 0
  /\ UNCHANGED <<influx_buffer, line, pos, posted>>
  /\ SendUnchanged

\* memcpy.  Beyond the end of the buffer nothing is known of what follows.
CopyLine(th) ==
  /\ spc[th] = "copy"
  /\ influx_buffer_pos \in Lines
  /\ spc' = [spc EXCEPT ![th] = "advance"]
  /\ influx_buffer' = [influx_buffer EXCEPT ![influx_buffer_pos] = line[th]]
  /\ pos' = [pos EXCEPT ![th] = influx_buffer_pos]
  /\ UNCHANGED <<influx_buffer_pos, line, posted>>
  /\ SendUnchanged

\* += may use the position that memcpy has used or load it once more.
Reload(th) ==
  /\ spc[th] = "advance"
  /\ pos' = [pos EXCEPT ![th] = influx_buffer_pos]
  /\ UNCHANGED <<influx_buffer, influx_buffer_pos, spc, line, posted>>
  /\ SendUnchanged

Advance(th) ==
  /\ spc[th] = "advance"
  /\ spc' = [spc EXCEPT ![th] = "off"]
  /\ influx_buffer_pos' = pos[th] + 1
  /\ line' = [line EXCEPT ![th] = NoPoint] /\ pos' = [pos EXCEPT ![th] = 0]
  /\ UNCHANGED <<influx_buffer, posted>>
  /\ SendUnchanged

Send(th) ==
  \/ Room(th) \/ Post(th) \/ Posted(th)
  \/ CopyLine(th) \/ Reload(th) \/ Advance(th)

-----------------------------------------------------------------------------
(* ++g_message_counter % influx_sample_rate, without a lock.               *)

LoadCounter(th) ==
  /\ reg' = [reg EXCEPT ![th] = g_message_counter]
  /\ UNCHANGED <<g_message_counter, sampled>>

\* Variant of Point: tagged with the test in hand.
PointOfTest(id) == [id |-> id, test |-> tnum, calm |-> calm]

Point(id) == [id |-> id, test |-> params, calm |-> calm]

CallSendPoint(th, id) ==
  /\ spc' = [spc EXCEPT ![th] = "room"]
  /\ line' = [line EXCEPT ![th] = Point(id)]
  /\ sampled' = sampled \cup {id}
  /\ UNCHANGED <<influx_buffer, influx_buffer_pos, pos, posted>>

\* The sum is stored, and message id makes a point if it comes round.
StoreCounter(th) ==
  /\ g_message_counter' = reg[th] + 1
  /\ reg' = [reg EXCEPT ![th] = 0]

ComesRound(th) == (reg[th] + 1) % influx_sample_rate = 0

-----------------------------------------------------------------------------
(* The callback thread: on_message and logger_write.                       *)

WriteUnchanged == UNCHANGED <<conf, mainVars>>

\* on_message: the topic is the one of the logger's parameters.
Arrive ==
  /\ wpc = "idle"
  /\ params # 0
  /\ Len(written) < MaxWrites
  /\ wpc' = "store"
  /\ written' = Append(written, [test |-> params, retry |-> retry])
  /\ UNCHANGED <<bufferVars, counting, count, buf, wslot, spoilt>>
  /\ WriteUnchanged

Latest == Len(written)

StoreEntry ==
  /\ wpc = "store"
  /\ wpc' = "bump"
  /\ wslot' = count
  /\ buf' = [buf EXCEPT ![count] = Latest]
  /\ UNCHANGED <<bufferVars, counting, count, written, spoilt>>
  /\ WriteUnchanged

\* As in module Logger.
CountEntry ==
  /\ wpc = "bump"
  /\ wpc' = IF curl THEN "load" ELSE "full"
  /\ count' \in {count + 1, wslot + 1}
  /\ wslot' = 0
  /\ UNCHANGED <<bufferVars, counting, buf, written, spoilt>>
  /\ WriteUnchanged

LoadWrite ==
  /\ wpc = "load"
  /\ wpc' = "sample"
  /\ LoadCounter("callback")
  /\ UNCHANGED <<bufferVars, count, buf, wslot, written, spoilt>>
  /\ WriteUnchanged

SampleWrite ==
  /\ wpc = "sample"
  /\ wpc' = "full"
  /\ StoreCounter("callback")
  /\ IF ComesRound("callback")
     THEN CallSendPoint("callback", Latest)
     ELSE UNCHANGED <<bufferVars, sampled>>
  /\ UNCHANGED <<count, buf, wslot, written, spoilt>>
  /\ WriteUnchanged

BufferFull ==
  /\ wpc = "full"
  /\ spc["callback"] = "off"
  /\ wpc' = IF count >= LOGGER_BUF_SIZE THEN "dump" ELSE "return"
  /\ UNCHANGED <<bufferVars, counting, count, buf, wslot, written, spoilt>>
  /\ WriteUnchanged

DumpFull ==
  /\ wpc = "dump"
  /\ wpc' = "return"
  /\ count' = 0
  /\ UNCHANGED <<bufferVars, counting, buf, wslot, written, spoilt>>
  /\ WriteUnchanged

ReturnWrite ==
  /\ wpc = "return"
  /\ wpc' = "idle"
  /\ spoilt' = IF calm THEN spoilt ELSE spoilt \cup {Latest}
  /\ UNCHANGED <<bufferVars, counting, count, buf, wslot, written>>
  /\ WriteUnchanged

Callback ==
  \/ Arrive \/ StoreEntry \/ CountEntry
  \/ LoadWrite \/ SampleWrite \/ Send("callback")
  \/ BufferFull \/ DumpFull \/ ReturnWrite

-----------------------------------------------------------------------------
(* main(): run_test and the logger's functions it calls.                   *)

At(pc) == mpc = pc /\ spc["main"] = "off"

MainUnchanged == UNCHANGED <<conf, backVars>>

\* logger_set_test: leftover entries, the parameters, the count.
SetTest ==
  /\ At("set")
  /\ mpc' = "params"
  /\ count' = 0
  /\ UNCHANGED <<bufferVars, counting, buf, params, tnum, retry, again, fi>>
  /\ MainUnchanged

SetParams ==
  /\ At("params")
  /\ mpc' = "zero"
  /\ params' = tnum
  /\ UNCHANGED <<bufferVars, counting, count, buf, tnum, retry, again, fi>>
  /\ MainUnchanged

ZeroCount ==
  /\ At("zero")
  /\ mpc' = IF again THEN "reconnect" ELSE "run"
  /\ again' = FALSE
  /\ count' = 0
  /\ UNCHANGED <<bufferVars, counting, buf, params, tnum, retry, fi>>
  /\ MainUnchanged

\* Variant of MayRetry: one retry too many.
MayRetryOnceMore == retry <= MAX_RETRY

MayRetry == retry < MAX_RETRY

\* A retry connects anew before it sets the test again; when that fails, it is over.
Reconnect ==
  /\ At("reconnect")
  /\ mpc' \in {"set", IF MayRetry THEN "discard" ELSE "next"}
  /\ UNCHANGED <<bufferVars, counting, count, buf, params, tnum, retry, again, fi>>
  /\ MainUnchanged

\* The attempt is over, and logger_flush begins.
Conclude ==
  /\ At("run")
  /\ mpc' = IF curl THEN "flush" ELSE "dump"
  /\ UNCHANGED <<bufferVars, counting, count, buf, params, tnum, retry, again, fi>>
  /\ MainUnchanged

\* A turn of its loop: entries that logger_write has counted once.
FlushEntry ==
  /\ At("flush")
  /\ fi < count
  /\ mpc' = "sample"
  /\ LoadCounter("main")
  /\ UNCHANGED <<bufferVars, count, buf, params, tnum, retry, again, fi>>
  /\ MainUnchanged

\* Variant of Resample: the entry is counted, and makes no point.
CountAgain == UNCHANGED <<bufferVars, sampled>>

Resample == CallSendPoint("main", buf[fi])

SampleEntry ==
  /\ At("sample")
  /\ mpc' = "flush"
  /\ fi' = fi + 1
  /\ StoreCounter("main")
  /\ IF ComesRound("main") THEN Resample ELSE UNCHANGED <<bufferVars, sampled>>
  /\ UNCHANGED <<count, buf, params, tnum, retry, again>>
  /\ MainUnchanged

\* influx_flush, which posts unless the buffer is empty.
FlushBuffer ==
  /\ At("flush")
  /\ fi >= count
  /\ mpc' = "dump"
  /\ fi' = 0
  /\ spc' = IF influx_buffer_pos = 0 THEN spc ELSE [spc EXCEPT !["main"] = "post"]
  /\ UNCHANGED <<influx_buffer, influx_buffer_pos, line, pos, posted, counting, count, buf,
                 params, tnum, retry, again>>
  /\ MainUnchanged

\* dump_to_pending.  Then a late "done" ends the test, success or the last retry
\* commits it, or the attempt has failed.
Dump ==
  /\ At("dump")
  /\ count' = 0
  /\ mpc' \in {"next", "commit"} \cup (IF MayRetry THEN {"discard"} ELSE {})
  /\ UNCHANGED <<bufferVars, counting, buf, params, tnum, retry, again, fi>>
  /\ MainUnchanged

\* logger_commit, which dumps once more.
Commit ==
  /\ At("commit")
  /\ mpc' = "close"
  /\ UNCHANGED <<bufferVars, counting, count, buf, params, tnum, retry, again, fi>>
  /\ MainUnchanged

DumpRest ==
  /\ At("close")
  /\ mpc' = "next"
  /\ count' = 0
  /\ UNCHANGED <<bufferVars, counting, buf, params, tnum, retry, again, fi>>
  /\ MainUnchanged

\* logger_discard
Discard ==
  /\ At("discard")
  /\ mpc' = "forget"
  /\ influx_buffer_pos' = 0
  /\ UNCHANGED <<influx_buffer, spc, line, pos, posted, counting, count, buf, params, tnum,
                 retry, again, fi>>
  /\ MainUnchanged

ForgetRows ==
  /\ At("forget")
  /\ mpc' = "set"
  /\ count' = 0
  /\ again' = TRUE
  /\ retry' = retry + 1
  /\ UNCHANGED <<bufferVars, counting, buf, params, tnum, fi>>
  /\ MainUnchanged

\* logger_close is not called at the end: what is unsent then stays so.
NextTest ==
  /\ At("next")
  /\ IF tnum < N
     THEN mpc' = "set" /\ tnum' = tnum + 1 /\ retry' = 0
     ELSE mpc' = "end" /\ UNCHANGED <<tnum, retry>>
  /\ UNCHANGED <<bufferVars, counting, count, buf, params, again, fi>>
  /\ MainUnchanged

Main ==
  \/ SetParams \/ ZeroCount \/ Reconnect
  \/ Conclude \/ FlushEntry \/ SampleEntry \/ FlushBuffer \/ Send("main") \/ Dump
  \/ Commit \/ DumpRest
  \/ Discard \/ ForgetRows
  \/ NextTest

-----------------------------------------------------------------------------
\* main() is inside one of the logger's functions, and so is the callback.
InCall ==
  \/ spc["main"] # "off"
  \/ mpc \in {"params", "zero", "flush", "sample", "dump", "close", "forget"}
Overlapping == InCall /\ wpc # "idle"

\* A thread is about to write beyond the buffer: there is no telling what follows.
Undefined == \E th \in Threads : spc[th] = "copy" /\ influx_buffer_pos \notin Lines

\* Both use the curl handle, which libcurl does not allow: it may do its work or crash.
HandleShared == \A th \in Threads : spc[th] = "posted"

\* The suite is over, or the program has crashed.
Stopped ==
  /\ Undefined \/ HandleShared \/ (At("end") /\ wpc = "idle")
  /\ UNCHANGED vars

Next ==
  \/ ~Undefined /\ SetTest /\ calm' = ~Overlapping'
  \/ ~Undefined /\ (Main \/ Callback) /\ calm' = (calm /\ ~Overlapping')
  \/ Stopped

Spec == Init /\ [][Next]_vars

-----------------------------------------------------------------------------
TypeOK ==
  /\ curl \in BOOLEAN /\ influx_sample_rate \in Rates
  /\ g_message_counter \in Nat /\ reg \in [Threads -> Nat]
  /\ influx_buffer \in [Lines -> Points \cup {NoPoint}] /\ influx_buffer_pos \in Nat
  /\ count \in 0 .. LOGGER_BUF_SIZE /\ buf \in [Slots -> 0 .. MaxWrites]
  /\ params \in 0 .. N
  /\ mpc \in {"set", "params", "zero", "reconnect", "run", "flush", "sample", "dump",
              "commit", "close", "discard", "forget", "next", "end"}
  /\ tnum \in 1 .. N /\ retry \in 0 .. MAX_RETRY /\ again \in BOOLEAN /\ fi \in Nat
  /\ wpc \in {"idle", "store", "bump", "load", "sample", "full", "dump", "return"}
  /\ wslot \in Slots
  /\ spc \in [Threads -> {"off", "room", "post", "posted", "copy", "advance"}]
  /\ line \in [Threads -> Points \cup {NoPoint}] /\ pos \in [Threads -> Nat]
  /\ posted \subseteq Points
  /\ written \in Seq([test : 1 .. N, retry : 0 .. MAX_RETRY]) /\ Len(written) <= MaxWrites
  /\ sampled \subseteq Ids /\ spoilt \subseteq Ids
  /\ calm \in BOOLEAN

\* Two threads append to influx_buffer without a lock (logger.c:83-87); as long as no
\* callback runs inside one of main()'s calls of the logger, in the loop of logger_flush
\* and during its post in particular, neither writes beyond its end.
PointsInBounds ==
  calm => \A th \in Threads : spc[th] = "copy" => influx_buffer_pos < INFLUX_POINTS

\* A point that is made in a calm test is tagged with the parameters of the test whose
\* message it measures (logger.c:72-80): though logger_flush makes points of messages long
\* after they arrived, and messages that arrive between two tests make points as well.
TagTrue(p) == p.calm => p.id \in DOMAIN written /\ p.test = written[p.id].test

PointsTagged == \A p \in posted \cup {influx_buffer[k] : k \in Lines} : TagTrue(p)

\* logger_flush moves the counter on and counts older messages again, but no sample is
\* skipped for it: of influx_sample_rate messages in a row, all logged when it was calm,
\* at least one makes a point.  (When it is not, an update of the counter can be lost.)
Logged == IF wpc = "idle" THEN Latest ELSE Latest - 1

NoSampleSkipped ==
  curl => \A first \in 1 .. Logged - influx_sample_rate + 1 :
            \E id \in first .. first + influx_sample_rate - 1 : id \in sampled \cup spoilt

(***************************************************************************)
(* The inductive invariant behind TypeOK, PointsInBounds and PointsTagged, *)
(* proved in InfluxProofs.                                                 *)
(***************************************************************************)

\* The callback thread finds room for its entry, whatever main() does to the count.
RoomForEntry ==
  /\ wpc \in {"idle", "store", "return"} => count < LOGGER_BUF_SIZE
  /\ wpc = "bump" => count <= wslot

\* What is counted has been stored, by the callback thread for a message that arrived.
CountedAreStored ==
  /\ \A s \in Slots : s < count => buf[s] \in Ids
  /\ wpc = "bump" => \A s \in Slots : s <= wslot => buf[s] \in Ids
  /\ mpc = "sample" => fi \in Slots /\ buf[fi] \in Ids
  /\ wpc # "idle" => written # << >>

CallOrder ==
  /\ mpc \in {"discard", "forget"} => MayRetry
  /\ spc["callback"] # "off" => wpc = "full"
  /\ wpc # "idle" \/ mpc \notin {"set", "params"} => params # 0

\* When it is calm, the threads take turns, and what the log buffer holds is of the test
\* that the parameters are of.
TakingTurns ==
  calm => /\ ~Overlapping
          /\ wpc # "idle" => written[Latest].test = params
          /\ wpc = "bump" => wslot = count /\ buf[wslot] = Latest
          /\ mpc = "params" => count = 0
          /\ mpc = "sample" => fi < count
          /\ \A s \in Slots : s < count =>
               buf[s] \in DOMAIN written /\ written[buf[s]].test = params

LinesTagged == PointsTagged /\ \A th \in Threads : TagTrue(line[th])

IndInv ==
  /\ TypeOK /\ RoomForEntry /\ CountedAreStored /\ CallOrder
  /\ TakingTurns /\ PointsInBounds /\ LinesTagged

(***************************************************************************)
(* What a comment of the code says, and the code does not do (README,      *)
(* "Disagreements").                                                       *)
(***************************************************************************)

\* logger.c:340, "drop the InfluxDB buffer (do not send metrics for a failed run)": when
\* an attempt is discarded, no point of it has been sent.
FailedRunUnsent ==
  \A p \in posted : written[p.id].test = tnum => written[p.id].retry >= retry

=============================================================================
