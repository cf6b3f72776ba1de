---------------------------- MODULE InfluxProofs ----------------------------
(***************************************************************************)
(* Proofs about the sampling of points, for every number of tests, retries *)
(* and messages, every sample rate and every size of the two buffers, with *)
(* main() and the callback thread interleaved at each access.              *)
(***************************************************************************)
EXTENDS Influx, SequenceTheorems, TLAPS

USE InfluxAssumption DEF Threads

Messages == [test : 1 .. N, retry : 0 .. MAX_RETRY]

DataInv == TypeOK /\ RoomForEntry /\ CountedAreStored /\ CallOrder

\* logger_init leaves an empty buffer, and the invariant holds.
LEMMA Initially == Init => IndInv
<1> SUFFICES ASSUME Init PROVE IndInv
  OBVIOUS
<1> USE DEF Init
<1>1. TypeOK
  <2>1. << >> \in Seq(Messages) /\ Len(<< >>) = 0
    BY EmptySeq
  <2>2. /\ influx_buffer \in [Lines -> Points \cup {NoPoint}]
        /\ line \in [Threads -> Points \cup {NoPoint}]
    OBVIOUS
  <2>3. /\ reg \in [Threads -> Nat] /\ pos \in [Threads -> Nat]
        /\ spc \in [Threads -> {"off", "room", "post", "posted", "copy", "advance"}]
    OBVIOUS
  <2>4. buf \in [Slots -> 0 .. MaxWrites] /\ wslot \in Slots
    BY DEF Slots
  <2>5. /\ posted \subseteq Points /\ sampled \subseteq Ids /\ spoilt \subseteq Ids
        /\ calm \in BOOLEAN /\ again \in BOOLEAN
    OBVIOUS
  <2>6. /\ written \in Seq([test : 1 .. N, retry : 0 .. MAX_RETRY])
        /\ Len(written) <= MaxWrites
    BY <2>1 DEF Messages
  <2> QED
    BY <2>2, <2>3, <2>4, <2>5, <2>6 DEF TypeOK
<1>2. RoomForEntry /\ CallOrder
  BY DEF RoomForEntry, CallOrder
<1>3. CountedAreStored
  BY DEF CountedAreStored, Slots
<1>4. TakingTurns
  BY DEF TakingTurns, Overlapping, Slots
<1>5. PointsInBounds
  BY DEF PointsInBounds
<1>6. LinesTagged
  BY DEF LinesTagged, PointsTagged, TagTrue, NoPoint
<1> QED
  BY <1>1, <1>2, <1>3, <1>4, <1>5, <1>6 DEF IndInv

-----------------------------------------------------------------------------
(* The part of the invariant that holds whether it is calm or not.         *)

\* influx_send_point and influx_flush, whichever thread runs them.
LEMMA SendData ==
  ASSUME DataInv, calm' \in BOOLEAN, NEW th \in Threads, Send(th)
  PROVE  DataInv'
<1> USE DEF DataInv
<1>1. UNCHANGED <<conf, counting, mainVars, backVars, count, buf>>
  BY DEF Send, Room, Post, Posted, CopyLine, Reload, Advance, SendUnchanged
<1>2. /\ influx_buffer_pos' \in Nat /\ pos' \in [Threads -> Nat]
      /\ spc' \in [Threads -> {"off", "room", "post", "posted", "copy", "advance"}]
      /\ line' \in [Threads -> Points \cup {NoPoint}]
  BY DEF Send, Room, Post, Posted, CopyLine, Reload, Advance, TypeOK
<1>3. influx_buffer' \in [Lines -> Points \cup {NoPoint}]
  BY DEF Send, Room, Post, Posted, CopyLine, Reload, Advance, TypeOK
<1>4. posted' \subseteq Points
  BY DEF Send, Room, Post, Posted, CopyLine, Reload, Advance, TypeOK, Unsent
<1>5. TypeOK'
  BY <1>1, <1>2, <1>3, <1>4 DEF conf, counting, mainVars, backVars, TypeOK
<1>6. RoomForEntry'
  BY <1>1 DEF backVars, RoomForEntry
<1>7. CountedAreStored'
  BY <1>1 DEF mainVars, backVars, CountedAreStored
<1>8. spc'["callback"] # "off" => spc["callback"] # "off"
  BY DEF Send, Room, Post, Posted, CopyLine, Reload, Advance, TypeOK
<1>9. CallOrder'
  BY <1>1, <1>8 DEF mainVars, backVars, CallOrder, MayRetry
<1> QED
  BY <1>5, <1>6, <1>7, <1>9

\* A point that is begun, for a message that arrived while the parameters were of a test.
LEMMA CallType ==
  ASSUME TypeOK, NEW th \in Threads, NEW id \in Ids, params # 0, CallSendPoint(th, id)
  PROVE  /\ line' \in [Threads -> Points \cup {NoPoint}] /\ sampled' \subseteq Ids
         /\ spc' \in [Threads -> {"off", "room", "post", "posted", "copy", "advance"}]
         /\ UNCHANGED <<influx_buffer, influx_buffer_pos, pos, posted>>
         /\ \A o \in Threads : o # th => spc'[o] = spc[o] /\ line'[o] = line[o]
         /\ line'[th] = Point(id)
<1>1. Point(id) \in Points
  BY DEF Point, Points, TypeOK
<1> QED
  BY <1>1 DEF CallSendPoint, TypeOK

\* A message keeps its number, its test and its attempt when others arrive.
LEMMA WrittenGrows ==
  ASSUME TypeOK, NEW m \in Messages, written' = Append(written, m), Len(written) < MaxWrites
  PROVE  /\ written' \in Seq(Messages) /\ Len(written') = Len(written) + 1
         /\ Len(written') <= MaxWrites
         /\ DOMAIN written \subseteq DOMAIN written' /\ Len(written') \in DOMAIN written'
         /\ \A id \in DOMAIN written : written'[id] = written[id]
         /\ written'[Len(written')] = m
<1>1. written \in Seq(Messages) /\ Len(written) \in Nat /\ DOMAIN written = 1 .. Len(written)
  BY LenProperties DEF TypeOK, Messages
<1> HIDE DEF Messages
<1>2. /\ written' \in Seq(Messages) /\ Len(written') = Len(written) + 1
      /\ \A k \in 1 .. Len(written) : written'[k] = written[k]
      /\ written'[Len(written) + 1] = m
  BY <1>1, AppendProperties
<1>3. DOMAIN written' = 1 .. Len(written) + 1
  BY <1>2, LenProperties
<1> QED
  BY <1>1, <1>2, <1>3

\* The message in the callback's hands has a number.
LEMMA LatestIsMessage ==
  ASSUME TypeOK, written # << >> PROVE Latest \in Ids /\ Latest \in DOMAIN written
<1>1. written \in Seq(Messages) /\ Len(written) \in Nat /\ DOMAIN written = 1 .. Len(written)
  BY LenProperties DEF TypeOK, Messages
<1>2. Len(written) # 0
  BY <1>1, EmptySeq DEF Messages
<1> QED
  BY <1>1, <1>2 DEF TypeOK, Latest, Ids

\* on_message and logger_write.
LEMMA CallbackData ==
  ASSUME DataInv, calm' \in BOOLEAN, Callback
  PROVE  DataInv'
<1> USE DEF DataInv
<1>1. CASE Arrive
  <2> DEFINE m == [test |-> params, retry |-> retry]
  <2>1. m \in Messages /\ params # 0
    BY <1>1 DEF Arrive, TypeOK, Messages
  <2>2. /\ written' \in Seq(Messages) /\ Len(written') <= MaxWrites
        /\ Len(written') = Len(written) + 1
    BY <1>1, <2>1, WrittenGrows DEF Arrive
  <2>3. written' # << >>
    <3>1. Len(written) \in Nat
      BY LenProperties DEF TypeOK
    <3> QED
      BY <2>2, <3>1
  <2>4. UNCHANGED <<bufferVars, counting, count, buf, wslot, spoilt, conf, mainVars>>
        /\ wpc' = "store" /\ wpc = "idle"
    BY <1>1 DEF Arrive, WriteUnchanged
  <2>5. TypeOK'
    BY <2>2, <2>4 DEF bufferVars, counting, conf, mainVars, TypeOK, Messages
  <2>6. RoomForEntry' /\ CountedAreStored'
    BY <2>3, <2>4 DEF mainVars, RoomForEntry, CountedAreStored
  <2>7. CallOrder'
    BY <2>1, <2>4 DEF mainVars, bufferVars, CallOrder, MayRetry
  <2> QED
    BY <2>5, <2>6, <2>7
<1>2. CASE StoreEntry
  <2>1. count \in Slots /\ Latest \in Ids /\ wpc = "store" /\ wpc' = "bump" /\ wslot' = count
    BY <1>2, LatestIsMessage DEF StoreEntry, RoomForEntry, CountedAreStored, TypeOK, Slots
  <2>2. UNCHANGED <<bufferVars, counting, count, written, spoilt, conf, mainVars>>
        /\ buf' = [buf EXCEPT ![count] = Latest]
    BY <1>2 DEF StoreEntry, WriteUnchanged
  <2>3. TypeOK'
    BY <2>1, <2>2 DEF bufferVars, counting, conf, mainVars, TypeOK, Ids
  <2>4. \A s \in Slots : buf[s] \in Ids \/ s = count => buf'[s] \in Ids
    BY <2>1, <2>2 DEF TypeOK
  <2>5. RoomForEntry'
    BY <2>1, <2>2 DEF RoomForEntry, TypeOK
  <2>6. CountedAreStored'
    BY <2>1, <2>2, <2>4 DEF CountedAreStored, mainVars, TypeOK, Slots
  <2>7. CallOrder'
    BY <2>1, <2>2 DEF mainVars, bufferVars, CallOrder, MayRetry
  <2> QED
    BY <2>3, <2>5, <2>6, <2>7
<1>3. CASE CountEntry
  <2>1. wpc = "bump" /\ wpc' \in {"load", "full"} /\ count' \in {count + 1, wslot + 1}
        /\ wslot' = 0
    BY <1>3 DEF CountEntry
  <2>2. UNCHANGED <<bufferVars, counting, buf, written, spoilt, conf, mainVars>>
    BY <1>3 DEF CountEntry, WriteUnchanged
  <2>3. count' \in 0 .. LOGGER_BUF_SIZE /\ count' <= wslot + 1 /\ wslot' \in Slots
    BY <2>1 DEF RoomForEntry, TypeOK, Slots
  <2>4. TypeOK'
    BY <2>1, <2>2, <2>3 DEF bufferVars, counting, conf, mainVars, TypeOK
  <2>5. RoomForEntry'
    BY <2>1 DEF RoomForEntry
  <2>6. CountedAreStored'
    BY <2>1, <2>2, <2>3 DEF CountedAreStored, mainVars, TypeOK, Slots
  <2>7. CallOrder'
    BY <2>1, <2>2 DEF mainVars, bufferVars, CallOrder, MayRetry
  <2> QED
    BY <2>4, <2>5, <2>6, <2>7
<1>4. CASE LoadWrite
  <2>1. /\ wpc = "load" /\ wpc' = "sample" /\ reg' \in [Threads -> Nat]
        /\ UNCHANGED <<bufferVars, count, buf, wslot, written, spoilt, conf, mainVars>>
        /\ UNCHANGED <<g_message_counter, sampled>>
    BY <1>4 DEF LoadWrite, LoadCounter, WriteUnchanged, TypeOK
  <2>2. TypeOK'
    BY <2>1 DEF bufferVars, conf, mainVars, TypeOK
  <2>3. RoomForEntry' /\ CountedAreStored'
    BY <2>1 DEF mainVars, RoomForEntry, CountedAreStored
  <2>4. CallOrder'
    BY <2>1 DEF mainVars, bufferVars, CallOrder, MayRetry
  <2> QED
    BY <2>2, <2>3, <2>4
<1>5. CASE SampleWrite
  <2>1. /\ wpc = "sample" /\ wpc' = "full" /\ g_message_counter' \in Nat
        /\ reg' \in [Threads -> Nat]
        /\ UNCHANGED <<count, buf, wslot, written, spoilt, conf, mainVars>>
    BY <1>5 DEF SampleWrite, StoreCounter, WriteUnchanged, TypeOK
  <2>2. CallSendPoint("callback", Latest) \/ UNCHANGED <<bufferVars, sampled>>
    BY <1>5 DEF SampleWrite
  <2>3. params # 0 /\ Latest \in Ids
    BY <2>1, LatestIsMessage DEF CallOrder, CountedAreStored
  <2>4. /\ line' \in [Threads -> Points \cup {NoPoint}] /\ sampled' \subseteq Ids
        /\ spc' \in [Threads -> {"off", "room", "post", "posted", "copy", "advance"}]
        /\ UNCHANGED <<influx_buffer, influx_buffer_pos, pos, posted>>
    BY <2>2, <2>3, CallType DEF bufferVars, TypeOK
  <2>5. TypeOK'
    BY <2>1, <2>4 DEF conf, mainVars, TypeOK
  <2>6. RoomForEntry' /\ CountedAreStored'
    BY <2>1 DEF mainVars, RoomForEntry, CountedAreStored
  <2>7. CallOrder'
    BY <2>1 DEF mainVars, CallOrder, MayRetry
  <2> QED
    BY <2>5, <2>6, <2>7
<1>6. CASE BufferFull
  <2>1. /\ wpc = "full" /\ wpc' \in {"dump", "return"} /\ spc["callback"] = "off"
        /\ wpc' = "return" => count < LOGGER_BUF_SIZE
        /\ UNCHANGED <<bufferVars, counting, count, buf, wslot, written, spoilt, conf, mainVars>>
    BY <1>6 DEF BufferFull, WriteUnchanged, TypeOK
  <2>2. TypeOK'
    BY <2>1 DEF bufferVars, counting, conf, mainVars, TypeOK
  <2>3. RoomForEntry' /\ CountedAreStored'
    BY <2>1 DEF mainVars, RoomForEntry, CountedAreStored
  <2>4. CallOrder'
    BY <2>1 DEF mainVars, bufferVars, CallOrder, MayRetry
  <2> QED
    BY <2>2, <2>3, <2>4
<1>7. CASE DumpFull
  <2>1. /\ wpc = "dump" /\ wpc' = "return" /\ count' = 0
        /\ UNCHANGED <<bufferVars, counting, buf, wslot, written, spoilt, conf, mainVars>>
    BY <1>7 DEF DumpFull, WriteUnchanged
  <2>2. TypeOK'
    BY <2>1 DEF bufferVars, counting, conf, mainVars, TypeOK
  <2>3. RoomForEntry' /\ CountedAreStored'
    BY <2>1 DEF mainVars, RoomForEntry, CountedAreStored, Slots
  <2>4. CallOrder'
    BY <2>1 DEF mainVars, bufferVars, CallOrder, MayRetry
  <2> QED
    BY <2>2, <2>3, <2>4
<1>8. CASE ReturnWrite
  <2>1. /\ wpc = "return" /\ wpc' = "idle" /\ spoilt' \in {spoilt, spoilt \cup {Latest}}
        /\ UNCHANGED <<bufferVars, counting, count, buf, wslot, written, conf, mainVars>>
    BY <1>8 DEF ReturnWrite, WriteUnchanged
  <2>2. spoilt' \subseteq Ids
    BY <2>1, LatestIsMessage DEF CountedAreStored, TypeOK
  <2>3. TypeOK'
    BY <2>1, <2>2 DEF bufferVars, counting, conf, mainVars, TypeOK
  <2>4. RoomForEntry' /\ CountedAreStored'
    BY <2>1 DEF mainVars, RoomForEntry, CountedAreStored
  <2>5. CallOrder'
    BY <2>1 DEF mainVars, bufferVars, CallOrder, MayRetry
  <2> QED
    BY <2>3, <2>4, <2>5
<1> QED
  BY <1>1, <1>2, <1>3, <1>4, <1>5, <1>6, <1>7, <1>8, SendData DEF Callback

\* main() between its points: no step of its own raises the count.
LEMMA MainData ==
  ASSUME DataInv, calm' \in BOOLEAN, SetTest \/ Main
  PROVE  DataInv'
<1> USE DEF DataInv
<1>1. CASE Send("main")
  BY <1>1, SendData
<1>2. CASE SampleEntry
  <2>1. /\ mpc = "sample" /\ mpc' = "flush" /\ fi' = fi + 1
        /\ g_message_counter' \in Nat /\ reg' \in [Threads -> Nat]
        /\ UNCHANGED <<count, buf, params, tnum, retry, again, conf, backVars>>
    BY <1>2 DEF SampleEntry, At, StoreCounter, MainUnchanged, TypeOK
  <2>2. CallSendPoint("main", buf[fi]) \/ UNCHANGED <<bufferVars, sampled>>
    BY <1>2 DEF SampleEntry, Resample
  <2>3. params # 0 /\ buf[fi] \in Ids
    BY <2>1 DEF CallOrder, CountedAreStored
  <2>4. /\ line' \in [Threads -> Points \cup {NoPoint}] /\ sampled' \subseteq Ids
        /\ spc' \in [Threads -> {"off", "room", "post", "posted", "copy", "advance"}]
        /\ UNCHANGED <<influx_buffer, influx_buffer_pos, pos, posted>>
        /\ spc'["callback"] = spc["callback"]
    BY <2>2, <2>3, CallType DEF bufferVars, TypeOK
  <2>5. TypeOK'
    BY <2>1, <2>4 DEF conf, backVars, TypeOK
  <2>6. RoomForEntry' /\ CountedAreStored'
    BY <2>1 DEF backVars, RoomForEntry, CountedAreStored
  <2>7. CallOrder'
    BY <2>1, <2>4 DEF backVars, CallOrder, MayRetry
  <2> QED
    BY <2>5, <2>6, <2>7
<1>3. CASE FlushEntry
  <2>1. /\ mpc = "flush" /\ fi < count /\ mpc' = "sample" /\ reg' \in [Threads -> Nat]
        /\ UNCHANGED <<bufferVars, count, buf, params, tnum, retry, again, fi, conf, backVars>>
        /\ UNCHANGED <<g_message_counter, sampled>>
    BY <1>3 DEF FlushEntry, At, LoadCounter, MainUnchanged, TypeOK
  <2>2. fi \in Slots
    BY <2>1 DEF TypeOK, Slots
  <2>3. TypeOK'
    BY <2>1 DEF bufferVars, conf, backVars, TypeOK
  <2>4. RoomForEntry' /\ CountedAreStored'
    BY <2>1, <2>2 DEF backVars, RoomForEntry, CountedAreStored
  <2>5. CallOrder'
    BY <2>1 DEF backVars, bufferVars, CallOrder, MayRetry
  <2> QED
    BY <2>3, <2>4, <2>5
<1>4. CASE ~Send("main") /\ ~SampleEntry /\ ~FlushEntry
  <2> DEFINE Steps == \/ SetTest \/ SetParams \/ ZeroCount \/ Reconnect \/ Conclude
                      \/ FlushBuffer \/ Dump \/ Commit \/ DumpRest \/ Discard \/ ForgetRows
                      \/ NextTest
  <2>1. Steps
    BY <1>4 DEF Main
  <2>2. /\ UNCHANGED <<conf, counting, backVars, buf, influx_buffer, line, pos, posted>>
        /\ count' \in {0, count} /\ mpc' # "sample"
        /\ influx_buffer_pos' \in {0, influx_buffer_pos}
    BY <2>1 DEF SetTest, SetParams, ZeroCount, Reconnect, Conclude, FlushBuffer, Dump, Commit,
                DumpRest, Discard, ForgetRows, NextTest, MainUnchanged, bufferVars
  <2>3. /\ params' \in {params, tnum} /\ tnum' \in 1 .. N
        /\ again' \in BOOLEAN /\ fi' \in Nat
    <3>1. params' \in {params, tnum} /\ fi' \in {0, fi} /\ again' \in {TRUE, FALSE, again}
      BY <2>1 DEF SetTest, SetParams, ZeroCount, Reconnect, Conclude, FlushBuffer, Dump,
                  Commit, DumpRest, Discard, ForgetRows, NextTest
    <3>2. tnum' = tnum \/ (tnum < N /\ tnum' = tnum + 1)
      BY <2>1 DEF SetTest, SetParams, ZeroCount, Reconnect, Conclude, FlushBuffer, Dump,
                  Commit, DumpRest, Discard, ForgetRows, NextTest
    <3>3. tnum' \in 1 .. N /\ fi' \in Nat
      BY <3>1, <3>2 DEF TypeOK
    <3>4. again' \in BOOLEAN
      BY <3>1, Zenon DEF TypeOK
    <3> QED
      BY <3>1, <3>3, <3>4
  <2>4. /\ spc' \in [Threads -> {"off", "room", "post", "posted", "copy", "advance"}]
        /\ spc'["callback"] = spc["callback"]
    BY <2>1 DEF SetTest, SetParams, ZeroCount, Reconnect, Conclude, FlushBuffer, Dump, Commit,
                DumpRest, Discard, ForgetRows, NextTest, bufferVars, TypeOK
  <2>5. mpc' \in {"set", "params", "zero", "reconnect", "run", "flush", "sample", "dump",
                  "commit", "close", "discard", "forget", "next", "end"}
    BY <2>1 DEF SetTest, SetParams, ZeroCount, Reconnect, Conclude, FlushBuffer, Dump, Commit,
                DumpRest, Discard, ForgetRows, NextTest
  <2>6. /\ retry' \in 0 .. MAX_RETRY
        /\ mpc' \in {"discard", "forget"} => retry' < MAX_RETRY
    <3>1. CASE Discard \/ ForgetRows
      BY <3>1 DEF Discard, ForgetRows, At, CallOrder, MayRetry, TypeOK
    <3>2. CASE Dump \/ Reconnect
      BY <3>2 DEF Dump, Reconnect, At, MayRetry, TypeOK
    <3>3. CASE NextTest
      BY <3>3 DEF NextTest, TypeOK
    <3>4. CASE ~(Discard \/ ForgetRows \/ Dump \/ Reconnect \/ NextTest)
      BY <2>1, <3>4 DEF SetTest, SetParams, ZeroCount, Conclude, FlushBuffer, Commit, DumpRest,
                        TypeOK
    <3> QED
      BY <3>1, <3>2, <3>3, <3>4
  <2>7. params = 0 /\ params' = params => mpc' \in {"set", "params"}
    BY <2>1 DEF SetTest, SetParams, ZeroCount, Reconnect, Conclude, FlushBuffer, Dump, Commit,
                DumpRest, Discard, ForgetRows, NextTest, At, CallOrder, TypeOK
  <2>8. TypeOK'
    BY <2>2, <2>3, <2>4, <2>5, <2>6 DEF conf, counting, backVars, TypeOK
  <2>9. RoomForEntry' /\ CountedAreStored'
    BY <2>2 DEF backVars, RoomForEntry, CountedAreStored, TypeOK, Slots
  <2>10. params' # 0 \/ params' = params
    BY <2>3 DEF TypeOK
  <2>11. CallOrder'
    BY <2>2, <2>4, <2>6, <2>7, <2>10 DEF backVars, CallOrder, MayRetry
  <2> QED
    BY <2>8, <2>9, <2>11
<1> QED
  BY <1>1, <1>2, <1>3, <1>4

-----------------------------------------------------------------------------
(* The part that depends on the callbacks that overlap.                    *)

\* What a step may do to the points, for their tags to stay true.
LEMMA TagsStay ==
  ASSUME TypeOK, LinesTagged,
         \A id \in DOMAIN written : id \in DOMAIN written' /\ written'[id] = written[id],
         posted' \subseteq posted \cup {influx_buffer[k] : k \in Lines},
         \A k \in Lines : influx_buffer'[k] \in {influx_buffer[k], line["main"],
                                                 line["callback"]},
         \A th \in Threads : \/ line'[th] \in {line[th], NoPoint}
                             \/ line'[th].calm =>
                                  /\ line'[th].id \in DOMAIN written'
                                  /\ line'[th].test = written'[line'[th].id].test
  PROVE  LinesTagged'
<1> DEFINE NewTrue(p) == p.calm => p.id \in DOMAIN written' /\ p.test = written'[p.id].test
<1>1. \A p : TagTrue(p) => NewTrue(p)
  BY DEF TagTrue
<1>2. \A th \in Threads : TagTrue(line[th])
  BY DEF LinesTagged
<1>3. \A p \in posted' : NewTrue(p)
  BY <1>1 DEF LinesTagged, PointsTagged
<1>4. \A k \in Lines : NewTrue(influx_buffer'[k])
  <2> SUFFICES ASSUME NEW k \in Lines PROVE NewTrue(influx_buffer'[k])
    OBVIOUS
  <2>1. TagTrue(influx_buffer[k])
    BY DEF LinesTagged, PointsTagged
  <2>2. "main" \in Threads /\ "callback" \in Threads
    OBVIOUS
  <2>3. TagTrue(influx_buffer'[k])
    BY <1>2, <2>1, <2>2
  <2> QED
    BY <1>1, <2>3
<1>5. \A th \in Threads : NewTrue(line'[th])
  <2> SUFFICES ASSUME NEW th \in Threads PROVE NewTrue(line'[th])
    OBVIOUS
  <2>1. TagTrue(NoPoint)
    BY DEF TagTrue, NoPoint
  <2>2. CASE line'[th] \in {line[th], NoPoint}
    BY <1>1, <1>2, <2>1, <2>2
  <2>3. CASE line'[th] \notin {line[th], NoPoint}
    BY <2>3
  <2> QED
    BY <2>2, <2>3
<1> QED
  BY <1>3, <1>4, <1>5 DEF LinesTagged, PointsTagged, TagTrue

\* influx_send_point and influx_flush move points about, and change none.
LEMMA SendTags ==
  ASSUME TypeOK, LinesTagged, NEW th \in Threads, Send(th)
  PROVE  LinesTagged'
<1>1. written' = written
  BY DEF Send, Room, Post, Posted, CopyLine, Reload, Advance, SendUnchanged, backVars
<1>2. posted' \subseteq posted \cup {influx_buffer[k] : k \in Lines}
  BY DEF Send, Room, Post, Posted, CopyLine, Reload, Advance, Unsent
<1>3. \A k \in Lines : influx_buffer'[k] \in {influx_buffer[k], line["main"], line["callback"]}
  <2>1. CASE CopyLine(th)
    BY <2>1 DEF CopyLine, TypeOK
  <2>2. CASE ~CopyLine(th)
    BY <2>2 DEF Send, Room, Post, Posted, Reload, Advance
  <2> QED
    BY <2>1, <2>2
<1>4. \A o \in Threads : line'[o] \in {line[o], NoPoint}
  <2>1. CASE Advance(th)
    BY <2>1 DEF Advance, TypeOK
  <2>2. CASE ~Advance(th)
    BY <2>2 DEF Send, Room, Post, Posted, CopyLine, Reload
  <2> QED
    BY <2>1, <2>2
<1> QED
  BY <1>1, <1>2, <1>3, <1>4, TagsStay

\* A point that is begun, tagged with the test of its message.
LEMMA CallTags ==
  ASSUME TypeOK, LinesTagged, NEW th \in Threads, NEW id \in Ids, params # 0,
         calm => id \in DOMAIN written /\ written[id].test = params,
         CallSendPoint(th, id), written' = written
  PROVE  LinesTagged'
<1>1. /\ UNCHANGED <<influx_buffer, posted>>
      /\ \A o \in Threads : o # th => line'[o] = line[o]
      /\ line'[th] = Point(id)
  BY CallType
<1>2. line'[th].calm =>
        line'[th].id \in DOMAIN written' /\ line'[th].test = written'[line'[th].id].test
  BY <1>1 DEF Point
<1> QED
  BY <1>1, <1>2, TagsStay

\* As long as it is calm, the thread that appends a line is alone with the buffer.
LEMMA SendCalm ==
  ASSUME IndInv, NEW th \in Threads, Send(th), calm' => calm /\ ~Overlapping'
  PROVE  TakingTurns' /\ PointsInBounds'
<1> USE DEF IndInv
<1>1. UNCHANGED <<conf, counting, mainVars, backVars, count, buf>>
  BY DEF Send, Room, Post, Posted, CopyLine, Reload, Advance, SendUnchanged
<1>2. TakingTurns'
  BY <1>1 DEF mainVars, backVars, TakingTurns, Latest
<1>3. ASSUME calm', NEW o \in Threads, spc'[o] = "copy"
      PROVE  influx_buffer_pos' < INFLUX_POINTS
  <2>1. calm /\ ~Overlapping
    BY <1>3 DEF TakingTurns
  <2>2. spc[th] # "off"
    BY DEF Send, Room, Post, Posted, CopyLine, Reload, Advance
  <2>3. o = th
    <3>1. spc["callback"] # "off" => wpc = "full"
      BY DEF CallOrder
    <3>2. spc["callback"] = "off" \/ spc["main"] = "off"
      BY <2>1, <3>1 DEF Overlapping, InCall
    <3>3. o # th => spc'[o] = spc[o]
      BY DEF Send, Room, Post, Posted, CopyLine, Reload, Advance, TypeOK
    <3> QED
      BY <1>3, <2>2, <3>2, <3>3
  <2>4. CASE Room(th)
    BY <1>3, <2>3, <2>4 DEF Room, IsFull, TypeOK
  <2>5. CASE Posted(th)
    BY <2>5 DEF Posted
  <2>6. CASE ~Room(th) /\ ~Posted(th)
    BY <1>3, <2>3, <2>6 DEF Send, Post, CopyLine, Reload, Advance, TypeOK
  <2> QED
    BY <2>4, <2>5, <2>6
<1> QED
  BY <1>2, <1>3 DEF PointsInBounds

\* on_message and logger_write: what they count is of the test of the parameters.
LEMMA CallbackCalm ==
  ASSUME IndInv, Callback, calm' => calm /\ ~Overlapping'
  PROVE  TakingTurns' /\ PointsInBounds'
<1> USE DEF IndInv
<1>1. CASE Send("callback")
  BY <1>1, SendCalm
<1>2. CASE ~Send("callback")
  <2> DEFINE Steps == \/ Arrive \/ StoreEntry \/ CountEntry \/ LoadWrite \/ SampleWrite
                      \/ BufferFull \/ DumpFull \/ ReturnWrite
  <2>1. Steps
    BY <1>2 DEF Callback
  <2>2. UNCHANGED <<mainVars, influx_buffer_pos>> /\ spc'["main"] = spc["main"]
    <3>1. UNCHANGED mainVars
      BY <2>1 DEF Arrive, StoreEntry, CountEntry, LoadWrite, SampleWrite, BufferFull, DumpFull,
                  ReturnWrite, WriteUnchanged
    <3>2. UNCHANGED influx_buffer_pos
      BY <2>1 DEF Arrive, StoreEntry, CountEntry, LoadWrite, SampleWrite, BufferFull, DumpFull,
                  ReturnWrite, bufferVars, CallSendPoint
    <3>3. spc'["main"] = spc["main"]
      <4>1. CASE SampleWrite
        BY <4>1 DEF SampleWrite, CallSendPoint, bufferVars, TypeOK
      <4>2. CASE ~SampleWrite
        BY <2>1, <4>2 DEF Arrive, StoreEntry, CountEntry, LoadWrite, BufferFull, DumpFull,
                          ReturnWrite, bufferVars
      <4> QED
        BY <4>1, <4>2
    <3> QED
      BY <3>1, <3>2, <3>3
  <2>3. wpc # "idle" \/ wpc' # "idle"
    BY <2>1 DEF Arrive, StoreEntry, CountEntry, LoadWrite, SampleWrite, BufferFull, DumpFull,
                ReturnWrite
  <2>4. SUFFICES ASSUME calm'
                 PROVE  TakingTurns' /\ PointsInBounds'
    BY DEF TakingTurns, PointsInBounds
  <2>5. calm /\ ~Overlapping /\ ~Overlapping'
    BY <2>4 DEF TakingTurns
  <2>6. ~InCall /\ spc["main"] = "off" /\ mpc \notin {"params", "sample"}
    BY <2>2, <2>3, <2>5 DEF Overlapping, InCall, mainVars
  <2>7. PointsInBounds'
    <3>1. ASSUME NEW th \in Threads, spc'[th] = "copy" PROVE spc[th] = "copy"
      <4>1. CASE SampleWrite
        BY <2>2, <3>1, <4>1 DEF SampleWrite, CallSendPoint, bufferVars, TypeOK
      <4>2. CASE ~SampleWrite
        BY <2>1, <3>1, <4>2 DEF Arrive, StoreEntry, CountEntry, LoadWrite, BufferFull, DumpFull,
                                ReturnWrite, bufferVars
      <4> QED
        BY <4>1, <4>2
    <3> QED
      BY <2>2, <2>5, <3>1 DEF PointsInBounds
  <2> DEFINE OfTest(i) == i \in DOMAIN written /\ written[i].test = params
  <2>8. /\ wpc # "idle" => written[Latest].test = params
        /\ wpc = "bump" => wslot = count /\ buf[wslot] = Latest
        /\ \A s \in Slots : s < count => OfTest(buf[s])
    BY <2>5 DEF TakingTurns
  <2>9. params' = params /\ mpc' = mpc
    BY <2>2 DEF mainVars
  <2>10. CASE Arrive
    <3> DEFINE m == [test |-> params, retry |-> retry]
    <3>1. m \in Messages /\ params # 0
      BY <2>10 DEF Arrive, TypeOK, Messages
    <3>2. /\ DOMAIN written \subseteq DOMAIN written'
          /\ \A id \in DOMAIN written : written'[id] = written[id]
          /\ written'[Len(written')] = m
      BY <2>10, <3>1, WrittenGrows DEF Arrive
    <3>3. written'[Latest'].test = params
      BY <3>2 DEF Latest
    <3>4. UNCHANGED <<count, buf, wslot>> /\ wpc' = "store"
      BY <2>10 DEF Arrive
    <3>5. \A s \in Slots : s < count =>
            buf[s] \in DOMAIN written' /\ written'[buf[s]].test = params
      BY <2>8, <3>2
    <3> QED
      BY <2>5, <2>6, <2>7, <2>9, <3>3, <3>4, <3>5 DEF TakingTurns
  <2>11. CASE StoreEntry
    <3>1. /\ wpc' = "bump" /\ wslot' = count /\ buf' = [buf EXCEPT ![count] = Latest]
          /\ UNCHANGED <<count, written>> /\ wpc = "store"
      BY <2>11 DEF StoreEntry
    <3>2. count \in Slots
      BY <3>1 DEF RoomForEntry, TypeOK, Slots
    <3>3. buf'[count] = Latest /\ \A s \in Slots : s # count => buf'[s] = buf[s]
      BY <3>1, <3>2 DEF TypeOK
    <3>4. Latest' = Latest
      BY <3>1 DEF Latest
    <3>5. \A s \in Slots : s < count => OfTest(buf'[s])
      BY <2>8, <3>2, <3>3 DEF Slots
    <3> QED
      BY <2>5, <2>6, <2>7, <2>8, <2>9, <3>1, <3>3, <3>4, <3>5 DEF TakingTurns
  <2>12. CASE CountEntry
    <3>1. /\ wpc = "bump" /\ wpc' \in {"load", "full"} /\ count' \in {count + 1, wslot + 1}
          /\ UNCHANGED <<buf, written>>
      BY <2>12 DEF CountEntry
    <3>2. count' = count + 1 /\ buf[count] = Latest /\ written[Latest].test = params
      BY <2>8, <3>1
    <3>3. Latest \in DOMAIN written
      BY <3>1, LatestIsMessage DEF CountedAreStored
    <3>4. \A s \in Slots : s < count' => s < count \/ s = count
      BY <3>2 DEF Slots, TypeOK
    <3>5. \A s \in Slots : s < count' => OfTest(buf[s])
      BY <2>8, <3>2, <3>3, <3>4
    <3>6. Latest' = Latest
      BY <3>1 DEF Latest
    <3> QED
      BY <2>5, <2>6, <2>7, <2>9, <3>1, <3>2, <3>5, <3>6 DEF TakingTurns
  <2>13. CASE LoadWrite \/ SampleWrite \/ BufferFull \/ ReturnWrite
    <3>1. UNCHANGED <<count, buf, written>> /\ wpc' # "bump" /\ wpc # "idle"
      BY <2>13 DEF LoadWrite, SampleWrite, BufferFull, ReturnWrite
    <3>2. Latest' = Latest
      BY <3>1 DEF Latest
    <3> QED
      BY <2>5, <2>6, <2>7, <2>8, <2>9, <3>1, <3>2 DEF TakingTurns
  <2>14. CASE DumpFull
    <3>1. UNCHANGED <<buf, written>> /\ count' = 0 /\ wpc' = "return" /\ wpc # "idle"
      BY <2>14 DEF DumpFull
    <3>2. Latest' = Latest /\ \A s \in Slots : ~(s < count')
      BY <3>1 DEF Latest, Slots
    <3> QED
      BY <2>5, <2>6, <2>7, <2>8, <2>9, <3>1, <3>2 DEF TakingTurns
  <2> QED
    BY <2>1, <2>10, <2>11, <2>12, <2>13, <2>14
<1> QED
  BY <1>1, <1>2

LEMMA CallbackTags ==
  ASSUME IndInv, Callback
  PROVE  LinesTagged'
<1> USE DEF IndInv
<1>1. CASE Send("callback")
  BY <1>1, SendTags
<1>2. CASE SampleWrite
  <2>1. wpc = "sample" /\ written' = written
    BY <1>2 DEF SampleWrite
  <2>2. Latest \in Ids /\ Latest \in DOMAIN written /\ params # 0
    BY <2>1, LatestIsMessage DEF CountedAreStored, CallOrder
  <2>3. calm => written[Latest].test = params
    BY <2>1 DEF TakingTurns
  <2>4. CASE CallSendPoint("callback", Latest)
    BY <2>1, <2>2, <2>3, <2>4, CallTags
  <2>5. CASE UNCHANGED bufferVars
    BY <2>1, <2>5, TagsStay DEF bufferVars
  <2> QED
    BY <1>2, <2>4, <2>5 DEF SampleWrite
<1>3. CASE Arrive
  <2>1. [test |-> params, retry |-> retry] \in Messages
    BY <1>3 DEF Arrive, TypeOK, Messages
  <2>2. /\ DOMAIN written \subseteq DOMAIN written'
        /\ \A id \in DOMAIN written : written'[id] = written[id]
    BY <1>3, <2>1, WrittenGrows DEF Arrive
  <2>3. UNCHANGED bufferVars
    BY <1>3 DEF Arrive
  <2> QED
    BY <2>2, <2>3, TagsStay DEF bufferVars
<1>4. CASE StoreEntry \/ CountEntry \/ LoadWrite \/ BufferFull \/ DumpFull \/ ReturnWrite
  <2>1. UNCHANGED <<bufferVars, written>>
    BY <1>4 DEF StoreEntry, CountEntry, LoadWrite, BufferFull, DumpFull, ReturnWrite
  <2> QED
    BY <2>1, TagsStay DEF bufferVars
<1> QED
  BY <1>1, <1>2, <1>3, <1>4 DEF Callback

\* logger_set_test: what has overlapped before it no longer matters.
LEMMA SetTestCalm ==
  ASSUME IndInv, SetTest, calm' => ~Overlapping'
  PROVE  TakingTurns' /\ PointsInBounds' /\ LinesTagged'
<1> USE DEF IndInv
<1>1. /\ mpc' = "params" /\ count' = 0 /\ spc' = spc /\ spc["main"] = "off"
      /\ UNCHANGED <<bufferVars, buf, params, backVars>>
  BY DEF SetTest, At, MainUnchanged, bufferVars
<1>2. calm' => wpc' = "idle" /\ wpc = "idle"
  BY <1>1 DEF Overlapping, InCall, backVars
<1>3. TakingTurns'
  <2>1. \A s \in Slots : ~(s < count')
    BY <1>1 DEF Slots
  <2> QED
    BY <1>1, <1>2, <2>1 DEF TakingTurns
<1>4. calm' => \A th \in Threads : spc'[th] = "off"
  BY <1>1, <1>2 DEF CallOrder
<1>5. PointsInBounds'
  BY <1>4 DEF PointsInBounds
<1>6. LinesTagged'
  BY <1>1, TagsStay DEF bufferVars, backVars
<1> QED
  BY <1>3, <1>5, <1>6

\* The other steps of main() raise the count of nothing, and reset it before the
\* parameters are of another test.
LEMMA MainCalm ==
  ASSUME IndInv, Main, calm' => calm /\ ~Overlapping'
  PROVE  TakingTurns' /\ PointsInBounds'
<1> USE DEF IndInv
<1>1. CASE Send("main")
  BY <1>1, SendCalm
<1>2. CASE ~Send("main")
  <2> DEFINE Steps == \/ SetParams \/ ZeroCount \/ Reconnect \/ Conclude \/ FlushEntry
                      \/ SampleEntry \/ FlushBuffer \/ Dump \/ Commit \/ DumpRest
                      \/ Discard \/ ForgetRows \/ NextTest
  <2>1. Steps
    BY <1>2 DEF Main
  <2>2. SUFFICES ASSUME calm'
                 PROVE  TakingTurns' /\ PointsInBounds'
    BY DEF TakingTurns, PointsInBounds
  <2>3. calm /\ ~Overlapping /\ ~Overlapping'
    BY <2>2 DEF TakingTurns
  <2>4. UNCHANGED <<buf, backVars>> /\ Latest' = Latest
    BY <2>1 DEF SetParams, ZeroCount, Reconnect, Conclude, FlushEntry, SampleEntry, FlushBuffer,
                Dump, Commit, DumpRest, Discard, ForgetRows, NextTest, MainUnchanged, backVars,
                Latest
  <2>5. spc["main"] = "off" /\ mpc' # "params"
    BY <2>1 DEF SetParams, ZeroCount, Reconnect, Conclude, FlushEntry, SampleEntry, FlushBuffer,
                Dump, Commit, DumpRest, Discard, ForgetRows, NextTest, At
  <2>6. spc'["callback"] = spc["callback"] /\ spc'["main"] \in {"off", "room", "post"}
    BY <2>1, <2>5 DEF SetParams, ZeroCount, Reconnect, Conclude, FlushEntry, SampleEntry,
                      FlushBuffer, Dump, Commit, DumpRest, Discard, ForgetRows, NextTest,
                      Resample, CallSendPoint, bufferVars, TypeOK
  <2>7. influx_buffer_pos' \in {0, influx_buffer_pos}
    BY <2>1 DEF SetParams, ZeroCount, Reconnect, Conclude, FlushEntry, SampleEntry, FlushBuffer,
                Dump, Commit, DumpRest, Discard, ForgetRows, NextTest, Resample,
                CallSendPoint, bufferVars
  <2>8. PointsInBounds'
    BY <2>3, <2>6, <2>7 DEF PointsInBounds
  <2>9. wpc # "idle" => count' = count /\ params' = params
    <3>1. wpc # "idle" => ~InCall
      BY <2>3 DEF Overlapping
    <3>2. count' = count \/ InCall
      BY <2>1 DEF SetParams, ZeroCount, Reconnect, Conclude, FlushEntry, SampleEntry,
                  FlushBuffer, Dump, Commit, DumpRest, Discard, ForgetRows, NextTest, At, InCall
    <3>3. params' = params \/ InCall
      BY <2>1 DEF SetParams, ZeroCount, Reconnect, Conclude, FlushEntry, SampleEntry,
                  FlushBuffer, Dump, Commit, DumpRest, Discard, ForgetRows, NextTest, At, InCall
    <3> QED
      BY <3>1, <3>2, <3>3
  <2>10. count' = 0 \/ (count' = count /\ params' = params)
    <3>1. CASE SetParams
      BY <2>3, <3>1 DEF SetParams, At, TakingTurns
    <3>2. CASE ~SetParams
      BY <2>1, <3>2 DEF ZeroCount, Reconnect, Conclude, FlushEntry, SampleEntry, FlushBuffer,
                        Dump, Commit, DumpRest, Discard, ForgetRows, NextTest
    <3> QED
      BY <3>1, <3>2
  <2>11. mpc' = "sample" => fi' < count'
    BY <2>1 DEF SetParams, ZeroCount, Reconnect, Conclude, FlushEntry, SampleEntry, FlushBuffer,
                Dump, Commit, DumpRest, Discard, ForgetRows, NextTest
  <2>12. \A s \in Slots : s < count' => buf[s] \in DOMAIN written /\ written[buf[s]].test = params'
    <3>1. CASE count' = 0
      BY <3>1 DEF Slots
    <3>2. CASE count' = count /\ params' = params
      BY <2>3, <3>2 DEF TakingTurns
    <3> QED
      BY <2>10, <3>1, <3>2
  <2>13. /\ wpc # "idle" => written[Latest].test = params'
         /\ wpc = "bump" => wslot = count' /\ buf[wslot] = Latest
    BY <2>3, <2>9 DEF TakingTurns
  <2>14. TakingTurns'
    BY <2>3, <2>4, <2>5, <2>11, <2>12, <2>13 DEF TakingTurns, backVars
  <2> QED
    BY <2>8, <2>14
<1> QED
  BY <1>1, <1>2

LEMMA MainTags ==
  ASSUME IndInv, Main
  PROVE  LinesTagged'
<1> USE DEF IndInv
<1>1. CASE Send("main")
  BY <1>1, SendTags
<1>2. CASE SampleEntry
  <2>1. mpc = "sample" /\ written' = written
    BY <1>2 DEF SampleEntry, At, MainUnchanged, backVars
  <2>2. fi \in Slots /\ buf[fi] \in Ids /\ params # 0
    BY <2>1 DEF CountedAreStored, CallOrder
  <2>3. calm => buf[fi] \in DOMAIN written /\ written[buf[fi]].test = params
    BY <2>1, <2>2 DEF TakingTurns
  <2>4. CASE CallSendPoint("main", buf[fi])
    BY <2>1, <2>2, <2>3, <2>4, CallTags
  <2>5. CASE UNCHANGED bufferVars
    BY <2>1, <2>5, TagsStay DEF bufferVars
  <2> QED
    BY <1>2, <2>4, <2>5 DEF SampleEntry, Resample
<1>3. CASE ~Send("main") /\ ~SampleEntry
  <2>1. UNCHANGED <<influx_buffer, line, posted, written>>
    BY <1>3 DEF Main, SetParams, ZeroCount, Reconnect, Conclude, FlushEntry, FlushBuffer, Dump,
                Commit, DumpRest, Discard, ForgetRows, NextTest, MainUnchanged, bufferVars,
                backVars
  <2> QED
    BY <2>1, TagsStay
<1> QED
  BY <1>1, <1>2, <1>3

-----------------------------------------------------------------------------
LEMMA Inductive == IndInv /\ [Next]_vars => IndInv'
<1> SUFFICES ASSUME IndInv, [Next]_vars PROVE IndInv'
  OBVIOUS
<1> DEFINE CalmPart == TakingTurns /\ PointsInBounds /\ LinesTagged
<1>1. IndInv => DataInv
  BY DEF IndInv, DataInv
<1>2. CASE SetTest /\ calm' = ~Overlapping'
  <2>1. calm' \in BOOLEAN
    BY <1>2 DEF Overlapping
  <2>2. DataInv'
    BY <1>1, <1>2, <2>1, MainData
  <2>3. CalmPart'
    BY <1>2, SetTestCalm
  <2> QED
    BY <2>2, <2>3 DEF IndInv, DataInv
<1>3. CASE (Main \/ Callback) /\ calm' = (calm /\ ~Overlapping')
  <2>1. calm' \in BOOLEAN
    BY <1>3
  <2>2. DataInv'
    BY <1>1, <1>3, <2>1, MainData, CallbackData
  <2>3. CalmPart'
    BY <1>3, MainCalm, MainTags, CallbackCalm, CallbackTags
  <2> QED
    BY <2>2, <2>3 DEF IndInv, DataInv
<1>4. CASE UNCHANGED vars
  <2>1. UNCHANGED <<conf, bufferVars, counting, mainVars, backVars, count, buf, calm>>
    BY <1>4 DEF vars
  <2> USE <2>1 DEF conf, bufferVars, counting, mainVars, backVars
  <2>2. TypeOK'
    BY DEF IndInv, TypeOK
  <2>3. (RoomForEntry /\ CountedAreStored /\ CallOrder)'
    BY DEF IndInv, RoomForEntry, CountedAreStored, CallOrder, MayRetry
  <2>4. (TakingTurns /\ PointsInBounds)'
    BY DEF IndInv, TakingTurns, PointsInBounds, Overlapping, InCall, Latest
  <2>5. LinesTagged'
    BY DEF IndInv, LinesTagged, PointsTagged, TagTrue
  <2> QED
    BY <2>2, <2>3, <2>4, <2>5 DEF IndInv
<1> QED
  BY <1>2, <1>3, <1>4 DEF Next, Stopped

\* The invariant holds of every behaviour of the sampling.
THEOREM Invariance == Spec => []IndInv
<1>1. Init => IndInv
  BY Initially
<1>2. IndInv /\ [Next]_vars => IndInv'
  BY Inductive
<1> QED
  BY <1>1, <1>2, PTL DEF Spec

\* Whatever the interleaving, the entries are stored within the log buffer, its positions
\* are loaded from what has been written, and no test is retried more than MAX_RETRY times.
THEOREM TypeCorrect == Spec => []TypeOK
<1>1. IndInv => TypeOK
  BY DEF IndInv
<1> QED
  BY <1>1, Invariance, PTL

\* logger.c:83-87: in a test in which no callback runs inside one of main()'s calls of the
\* logger, no line is copied beyond the end of influx_buffer, whatever has happened to the
\* buffer in the tests before.
THEOREM NoOverflow == Spec => []PointsInBounds
<1>1. IndInv => PointsInBounds
  BY DEF IndInv
<1> QED
  BY <1>1, Invariance, PTL

\* logger.c:72-80: the points made in such a test are tagged with the parameters of the
\* test their message was sent for, those that logger_flush makes long after included.
THEOREM TagsTrue == Spec => []PointsTagged
<1>1. IndInv => PointsTagged
  BY DEF IndInv, LinesTagged
<1> QED
  BY <1>1, Invariance, PTL

=============================================================================
