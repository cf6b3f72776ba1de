----------------------------- MODULE LoggerProofs -----------------------------
(***************************************************************************)
(* Proofs about the logger, for every buffer size, every number of tests,  *)
(* retries and messages, with callbacks that run at any moment and with    *)
(* files that fail: the unlocked buffer is never overrun, and no entry     *)
(* reaches a file that logger_write has not filled.                        *)
(***************************************************************************)
EXTENDS Logger, SequenceTheorems, TLAPS

USE LoggerAssumption DEF NULL, Threads, Paths, Slots, MayRetry, FlushRest, IsFull

\* logger_init leaves an empty buffer, and the invariant holds.
LEMMA Initially == Init => IndInv
<1> SUFFICES ASSUME Init PROVE IndInv
  OBVIOUS
<1> USE DEF Init
<1>1. pending \in [Paths -> Seq(Rows)] /\ tsv \in [1 .. N -> Seq(Rows)]
  BY EmptySeq
<1>2. TypeOK
  <2>1. buf \in [Slots -> Rows \cup {NoRow}] /\ wmsg \in Rows \cup {NoRow}
    OBVIOUS
  <2>2. dpc = [th \in Threads |-> "off"] /\ di = [th \in Threads |-> 0]
    OBVIOUS
  <2>3. /\ count = 0 /\ params = 0 /\ pending_fp = -1 /\ pending_path = -1
        /\ mpc = "set" /\ tnum = 1 /\ retry = 0 /\ plan = "commit" /\ again = FALSE
        /\ wpc = "idle" /\ wslot = 0 /\ arrived = 0 /\ finished = {} /\ calm = TRUE
    OBVIOUS
  <2>4. 0 \in Slots /\ 1 \in 1 .. N /\ 0 \in 0 .. LOGGER_BUF_SIZE /\ 0 \in 0 .. MAX_RETRY
    OBVIOUS
  <2>5. calm \in BOOLEAN /\ finished \subseteq 1 .. MaxWrites
    BY <2>3
  <2>6. /\ dpc \in [Threads -> {"off", "test", "loop", "write", "zero"}]
        /\ di \in [Threads -> 0 .. LOGGER_BUF_SIZE]
    BY <2>2, <2>4
  <2> QED
    BY <1>1, <2>1, <2>3, <2>4, <2>5, <2>6 DEF TypeOK
<1>3. RoomForEntry
  BY DEF RoomForEntry
<1>4. CountedAreFilled
  BY DEF CountedAreFilled
<1>5. CallOrder
  BY DEF CallOrder
<1>6. FilesAhead
  BY DEF FilesAhead
<1> QED
  BY <1>2, <1>3, <1>4, <1>5, <1>6 DEF IndInv

\* dump_to_pending, whichever thread runs it.
LEMMA DumpStep ==
  ASSUME IndInv, calm' \in BOOLEAN, NEW th \in Threads, Dump(th) \/ DumpFails(th)
  PROVE  IndInv'
<1> USE DEF IndInv
<1>0. FilesAhead'
  BY DEF Dump, DumpTest, DumpLoop, DumpWrite, DumpZero, DumpFails, DumpUnchanged, mainVars,
         FilesAhead
<1>1. CASE DumpTest(th)
  <2>1. count' \in {0, count} /\ dpc'[th] # "write"
    BY <1>1 DEF DumpTest, TypeOK
  <2>2. dpc' \in [Threads -> {"off", "test", "loop", "write", "zero"}]
    BY <1>1 DEF DumpTest, TypeOK
  <2>3. dpc'[th] = "off" => count' = 0
    BY <1>1 DEF DumpTest, TypeOK
  <2>4. \A o \in Threads : o # th => dpc'[o] = dpc[o] /\ di'[o] = di[o]
    BY <1>1 DEF DumpTest, TypeOK
  <2>5. TypeOK'
    BY <1>1, <2>1, <2>2 DEF DumpTest, DumpUnchanged, mainVars, backVars, TypeOK
  <2>6. RoomForEntry'
    BY <1>1, <2>1, <2>3, <2>4
    DEF DumpTest, DumpUnchanged, backVars, TypeOK, RoomForEntry
  <2>7. CountedAreFilled'
    BY <1>1, <2>1, <2>4
    DEF DumpTest, DumpUnchanged, backVars, TypeOK, CountedAreFilled
  <2>8. CallOrder'
    BY <1>1 DEF DumpTest, DumpUnchanged, mainVars, CallOrder
  <2> QED
    BY <1>0, <2>5, <2>6, <2>7, <2>8
<1>2. CASE DumpLoop(th)
  <2>1. dpc' = [dpc EXCEPT ![th] = IF di[th] < count THEN "write" ELSE "zero"]
    BY <1>2 DEF DumpLoop
  <2>2. dpc' \in [Threads -> {"off", "test", "loop", "write", "zero"}]
    BY <2>1 DEF TypeOK
  <2>3. TypeOK'
    BY <1>2, <2>2 DEF DumpLoop, DumpUnchanged, mainVars, backVars, TypeOK
  <2>4. RoomForEntry'
    BY <1>2, <2>1 DEF DumpLoop, DumpUnchanged, backVars, TypeOK, RoomForEntry
  <2>5. CountedAreFilled'
    BY <1>2, <2>1 DEF DumpLoop, DumpUnchanged, backVars, TypeOK, CountedAreFilled
  <2>6. CallOrder'
    BY <1>2 DEF DumpLoop, DumpUnchanged, mainVars, CallOrder
  <2> QED
    BY <1>0, <2>3, <2>4, <2>5, <2>6
<1>3. CASE DumpWrite(th)
  <2>1. /\ dpc[th] = "write" /\ di[th] < LOGGER_BUF_SIZE /\ buf[di[th]] \in Rows
        /\ pending_fp \in Paths
    BY <1>3 DEF DumpWrite, CountedAreFilled, TypeOK
  <2>2. pending' \in [Paths -> Seq(Rows)]
    <3>1. Append(pending[pending_fp], buf[di[th]]) \in Seq(Rows)
      BY <2>1, AppendProperties DEF TypeOK
    <3> QED
      BY <1>3, <3>1 DEF DumpWrite, TypeOK
  <2>3. di' = [di EXCEPT ![th] = @ + 1] /\ dpc' = [dpc EXCEPT ![th] = "loop"]
    BY <1>3 DEF DumpWrite
  <2>4. /\ di' \in [Threads -> 0 .. LOGGER_BUF_SIZE]
        /\ dpc' \in [Threads -> {"off", "test", "loop", "write", "zero"}]
    BY <2>1, <2>3 DEF TypeOK
  <2>5. TypeOK'
    BY <1>3, <2>2, <2>4 DEF DumpWrite, DumpUnchanged, mainVars, backVars, TypeOK
  <2>6. RoomForEntry'
    BY <1>3, <2>1, <2>3 DEF DumpWrite, DumpUnchanged, backVars, TypeOK, RoomForEntry
  <2>7. CountedAreFilled'
    BY <1>3, <2>3 DEF DumpWrite, DumpUnchanged, backVars, TypeOK, CountedAreFilled
  <2>8. CallOrder'
    BY <1>3 DEF DumpWrite, DumpUnchanged, mainVars, CallOrder
  <2> QED
    BY <1>0, <2>5, <2>6, <2>7, <2>8
<1>4. CASE DumpZero(th)
  <2>1. dpc' = [dpc EXCEPT ![th] = "off"] /\ count' = 0
    BY <1>4 DEF DumpZero
  <2>2. dpc' \in [Threads -> {"off", "test", "loop", "write", "zero"}]
    BY <2>1 DEF TypeOK
  <2>3. TypeOK'
    BY <1>4, <2>1, <2>2 DEF DumpZero, DumpUnchanged, mainVars, backVars, TypeOK
  <2>4. RoomForEntry'
    BY <1>4, <2>1 DEF DumpZero, DumpUnchanged, backVars, TypeOK, RoomForEntry
  <2>5. CountedAreFilled'
    BY <1>4, <2>1 DEF DumpZero, DumpUnchanged, backVars, TypeOK, CountedAreFilled
  <2>6. CallOrder'
    BY <1>4 DEF DumpZero, DumpUnchanged, mainVars, CallOrder
  <2> QED
    BY <1>0, <2>3, <2>4, <2>5, <2>6
<1>5. CASE DumpFails(th)
  <2>1. dpc' = [dpc EXCEPT ![th] = "zero"]
    BY <1>5 DEF DumpFails
  <2>2. dpc' \in [Threads -> {"off", "test", "loop", "write", "zero"}]
    BY <2>1 DEF TypeOK
  <2>3. TypeOK'
    BY <1>5, <2>1, <2>2 DEF DumpFails, DumpUnchanged, mainVars, backVars, TypeOK
  <2>4. RoomForEntry'
    BY <1>5, <2>1 DEF DumpFails, DumpUnchanged, backVars, TypeOK, RoomForEntry
  <2>5. CountedAreFilled'
    BY <1>5, <2>1 DEF DumpFails, DumpUnchanged, backVars, TypeOK, CountedAreFilled
  <2>6. CallOrder'
    BY <1>5 DEF DumpFails, DumpUnchanged, mainVars, CallOrder
  <2> QED
    BY <1>0, <2>3, <2>4, <2>5, <2>6
<1> QED
  BY <1>1, <1>2, <1>3, <1>4, <1>5 DEF Dump

\* Calling dump_to_pending.
LEMMA CallDumpType ==
  ASSUME TypeOK, NEW th \in Threads, CallDump(th)
  PROVE  /\ dpc' \in [Threads -> {"off", "test", "loop", "write", "zero"}]
         /\ dpc'[th] = "test"
         /\ \A o \in Threads : o # th => dpc'[o] = dpc[o]
  BY DEF CallDump, TypeOK

\* main() between dumps: the steps that change no data but may call a dump.
LEMMA MainControlStep ==
  ASSUME IndInv, calm' \in BOOLEAN,
         SetTest \/ Reconnect \/ Conclude \/ Flush \/ Commit \/ NextTest
  PROVE  IndInv'
<1> USE DEF IndInv
<1>1. UNCHANGED <<logVars, backVars, di, finished, again>>
  BY DEF SetTest, Reconnect, Conclude, Flush, Commit, NextTest
<1>2. /\ dpc' \in [Threads -> {"off", "test", "loop", "write", "zero"}]
      /\ dpc'["main"] \in {dpc["main"], "test"} /\ dpc'["callback"] = dpc["callback"]
  BY CallDumpType DEF SetTest, Reconnect, Conclude, Flush, Commit, NextTest, TypeOK
<1>3. /\ mpc' \in {"open", "flush", "commit", "next", "discard", "close", "set", "end"}
      /\ tnum' \in 1 .. N /\ retry' \in 0 .. MAX_RETRY
      /\ plan' \in {"commit", "late", "retry"}
  BY DEF SetTest, Reconnect, Conclude, Flush, Commit, NextTest, TypeOK
<1>4. TypeOK'
  BY <1>1, <1>2, <1>3 DEF logVars, backVars, TypeOK
<1>5. RoomForEntry'
  BY <1>1, <1>2 DEF logVars, backVars, RoomForEntry
<1>6. CountedAreFilled'
  BY <1>1, <1>2 DEF logVars, backVars, CountedAreFilled
<1>7. CallOrder'
  <2>1. UNCHANGED <<pending_fp, pending_path, params>>
    BY <1>1 DEF logVars
  <2>2. CASE SetTest
    BY <2>1, <2>2 DEF SetTest, CallOrder
  <2>3. CASE Conclude
    BY <2>1, <2>3 DEF Conclude, At, TypeOK, CallOrder
  <2>4. CASE Flush
    BY <2>1, <2>4 DEF Flush, At, TypeOK, CallOrder
  <2>5. CASE Commit
    BY <2>1, <2>5 DEF Commit, At, CallOrder
  <2>6. CASE NextTest
    BY <1>1, <2>1, <2>6 DEF NextTest, At, CallOrder
  <2>7. CASE Reconnect
    BY <1>1, <2>1, <2>7 DEF Reconnect, At, TypeOK, CallOrder
  <2> QED
    BY <2>2, <2>3, <2>4, <2>5, <2>6, <2>7
<1>8. FilesAhead'
  <2>1. tsv' = tsv
    BY <1>1 DEF logVars
  <2>2. CASE NextTest
    BY <2>1, <2>2 DEF NextTest, At, TypeOK, FilesAhead
  <2>3. CASE ~NextTest
    <3>1. tnum' = tnum /\ mpc \notin {"next", "end"}
      BY <2>3 DEF SetTest, Reconnect, Conclude, Flush, Commit, At
    <3> QED
      BY <2>1, <3>1 DEF FilesAhead
  <2> QED
    BY <2>2, <2>3
<1> QED
  BY <1>4, <1>5, <1>6, <1>7, <1>8

\* main() between dumps: the steps on the files, the parameters and the count.
LEMMA MainDataStep ==
  ASSUME IndInv, calm' \in BOOLEAN,
         \/ OpenPending \/ OpenFails \/ SetParams \/ ZeroCount
         \/ ClosePending \/ CopyRows \/ CopyFails \/ Discard \/ ForgetRows
  PROVE  IndInv'
<1> USE DEF IndInv
<1>1. /\ UNCHANGED <<buf, backVars, dpc, di>>
      /\ count' \in {0, count}
  BY DEF OpenPending, OpenFails, SetParams, ZeroCount, ClosePending, CopyRows, CopyFails,
         Discard, ForgetRows
<1>2. RoomForEntry'
  BY <1>1 DEF backVars, TypeOK, RoomForEntry
<1>3. CountedAreFilled'
  BY <1>1 DEF backVars, TypeOK, CountedAreFilled
<1>4. CallOrder'
  <2>1. CASE OpenPending
    BY <2>1 DEF OpenPending, At, TypeOK, CallOrder
  <2>2. CASE SetParams
    BY <2>2 DEF SetParams, At, TypeOK, CallOrder
  <2>3. CASE ZeroCount
    BY <2>3 DEF ZeroCount, At, TypeOK, CallOrder
  <2>4. CASE ClosePending
    BY <2>4 DEF ClosePending, At, TypeOK, CallOrder
  <2>5. CASE CopyRows
    BY <2>5 DEF CopyRows, At, TypeOK, CallOrder
  <2>6. CASE Discard
    BY <2>6 DEF Discard, At, TypeOK, CallOrder
  <2>7. CASE ForgetRows
    BY <2>7 DEF ForgetRows, At, TypeOK, CallOrder
  <2>8. CASE OpenFails
    BY <2>8 DEF OpenFails, At, TypeOK, CallOrder
  <2>9. CASE CopyFails
    BY <2>9 DEF CopyFails, At, TypeOK, CallOrder
  <2> QED
    BY <2>1, <2>2, <2>3, <2>4, <2>5, <2>6, <2>7, <2>8, <2>9
<1>5. /\ pending' \in [Paths -> Seq(Rows)] /\ tsv' \in [1 .. N -> Seq(Rows)]
      /\ params' \in Paths
      /\ pending_fp' \in Paths \cup {NULL} /\ pending_path' \in Paths \cup {NULL}
  <2>1. CASE OpenPending
    <3>1. params \in Paths /\ tsv' = tsv /\ params' = params /\ pending_path' = params
      BY <2>1 DEF OpenPending, TypeOK
    <3>2. /\ pending' = [pending EXCEPT ![params] = << >>]
          /\ pending_fp' = params
      BY <2>1 DEF OpenPending
    <3>3. pending' \in [Paths -> Seq(Rows)]
      BY <3>1, <3>2, EmptySeq DEF TypeOK
    <3> QED
      BY <3>1, <3>2, <3>3 DEF TypeOK
  <2>2. CASE SetParams
    BY <2>2 DEF SetParams, TypeOK
  <2>3. CASE ZeroCount
    BY <2>3 DEF ZeroCount, TypeOK
  <2>4. CASE ClosePending
    BY <2>4 DEF ClosePending, TypeOK
  <2>5. CASE CopyRows
    <3>1. params \in 1 .. N /\ pending_path \in Paths
      BY <2>5 DEF CopyRows, At, TypeOK, CallOrder
    <3>2. tsv[params] \o pending[pending_path] \in Seq(Rows)
      BY <3>1, ConcatProperties DEF TypeOK
    <3>3. tsv' \in [1 .. N -> Seq(Rows)]
      BY <2>5, <3>1, <3>2 DEF CopyRows, TypeOK
    <3>4. pending' \in [Paths -> Seq(Rows)]
      BY <2>5, <3>1, EmptySeq DEF CopyRows, TypeOK
    <3> QED
      BY <2>5, <3>3, <3>4 DEF CopyRows, TypeOK
  <2>6. CASE Discard
    BY <2>6, EmptySeq DEF Discard, TypeOK
  <2>7. CASE ForgetRows
    BY <2>7 DEF ForgetRows, TypeOK
  <2>8. CASE OpenFails
    BY <2>8 DEF OpenFails, TypeOK
  <2>9. CASE CopyFails
    <3>1. params \in 1 .. N /\ pending_path \in Paths
      BY <2>9 DEF CopyFails, At, TypeOK, CallOrder
    <3>2. PICK k \in 0 .. Len(pending[pending_path]) :
            tsv' = [tsv EXCEPT ![params] = @ \o SubSeq(pending[pending_path], 1, k)]
      BY <2>9 DEF CopyFails
    <3>3. pending[pending_path] \in Seq(Rows) /\ tsv[params] \in Seq(Rows)
      BY <3>1 DEF TypeOK
    <3>4. SubSeq(pending[pending_path], 1, k) \in Seq(Rows)
      BY <3>3
    <3>5. tsv[params] \o SubSeq(pending[pending_path], 1, k) \in Seq(Rows)
      BY <3>3, <3>4, ConcatProperties
    <3>6. tsv' \in [1 .. N -> Seq(Rows)]
      BY <3>1, <3>2, <3>5 DEF TypeOK
    <3>7. pending' \in [Paths -> Seq(Rows)]
      BY <2>9, <3>1, EmptySeq DEF CopyFails, TypeOK
    <3> QED
      BY <2>9, <3>6, <3>7 DEF CopyFails, TypeOK
  <2> QED
    BY <2>1, <2>2, <2>3, <2>4, <2>5, <2>6, <2>7, <2>8, <2>9
<1>6. /\ mpc' \in {"params", "zero", "reconnect", "set", "run", "copy", "next", "forget"}
      /\ tnum' = tnum /\ plan' = plan /\ again' \in BOOLEAN
  BY DEF OpenPending, OpenFails, SetParams, ZeroCount, ClosePending, CopyRows, CopyFails, Discard,
         ForgetRows, TypeOK
<1>7. retry' \in 0 .. MAX_RETRY
  <2>1. CASE ForgetRows
    BY <2>1 DEF ForgetRows, At, TypeOK, CallOrder
  <2>2. CASE ~ForgetRows
    BY <2>2 DEF OpenPending, OpenFails, SetParams, ZeroCount, ClosePending, CopyRows,
                CopyFails, Discard,
                TypeOK
  <2> QED
    BY <2>1, <2>2
<1>8. finished' \subseteq 1 .. MaxWrites
  BY DEF OpenPending, OpenFails, SetParams, ZeroCount, ClosePending, CopyRows, CopyFails, Discard,
         ForgetRows, TypeOK
<1>9. /\ count' \in 0 .. LOGGER_BUF_SIZE
      /\ buf' \in [Slots -> Rows \cup {NoRow}]
      /\ wpc' \in {"idle", "store", "bump", "full", "return"}
      /\ wmsg' \in Rows \cup {NoRow} /\ wslot' \in Slots /\ arrived' \in 0 .. MaxWrites
      /\ dpc' \in [Threads -> {"off", "test", "loop", "write", "zero"}]
      /\ di' \in [Threads -> 0 .. LOGGER_BUF_SIZE]
  BY <1>1 DEF backVars, TypeOK
<1>10. tnum' \in 1 .. N /\ plan' \in {"commit", "late", "retry"}
  BY <1>6 DEF TypeOK
<1>11. TypeOK'
  BY <1>5, <1>6, <1>7, <1>8, <1>9, <1>10 DEF TypeOK
<1>12. FilesAhead'
  <2>1. CASE CopyRows \/ CopyFails
    <3>1. /\ mpc' = "next" /\ tnum' = tnum /\ params = tnum
          /\ \A t \in 1 .. N : t # params => tsv'[t] = tsv[t]
      BY <2>1 DEF CopyRows, CopyFails, At, TypeOK, CallOrder
    <3>2. mpc = "copy"
      BY <2>1 DEF CopyRows, CopyFails, At
    <3> QED
      BY <3>1, <3>2 DEF FilesAhead
  <2>2. CASE ~CopyRows /\ ~CopyFails
    <3>1. /\ UNCHANGED <<tsv, tnum>>
          /\ mpc \notin {"next", "end"}
      BY <2>2 DEF OpenPending, OpenFails, SetParams, ZeroCount, ClosePending, Discard,
                  ForgetRows, At
    <3> QED
      BY <3>1 DEF FilesAhead
  <2> QED
    BY <2>1, <2>2
<1> QED
  BY <1>2, <1>3, <1>4, <1>11, <1>12

\* The callback thread outside dump_to_pending.
LEMMA CallbackStep ==
  ASSUME IndInv, calm' \in BOOLEAN,
         Arrive \/ StoreEntry \/ CountEntry \/ BufferFull \/ ReturnWrite
  PROVE  IndInv'
<1> USE DEF IndInv
<1>1. /\ UNCHANGED <<params, pending_fp, pending_path, pending, tsv, mainVars, di>>
      /\ dpc'["main"] = dpc["main"]
  BY CallDumpType
  DEF Arrive, StoreEntry, CountEntry, BufferFull, ReturnWrite, logVars, TypeOK
<1>2. CallOrder' /\ FilesAhead'
  BY <1>1 DEF mainVars, CallOrder, FilesAhead
<1>3. CASE Arrive
  <2>1. wmsg' \in Rows
    BY <1>3 DEF Arrive, TypeOK, Rows
  <2>2. TypeOK'
    BY <1>3, <2>1 DEF Arrive, logVars, mainVars, TypeOK
  <2>3. RoomForEntry'
    BY <1>3 DEF Arrive, logVars, RoomForEntry
  <2>4. CountedAreFilled'
    BY <1>3, <2>1 DEF Arrive, logVars, CountedAreFilled
  <2> QED
    BY <1>2, <2>2, <2>3, <2>4
<1>4. CASE StoreEntry
  <2>1. /\ count \in Slots /\ wmsg \in Rows /\ wslot' = count /\ count' = count
        /\ buf' = [buf EXCEPT ![count] = wmsg]
    BY <1>4 DEF StoreEntry, TypeOK, RoomForEntry, CountedAreFilled
  <2>2. TypeOK'
    BY <1>4, <2>1 DEF StoreEntry, mainVars, TypeOK
  <2>3. RoomForEntry'
    BY <1>4 DEF StoreEntry, RoomForEntry
  <2>4. \A s \in Slots : buf[s] \in Rows => buf'[s] \in Rows
    BY <2>1 DEF TypeOK
  <2>5. \A s \in Slots : s <= count => buf'[s] \in Rows
    BY <2>1 DEF TypeOK, CountedAreFilled
  <2>6. \A th \in Threads : dpc'[th] = "write" => di'[th] < LOGGER_BUF_SIZE
                                                  /\ buf'[di'[th]] \in Rows
    BY <1>4, <2>4 DEF StoreEntry, TypeOK, CountedAreFilled
  <2>7. CountedAreFilled'
    BY <1>4, <2>1, <2>5, <2>6 DEF StoreEntry, TypeOK, CountedAreFilled
  <2> QED
    BY <1>2, <2>2, <2>3, <2>7
<1>5. CASE CountEntry
  <2>1. /\ wslot \in Slots /\ count \in 0 .. LOGGER_BUF_SIZE /\ count <= wslot
        /\ count' \in {count + 1, wslot + 1} /\ wpc' = "full"
    BY <1>5 DEF CountEntry, TypeOK, CountedAreFilled
  <2>2. count' \in 0 .. LOGGER_BUF_SIZE /\ \A s \in Slots : s < count' => s <= wslot
    BY <2>1
  <2>3. TypeOK'
    BY <1>5, <2>2 DEF CountEntry, mainVars, TypeOK
  <2>4. RoomForEntry'
    BY <1>5 DEF CountEntry, RoomForEntry
  <2>5. CountedAreFilled'
    BY <1>5, <2>2 DEF CountEntry, CountedAreFilled
  <2> QED
    BY <1>2, <2>3, <2>4, <2>5
<1>6. CASE BufferFull
  <2>1. /\ dpc' \in [Threads -> {"off", "test", "loop", "write", "zero"}]
        /\ dpc'["callback"] = "off" => count < LOGGER_BUF_SIZE
        /\ \A th \in Threads : dpc'[th] = "write" => dpc[th] = "write"
    BY <1>6, CallDumpType DEF BufferFull, TypeOK
  <2>2. TypeOK'
    BY <1>6, <2>1 DEF BufferFull, logVars, mainVars, TypeOK
  <2>3. RoomForEntry'
    BY <1>6, <2>1 DEF BufferFull, logVars, RoomForEntry
  <2>4. CountedAreFilled'
    BY <1>6, <2>1 DEF BufferFull, logVars, CountedAreFilled
  <2> QED
    BY <1>2, <2>2, <2>3, <2>4
<1>7. CASE ReturnWrite
  <2>1. finished' \subseteq 1 .. MaxWrites
    BY <1>7 DEF ReturnWrite, TypeOK, CountedAreFilled, Rows
  <2>2. TypeOK'
    BY <1>7, <2>1 DEF ReturnWrite, logVars, mainVars, TypeOK
  <2>3. RoomForEntry'
    BY <1>7 DEF ReturnWrite, logVars, RoomForEntry
  <2>4. CountedAreFilled'
    BY <1>7 DEF ReturnWrite, logVars, CountedAreFilled
  <2> QED
    BY <1>2, <2>2, <2>3, <2>4
<1> QED
  BY <1>3, <1>4, <1>5, <1>6, <1>7

-----------------------------------------------------------------------------
\* Every step of the two threads keeps the invariant.
LEMMA Inductive == IndInv /\ [Next]_vars => IndInv'
<1> SUFFICES ASSUME IndInv, [Next]_vars PROVE IndInv'
  OBVIOUS
<1>1. CASE SetTest \/ Main \/ Callback \/ Failure
  <2>1. calm' \in BOOLEAN
    <3>1. calm \in BOOLEAN
      BY DEF IndInv, TypeOK
    <3>2. \/ calm' = ~Overlapping'
          \/ calm' = (calm /\ ~Overlapping')
          \/ calm' = FALSE
          \/ calm' = calm
      BY DEF Next, Stopped, vars
    <3> QED
      BY <3>1, <3>2, Zenon
  <2>2. CASE SetTest \/ Main
    BY <2>1, <2>2, DumpStep, MainControlStep, MainDataStep DEF Main
  <2>3. CASE Callback
    BY <2>1, <2>3, DumpStep, CallbackStep DEF Callback
  <2>4. CASE Failure
    BY <2>1, <2>4, DumpStep, MainDataStep DEF Failure
  <2> QED
    BY <1>1, <2>2, <2>3, <2>4
<1>3. CASE UNCHANGED vars
  <2>1. TypeOK'
    BY <1>3 DEF IndInv, vars, logVars, mainVars, backVars, TypeOK
  <2>2. RoomForEntry' /\ CountedAreFilled' /\ CallOrder' /\ FilesAhead'
    BY <1>3 DEF IndInv, vars, logVars, mainVars, backVars, RoomForEntry,
                CountedAreFilled, CallOrder, FilesAhead
  <2> QED
    BY <2>1, <2>2 DEF IndInv
<1> QED
  BY <1>1, <1>3 DEF Next, Stopped

\* The logger stays within IndInv, whatever the two threads do to each other.
THEOREM Invariance == Spec => []IndInv
  BY Initially, Inductive, PTL DEF Spec

\* Every variable keeps its type: in particular no row that logger_write has not
\* filled reaches a pending file or a TSV file.
THEOREM TypeCorrect == Spec => []TypeOK
<1>1. IndInv => TypeOK
  BY DEF IndInv
<1> QED
  BY <1>1, Invariance, PTL

\* The buffer of logger.c:189 is never overrun, with no lock and any buffer size.
THEOREM NoOverrun == Spec => []BufferInBounds
<1>1. IndInv => BufferInBounds
  BY DEF IndInv, RoomForEntry, CountedAreFilled, BufferInBounds
<1> QED
  BY <1>1, Invariance, PTL

-----------------------------------------------------------------------------
(***************************************************************************)
(* The refinement of RowStore.  What holds as long as the test is calm.    *)
(***************************************************************************)

\* A callback that has begun is not inside one of main()'s calls, and main() waits for it.
OneAtATime ==
  /\ wpc # "idle" => ~InCall
  /\ dpc["main"] # "off" => mpc \in {"open", "commit", "next", "discard", "close"}

\* A dump has a file to write to, and counts up to a count that nobody changes.
DumpUndisturbed ==
  \A th \in Threads :
    /\ dpc[th] \in {"loop", "write", "zero"} => pending_fp # NULL
    /\ dpc[th] = "loop" => di[th] <= count
    /\ dpc[th] = "write" => di[th] < count

\* The pending file is new when the parameters are set, and open until the commit has
\* emptied the buffer.
PendingOfPath ==
  /\ pending_fp = NULL /\ pending_path # NULL => mpc \in {"open", "copy"}
  /\ mpc \in {"params", "zero"} => pending_path # NULL /\ pending[pending_path] = << >>
  /\ mpc = "copy" \/ (mpc = "close" /\ dpc["main"] = "off") => count = 0

\* The message in hand is of the logger's test, and in the entry behind the counted ones.
MessageInHand ==
  /\ wpc \in {"store", "bump"} => wmsg.test = params
  /\ wpc = "bump" => wslot = count /\ buf[count] = wmsg

StoreInv == OneAtATime /\ DumpUndisturbed /\ PendingOfPath /\ MessageInHand

\* No thread is inside dump_to_pending when the logger starts.
LEMMA StoreInvInitially == Init => StoreInv
BY DEF Init, StoreInv, OneAtATime, DumpUndisturbed, PendingOfPath, MessageInHand, InCall

\* dump_to_pending has the count, the buffer and the file to itself.
LEMMA DumpKeepsOrder ==
  ASSUME IndInv, StoreInv, NEW th \in Threads, Dump(th),
         th = "main" => wpc = "idle"
  PROVE  StoreInv'
<1>1. TypeOK /\ RoomForEntry /\ StoreInv
  BY DEF IndInv
<1>2. UNCHANGED <<params, pending_path, mpc, tnum, wpc, wmsg, wslot, buf, pending_fp>>
  BY DEF Dump, DumpTest, DumpLoop, DumpWrite, DumpZero, DumpUnchanged, mainVars, backVars
<1>3. dpc[th] # "off" /\ \A o \in Threads : o # th => dpc[o] = "off" /\ dpc'[o] = "off"
  <2>1. dpc[th] # "off" /\ \A o \in Threads : o # th => dpc'[o] = dpc[o]
    BY <1>1 DEF Dump, DumpTest, DumpLoop, DumpWrite, DumpZero, TypeOK
  <2>2. \A o \in Threads : o # th => dpc[o] = "off"
    BY <1>1, <2>1 DEF StoreInv, OneAtATime, RoomForEntry, InCall
  <2> QED
    BY <2>1, <2>2
<1>4. dpc'[th] = "off" => count' = 0
  BY <1>1, <1>3 DEF Dump, DumpTest, DumpLoop, DumpWrite, DumpZero, TypeOK
<1>5. OneAtATime'
  BY <1>1, <1>2, <1>3 DEF StoreInv, OneAtATime, RoomForEntry, InCall
<1>6. DumpUndisturbed'
  <2>1. /\ dpc'[th] \in {"loop", "write", "zero"} => pending_fp # NULL
        /\ dpc'[th] = "loop" => di'[th] <= count'
        /\ dpc'[th] = "write" => di'[th] < count'
    <3>1. CASE DumpTest(th)
      BY <1>1, <3>1 DEF DumpTest, TypeOK
    <3>2. CASE DumpLoop(th)
      BY <1>1, <3>2 DEF DumpLoop, TypeOK, StoreInv, DumpUndisturbed
    <3>3. CASE DumpWrite(th)
      BY <1>1, <3>3 DEF DumpWrite, TypeOK, StoreInv, DumpUndisturbed
    <3>4. CASE DumpZero(th)
      BY <1>1, <3>4 DEF DumpZero, TypeOK
    <3> QED
      BY <3>1, <3>2, <3>3, <3>4 DEF Dump
  <2> QED
    BY <1>2, <1>3, <2>1 DEF DumpUndisturbed
<1>7. PendingOfPath'
  <2>1. mpc \notin {"params", "zero"}
    <3>1. CASE th = "main"
      BY <1>1, <1>3, <3>1 DEF StoreInv, OneAtATime
    <3>2. CASE th = "callback"
      BY <1>1, <1>3, <3>2 DEF StoreInv, OneAtATime, RoomForEntry, InCall
    <3> QED
      BY <3>1, <3>2
  <2>2. mpc # "copy"
    <3>1. CASE th = "main"
      BY <1>1, <1>3, <3>1 DEF StoreInv, OneAtATime
    <3>2. CASE th = "callback"
      BY <1>1, <1>3, <3>2 DEF StoreInv, OneAtATime, RoomForEntry, InCall
    <3> QED
      BY <3>1, <3>2
  <2>3. mpc = "close" /\ dpc'["main"] = "off" => count' = 0
    <3>1. CASE th = "main"
      BY <1>4, <3>1
    <3>2. CASE th = "callback"
      BY <1>1, <1>3, <3>2 DEF StoreInv, OneAtATime, RoomForEntry, InCall
    <3> QED
      BY <3>1, <3>2
  <2> QED
    BY <1>1, <1>2, <2>1, <2>2, <2>3 DEF StoreInv, PendingOfPath
<1>8. MessageInHand'
  <2>1. wpc \in {"idle", "return"}
    BY <1>1, <1>3 DEF StoreInv, OneAtATime, RoomForEntry, InCall
  <2> QED
    BY <1>2, <2>1 DEF MessageInHand
<1> QED
  BY <1>5, <1>6, <1>7, <1>8 DEF StoreInv

\* main() between dumps, while the callback thread waits for messages.
LEMMA MainKeepsOrder ==
  ASSUME IndInv, StoreInv, wpc = "idle",
         \/ OpenPending \/ SetParams \/ ZeroCount \/ Flush \/ Commit
         \/ ClosePending \/ CopyRows \/ Discard \/ ForgetRows
  PROVE  StoreInv'
<1>1. TypeOK /\ CallOrder /\ dpc["callback"] = "off" /\ dpc["main"] = "off"
  BY DEF IndInv, RoomForEntry, OpenPending, SetParams, ZeroCount, Flush, Commit,
         ClosePending, CopyRows, Discard, ForgetRows, At
<1>2. UNCHANGED wpc
  BY DEF OpenPending, SetParams, ZeroCount, Flush, Commit, ClosePending, CopyRows, Discard,
         ForgetRows, backVars
<1>3. /\ dpc'["callback"] = "off" /\ dpc'["main"] \in {"off", "test"}
      /\ dpc'["main"] = "test" => mpc' \in {"open", "commit", "next", "discard", "close"}
  BY <1>1, CallDumpType
  DEF OpenPending, SetParams, ZeroCount, Flush, Commit, ClosePending, CopyRows, Discard,
      ForgetRows, TypeOK
<1>4. OneAtATime' /\ DumpUndisturbed' /\ MessageInHand'
  BY <1>2, <1>3 DEF OneAtATime, DumpUndisturbed, MessageInHand
<1>5. PendingOfPath'
  <2> USE DEF PendingOfPath, At
  <2>2. CASE OpenPending
    <3>1. /\ params \in Paths /\ pending_fp' = params /\ pending_path' = params
          /\ pending' = [pending EXCEPT ![params] = << >>] /\ mpc' = "params"
      BY <1>1, <2>2 DEF OpenPending, TypeOK
    <3>2. pending'[params] = << >>
      BY <1>1, <3>1 DEF TypeOK
    <3> QED
      BY <3>1, <3>2
  <2>3. CASE SetParams
    BY <2>3 DEF SetParams, StoreInv
  <2>4. CASE ZeroCount
    BY <2>4 DEF ZeroCount, StoreInv
  <2>6. CASE Flush
    BY <1>1, <2>6 DEF Flush, logVars, StoreInv, TypeOK
  <2>7. CASE Commit
    BY <1>1, <2>7, CallDumpType DEF Commit, logVars, StoreInv
  <2>8. CASE ClosePending
    BY <1>1, <2>8 DEF ClosePending, StoreInv
  <2>9. CASE CopyRows
    BY <1>1, <2>9 DEF CopyRows, StoreInv, CallOrder
  <2>10. CASE Discard
    BY <2>10 DEF Discard, StoreInv
  <2>11. CASE ForgetRows
    BY <2>11 DEF ForgetRows, StoreInv
  <2> QED
    BY <2>2, <2>3, <2>4, <2>6, <2>7, <2>8, <2>9, <2>10, <2>11
<1> QED
  BY <1>4, <1>5 DEF StoreInv

\* main() between dumps, without a call of the logger that does anything.
Idles == Conclude \/ Reconnect \/ NextTest \/ (Commit /\ UNCHANGED dpc)

LEMMA IdleKeepsOrder ==
  ASSUME IndInv, StoreInv, Idles
  PROVE  StoreInv'
<1>1. /\ UNCHANGED <<logVars, backVars, dpc, di>> /\ dpc["main"] = "off"
      /\ mpc \in {"run", "reconnect", "next", "commit"}
      /\ mpc' \in {"flush", "set", "discard", "next", "end"}
  <2>1. TypeOK
    BY DEF IndInv
  <2>2. CASE Commit /\ UNCHANGED dpc
    <3>1. mpc' = "next"
      <4>1. dpc["main"] = "off" /\ (dpc'["main"] = "test" \/ mpc' = "next")
        BY <2>1, <2>2, CallDumpType DEF Commit, At
      <4> QED
        BY <2>2, <4>1
    <3> QED
      BY <2>2, <3>1 DEF Commit, At
  <2> QED
    BY <2>2 DEF Idles, Conclude, Reconnect, NextTest, At
<1>2. OneAtATime'
  BY <1>1 DEF backVars, OneAtATime, InCall
<1>3. DumpUndisturbed' /\ PendingOfPath' /\ MessageInHand'
  BY <1>1 DEF logVars, backVars, StoreInv, DumpUndisturbed, PendingOfPath, MessageInHand
<1> QED
  BY <1>2, <1>3 DEF StoreInv

\* logger_set_test makes a fresh start, whatever has happened before.
LEMMA SetTestKeepsOrder ==
  ASSUME IndInv, SetTest, wpc = "idle"
  PROVE  StoreInv'
<1>1. /\ UNCHANGED <<logVars, backVars, di>> /\ mpc' = "open"
      /\ dpc'["main"] \in {"off", "test"} /\ dpc'["callback"] = "off"
  BY CallDumpType DEF IndInv, TypeOK, RoomForEntry, SetTest, At
<1>2. OneAtATime' /\ DumpUndisturbed' /\ MessageInHand' /\ PendingOfPath'
  BY <1>1 DEF logVars, backVars, OneAtATime, DumpUndisturbed, MessageInHand, PendingOfPath
<1> QED
  BY <1>2 DEF StoreInv

\* logger_write, while main() is outside of the logger.
LEMMA CallbackKeepsOrder ==
  ASSUME IndInv, StoreInv, ~InCall,
         Arrive \/ StoreEntry \/ CountEntry \/ BufferFull \/ ReturnWrite
  PROVE  StoreInv'
<1>1. TypeOK /\ RoomForEntry /\ dpc["main"] = "off"
  BY DEF IndInv, InCall
<1>2. /\ UNCHANGED <<params, pending_fp, pending_path, pending, mpc, tnum>>
      /\ dpc'["main"] = "off"
  BY <1>1, CallDumpType
  DEF Arrive, StoreEntry, CountEntry, BufferFull, ReturnWrite, logVars, mainVars
<1>3. OneAtATime'
  BY <1>2 DEF OneAtATime, InCall
<1>4. dpc'["callback"] \in {"off", "test"}
  <2>1. CASE BufferFull
    BY <1>1, <2>1, CallDumpType DEF BufferFull, RoomForEntry
  <2>2. CASE ~BufferFull
    <3>1. dpc' = dpc /\ dpc["callback"] = "off"
      BY <1>1, <2>2 DEF Arrive, StoreEntry, CountEntry, ReturnWrite, RoomForEntry
    <3> QED
      BY <3>1
  <2> QED
    BY <2>1, <2>2
<1>5. DumpUndisturbed'
  BY <1>2, <1>4 DEF DumpUndisturbed
<1>6. PendingOfPath'
  BY <1>2 DEF StoreInv, PendingOfPath, InCall
<1>7. MessageInHand'
  <2>1. CASE Arrive
    BY <2>1 DEF Arrive, logVars, MessageInHand
  <2>2. CASE StoreEntry
    <3>1. count \in Slots
      BY <1>1, <2>2 DEF StoreEntry, TypeOK, RoomForEntry
    <3> QED
      BY <1>1, <2>2, <3>1 DEF StoreEntry, StoreInv, MessageInHand, TypeOK
  <2>3. CASE CountEntry \/ BufferFull \/ ReturnWrite
    BY <2>3 DEF CountEntry, BufferFull, ReturnWrite, MessageInHand
  <2> QED
    BY <2>1, <2>2, <2>3
<1> QED
  BY <1>3, <1>5, <1>6, <1>7 DEF StoreInv

\* Every step that leaves the test undisturbed is one of these.
LEMMA StepsApart ==
  ASSUME IndInv, calm => StoreInv, calm' = TRUE, Next
  PROVE  \/ /\ calm = TRUE /\ StoreInv
            /\ \/ \E th \in Threads : Dump(th) /\ (th = "main" => wpc = "idle")
               \/ /\ wpc = "idle"
                  /\ \/ OpenPending \/ SetParams \/ ZeroCount \/ Flush \/ Commit
                     \/ ClosePending \/ CopyRows \/ Discard \/ ForgetRows
               \/ Idles
               \/ /\ ~InCall
                  /\ Arrive \/ StoreEntry \/ CountEntry \/ BufferFull \/ ReturnWrite
         \/ SetTest /\ wpc = "idle"
         \/ UNCHANGED vars
<1>1. calm \in BOOLEAN /\ TypeOK /\ RoomForEntry
  BY DEF IndInv, TypeOK
<1>2. CASE SetTest /\ calm' = ~Overlapping'
  <2>1. ~Overlapping'
    BY <1>2, Zenon
  <2>2. mpc' = "open" /\ wpc' = wpc
    BY <1>2 DEF SetTest, backVars
  <2> QED
    BY <1>2, <2>1, <2>2 DEF Overlapping, InCall
<1>3. CASE (Main \/ Callback) /\ calm' = (calm /\ ~Overlapping')
  <2>1. calm = TRUE /\ ~Overlapping'
    BY <1>1, <1>3, Zenon
  <2>2. StoreInv /\ (wpc # "idle" => ~InCall)
    BY <2>1 DEF StoreInv, OneAtATime
  <2>3. CASE Main /\ wpc = "idle"
    BY <2>1, <2>2, <2>3 DEF Main, Idles
  <2>4. CASE Main /\ wpc # "idle"
    <3>1. /\ dpc["main"] = "off"
          /\ mpc \notin {"open", "params", "zero", "close", "copy", "forget"}
      BY <2>2, <2>4 DEF InCall
    <3>2. wpc' # "idle"
      BY <2>4 DEF Main, Dump, DumpTest, DumpLoop, DumpWrite, DumpZero, DumpUnchanged,
         OpenPending, SetParams, ZeroCount, Reconnect, Conclude, Flush, Commit, ClosePending,
         CopyRows, Discard, ForgetRows, NextTest, backVars
    <3>3. /\ dpc'["main"] = "off"
          /\ mpc' \notin {"open", "params", "zero", "close", "copy", "forget"}
      BY <2>1, <3>2 DEF Overlapping, InCall
    <3>4. ~Flush
      BY <1>1, <3>3, CallDumpType DEF Flush
    <3>5. Commit => UNCHANGED dpc
      BY <3>3 DEF Commit
    <3>6. ~Dump("main")
      BY <3>1 DEF Dump, DumpTest, DumpLoop, DumpWrite, DumpZero
    <3>7. ~OpenPending /\ ~SetParams /\ ~ZeroCount /\ ~ClosePending /\ ~CopyRows /\ ~ForgetRows
      BY <3>1 DEF OpenPending, SetParams, ZeroCount, ClosePending, CopyRows, ForgetRows, At
    <3>8. ~Discard
      BY <3>3 DEF Discard
    <3>9. Idles
      BY <2>4, <3>4, <3>5, <3>6, <3>7, <3>8 DEF Main, Idles
    <3> QED
      BY <2>1, <2>2, <3>9
  <2>5. CASE Callback
    <3>1. Dump("callback") \/ StoreEntry \/ CountEntry \/ BufferFull \/ ReturnWrite
          => wpc # "idle"
      BY <1>1 DEF Dump, DumpTest, DumpLoop, DumpWrite, DumpZero, StoreEntry, CountEntry,
         BufferFull, ReturnWrite, RoomForEntry
    <3>2. Arrive => ~InCall
      BY <2>1 DEF Arrive, Overlapping, InCall, mainVars
    <3> QED
      BY <2>1, <2>2, <2>5, <3>1, <3>2 DEF Callback
  <2> QED
    BY <1>3, <2>3, <2>4, <2>5
<1>4. CASE Stopped
  BY <1>4 DEF Stopped
<1> QED
  BY <1>2, <1>3, <1>4 DEF Next

\* An undisturbed test is as StoreInv says, at every step.
LEMMA StoreInductive ==
  ASSUME IndInv, calm => StoreInv, [Next]_vars
  PROVE  calm' => StoreInv'
<1> SUFFICES ASSUME calm' PROVE StoreInv'
  OBVIOUS
<1>1. CASE UNCHANGED vars
  <2>1. StoreInv
    BY <1>1 DEF vars
  <2> QED
    BY <1>1, <2>1
    DEF vars, logVars, mainVars, backVars, StoreInv, OneAtATime, DumpUndisturbed,
        PendingOfPath, MessageInHand, InCall
<1>2. CASE Next
  <2>1. calm' = TRUE
    <3>1. calm' \in BOOLEAN
      BY Inductive DEF IndInv, TypeOK
    <3> QED
      BY <3>1, Zenon
  <2> QED
    BY <1>1, <1>2, <2>1, StepsApart, DumpKeepsOrder, MainKeepsOrder, IdleKeepsOrder,
       SetTestKeepsOrder, CallbackKeepsOrder
<1> QED
  BY <1>1, <1>2

-----------------------------------------------------------------------------
(* The rows that are held, as sequences.                                   *)

\* n entries from one on.
Entries(b, from, n) == [i \in 1 .. n |-> b[from + i - 1]]

\* The first entry that no dump has taken yet.
From ==
  IF dpc["main"] \in {"loop", "write"} THEN di["main"]
  ELSE IF dpc["callback"] \in {"loop", "write"} THEN di["callback"]
  ELSE IF \E th \in Threads : dpc[th] = "zero" THEN count ELSE 0

\* The buffered rows the store sees are the entries from From to count.
LEMMA BufferedEntries == Buffered = Entries(buf, From, count - From)
BY DEF Buffered, Entries, From

\* Entries within the buffer are a sequence.
LEMMA EntriesSeq ==
  ASSUME NEW S, NEW b \in [Slots -> S], NEW from \in Nat, NEW n \in Nat,
         from + n <= LOGGER_BUF_SIZE
  PROVE  /\ Entries(b, from, n) \in Seq(S)
         /\ Len(Entries(b, from, n)) = n
         /\ \A i \in 1 .. n : Entries(b, from, n)[i] = b[from + i - 1]
<1> DEFINE e == Entries(b, from, n)
<1>1. \A i \in 1 .. n : from + i - 1 \in Slots
  OBVIOUS
<1>2. e = [i \in 1 .. n |-> b[from + i - 1]]
  BY DEF Entries
<1>3. e \in [1 .. n -> S]
  BY <1>1, <1>2
<1>4. e \in Seq(S) /\ Len(e) = n
  <2> HIDE DEF e
  <2>1. e \in Seq(S)
    BY <1>3, SeqDef
  <2>2. DOMAIN e = 1 .. n
    BY <1>3
  <2> QED
    BY <2>1, <2>2
<1> QED
  BY <1>2, <1>4

\* An empty range of the buffer holds no row.
LEMMA NoEntries == \A b, from : Entries(b, from, 0) = << >>
BY DEF Entries

\* One more entry at the end.
LEMMA EntryAppended ==
  ASSUME NEW S, NEW b \in [Slots -> S], NEW from \in Nat, NEW n \in Nat,
         from + n + 1 <= LOGGER_BUF_SIZE
  PROVE  Entries(b, from, n + 1) = Append(Entries(b, from, n), b[from + n])
<1> DEFINE e == Entries(b, from, n)
           f == Entries(b, from, n + 1)
           x == b[from + n]
<1>1. /\ from + n <= LOGGER_BUF_SIZE /\ n + 1 \in Nat /\ from + (n + 1) <= LOGGER_BUF_SIZE
      /\ from + n \in Slots
  OBVIOUS
<1>2. e \in Seq(S) /\ Len(e) = n
  BY <1>1, EntriesSeq
<1>3. \A i \in 1 .. n : e[i] = b[from + i - 1]
  BY DEF Entries
<1>4. f \in Seq(S) /\ Len(f) = n + 1
  BY <1>1, EntriesSeq
<1>5. \A i \in 1 .. n + 1 : f[i] = b[from + i - 1]
  BY DEF Entries
<1>6. x \in S
  BY <1>1
<1>7. f[n + 1] = x
  <2>1. n + 1 \in 1 .. n + 1 /\ from + (n + 1) - 1 = from + n
    OBVIOUS
  <2> QED
    BY <1>5, <2>1
<1> HIDE DEF e, f, x
<1>8. /\ Append(e, x) \in Seq(S) /\ Len(Append(e, x)) = n + 1
      /\ \A i \in 1 .. n : Append(e, x)[i] = e[i]
      /\ Append(e, x)[n + 1] = x
  BY <1>2, <1>6, AppendProperties
<1>9. \A i \in 1 .. n + 1 : f[i] = Append(e, x)[i]
  <2> SUFFICES ASSUME NEW i \in 1 .. n + 1 PROVE f[i] = Append(e, x)[i]
    OBVIOUS
  <2>1. CASE i = n + 1
    BY <1>7, <1>8, <2>1
  <2>2. CASE i \in 1 .. n
    BY <1>3, <1>5, <1>8, <2>2
  <2>3. i \in 1 .. n \/ i = n + 1
    OBVIOUS
  <2> QED
    BY <2>1, <2>2, <2>3
<1>10. f = Append(e, x)
  BY <1>4, <1>8, <1>9, SeqEqual
<1> QED
  BY <1>10 DEF e, f, x

\* One entry less at the front.
LEMMA EntryFirst ==
  ASSUME NEW S, NEW b \in [Slots -> S], NEW from \in Nat, NEW n \in Nat,
         from + n + 1 <= LOGGER_BUF_SIZE
  PROVE  Entries(b, from, n + 1) = <<b[from]>> \o Entries(b, from + 1, n)
<1> DEFINE e == Entries(b, from, n + 1)
           k == from + 1
           f == Entries(b, k, n)
           x == b[from]
<1>1. /\ n + 1 \in Nat /\ from + (n + 1) <= LOGGER_BUF_SIZE
      /\ k \in Nat /\ k + n <= LOGGER_BUF_SIZE /\ k = from + 1
      /\ from \in Slots
  OBVIOUS
<1> HIDE DEF k
<1>2. e \in Seq(S) /\ Len(e) = n + 1
  <2> DEFINE m == n + 1
  <2>1. m \in Nat /\ from + m <= LOGGER_BUF_SIZE
    OBVIOUS
  <2> HIDE DEF m
  <2>2. Entries(b, from, m) \in Seq(S) /\ Len(Entries(b, from, m)) = m
    BY <2>1, EntriesSeq
  <2> QED
    BY <2>2 DEF m
<1>3. \A i \in 1 .. n + 1 : e[i] = b[from + i - 1]
  BY DEF Entries
<1>4. f \in Seq(S) /\ Len(f) = n
  <2>1. k \in Nat /\ n \in Nat /\ k + n <= LOGGER_BUF_SIZE
    BY <1>1
  <2> QED
    BY <2>1, EntriesSeq
<1>5. \A i \in 1 .. n : f[i] = b[k + i - 1]
  BY DEF Entries
<1>6. x \in S
  BY <1>1
<1>7. e[1] = x
  <2>1. 1 \in 1 .. n + 1 /\ from + 1 - 1 = from
    OBVIOUS
  <2> QED
    BY <1>3, <2>1
<1>8. \A i \in 1 .. n : e[i + 1] = f[i]
  <2> SUFFICES ASSUME NEW i \in 1 .. n PROVE e[i + 1] = f[i]
    OBVIOUS
  <2>1. i + 1 \in 1 .. n + 1 /\ from + (i + 1) - 1 = k + i - 1
    BY <1>1
  <2> QED
    BY <1>3, <1>5, <2>1
<1> HIDE DEF e, f, x
<1>9. <<x>> \in Seq(S) /\ Len(<<x>>) = 1 /\ <<x>>[1] = x
  BY <1>6
<1> DEFINE g == <<x>> \o f
<1>10. g \in Seq(S) /\ Len(g) = n + 1
  BY <1>4, <1>9, ConcatProperties
<1>11. g[1] = x /\ \A i \in 1 .. n : g[i + 1] = f[i]
  <2>1. \A i \in 1 .. Len(<<x>>) + Len(f) :
          g[i] = IF i <= Len(<<x>>) THEN <<x>>[i] ELSE f[i - Len(<<x>>)]
    BY <1>4, <1>9, ConcatProperties
  <2> HIDE DEF g
  <2>2. \A i \in 1 .. n + 1 : g[i] = IF i <= 1 THEN x ELSE f[i - 1]
    BY <1>4, <1>9, <2>1
  <2>3. ASSUME NEW i \in 1 .. n PROVE g[i + 1] = f[i]
    <3>1. i + 1 \in 1 .. n + 1 /\ ~(i + 1 <= 1) /\ (i + 1) - 1 = i
      OBVIOUS
    <3> QED
      BY <2>2, <3>1
  <2>4. 1 \in 1 .. n + 1
    OBVIOUS
  <2> QED
    BY <2>2, <2>3, <2>4
<1> HIDE DEF g
<1>12. \A i \in 1 .. n + 1 : e[i] = g[i]
  <2> SUFFICES ASSUME NEW i \in 1 .. n + 1 PROVE e[i] = g[i]
    OBVIOUS
  <2>1. CASE i = 1
    BY <1>7, <1>11, <2>1
  <2>2. CASE i # 1
    <3>1. PICK j \in 1 .. n : i = j + 1
      <4>1. i - 1 \in 1 .. n /\ i = (i - 1) + 1
        BY <2>2
      <4> QED
        BY <4>1
    <3> QED
      BY <1>8, <1>11, <3>1
  <2> QED
    BY <2>1, <2>2
<1>13. e = g
  BY <1>2, <1>10, <1>12, SeqEqual
<1> QED
  BY <1>1, <1>13 DEF e, f, g, x, k

\* A row that moves from the front of the entries to the end of the file stays in place.
LEMMA EntryMoved ==
  ASSUME NEW S, NEW b \in [Slots -> S], NEW from \in Nat, NEW n \in Nat,
         from + n + 1 <= LOGGER_BUF_SIZE, NEW s \in Seq(S)
  PROVE  Append(s, b[from]) \o Entries(b, from + 1, n) = s \o Entries(b, from, n + 1)
<1> DEFINE x == b[from]
           k == from + 1
           f == Entries(b, k, n)
<1>1. x \in S /\ k \in Nat /\ k + n <= LOGGER_BUF_SIZE
  OBVIOUS
<1>2. Entries(b, from, n + 1) = <<x>> \o f
  BY EntryFirst
<1> HIDE DEF x, k
<1>3. f \in Seq(S)
  BY <1>1, EntriesSeq
<1> HIDE DEF f
<1>4. <<x>> \in Seq(S)
  BY <1>1
<1>5. Append(s, x) = s \o <<x>>
  BY <1>1, AppendIsConcat
<1>6. (s \o <<x>>) \o f = s \o (<<x>> \o f)
  BY <1>3, <1>4, ConcatAssociative
<1> QED
  BY <1>2, <1>5, <1>6 DEF x, k, f

-----------------------------------------------------------------------------
(* Every step of a calm test is one of RowStore, or changes nothing that   *)
(* RowStore knows of.                                                      *)

aOwner == IF Setting THEN tnum ELSE params
aOpen  == Setting \/ pending_path # NULL
aHeld  == IF pending_path = NULL \/ Setting THEN Held ELSE pending[pending_path] \o Held

\* What a step does to the rows: logger_write adds its message, CopyRows commits all that are
\* held, and only two steps give them up.
Takes == StoreEntry /\ aHeld' = Append(aHeld, wmsg) /\ UNCHANGED tsv
Moves == CopyRows /\ tsv' = [tsv EXCEPT ![params] = @ \o aHeld] /\ aHeld' = << >>
Drops ==
  /\ \/ Discard
     \/ pending_path = NULL /\ \E th \in Threads : Dump(th)
  /\ aHeld' = << >> /\ UNCHANGED tsv
Keeps ==
  /\ mpc # "copy" \/ UNCHANGED mpc
  /\ wpc # "store" \/ UNCHANGED wpc
  /\ UNCHANGED <<aHeld, tsv>>

Maps ==
  /\ Store!Next \/ UNCHANGED Store!vars
  /\ Takes \/ Moves \/ Drops \/ Keeps

\* A step of the logger that cannot be told from no step.
LEMMA MapsToStutter ==
  ASSUME calm = TRUE, calm' = TRUE, UNCHANGED <<aOwner, aOpen, aHeld, tsv>>,
         mpc # "copy" \/ UNCHANGED mpc, wpc # "store" \/ UNCHANGED wpc
  PROVE  Maps
BY DEF Maps, Keeps, Store!vars, aOwner, aOpen, aHeld

\* The logger's counterpart of each of the store's actions.
LEMMA MapsToWrite ==
  ASSUME calm = TRUE, calm' = TRUE,
         StoreEntry, NEW id \in 1 .. MaxWrites, wmsg = [id |-> id, test |-> aOwner],
         UNCHANGED <<aOwner, aOpen, tsv>>, aHeld' = Append(aHeld, wmsg)
  PROVE  Maps
<1>1. Store!Write(id)
  BY DEF Store!Write, aOwner, aOpen, aHeld
<1> QED
  BY <1>1 DEF Maps, Takes, Store!Next

\* logger_commit commits.
LEMMA MapsToCommit ==
  ASSUME calm = TRUE, calm' = TRUE, CopyRows, aOwner = params, aOpen, ~aOpen',
         aHeld' = << >>, UNCHANGED aOwner,
         tsv' = [tsv EXCEPT ![aOwner] = @ \o aHeld]
  PROVE  Maps
<1>1. Store!Commit
  BY DEF Store!Commit, aOwner, aOpen, aHeld
<1> QED
  BY <1>1 DEF Maps, Moves, Store!Next

\* logger_discard gives up.
LEMMA MapsToDiscard ==
  ASSUME calm = TRUE, calm' = TRUE, Discard, aOpen, ~aOpen',
         aHeld' = << >>, UNCHANGED <<aOwner, tsv>>
  PROVE  Maps
<1>1. Store!Discard
  BY DEF Store!Discard, aOwner, aOpen, aHeld
<1> QED
  BY <1>1 DEF Maps, Drops, Store!Next

\* Rows that belong to no test are lost.
LEMMA MapsToLose ==
  ASSUME calm = TRUE, calm' = TRUE, Discard \/ \E th \in Threads : Dump(th),
         ~aOpen, aHeld' = << >>, UNCHANGED <<aOwner, aOpen, tsv>>
  PROVE  Maps
<1>1. Store!Lose
  BY DEF Store!Lose, aOwner, aOpen, aHeld
<1>2. pending_path = NULL
  BY DEF aOpen
<1> QED
  BY <1>1, <1>2 DEF Maps, Drops, Store!Next

\* dump_to_pending moves rows from the buffer to the file, and forgets rows only when
\* no test is open.
LEMMA DumpMaps ==
  ASSUME calm = TRUE, calm' = TRUE, IndInv, StoreInv, NEW th \in Threads, Dump(th),
         th = "main" => wpc = "idle"
  PROVE  Maps
<1> DEFINE R == Rows \cup {NoRow}
<1>1. TypeOK /\ RoomForEntry /\ CallOrder /\ StoreInv
  BY DEF IndInv
<1>2. /\ UNCHANGED <<params, pending_path, mpc, tnum, wpc, wmsg, wslot, buf, pending_fp,
                     tsv>>
      /\ UNCHANGED <<Setting, Forgetting, aOwner, aOpen>>
  BY DEF Dump, DumpTest, DumpLoop, DumpWrite, DumpZero, DumpUnchanged, mainVars, backVars,
         Setting, Forgetting, aOwner, aOpen
<1>3. dpc[th] # "off" /\ \A o \in Threads : o # th => dpc[o] = "off" /\ dpc'[o] = "off"
  <2>1. dpc[th] # "off" /\ \A o \in Threads : o # th => dpc'[o] = dpc[o]
    BY <1>1 DEF Dump, DumpTest, DumpLoop, DumpWrite, DumpZero, TypeOK
  <2>2. \A o \in Threads : o # th => dpc[o] = "off"
    BY <1>1, <2>1 DEF StoreInv, OneAtATime, RoomForEntry, InCall
  <2> QED
    BY <2>1, <2>2
<1>4. mpc \notin {"forget", "copy"} /\ wpc \in {"idle", "return"}
  <2>1. CASE th = "main"
    BY <1>1, <1>3, <2>1 DEF StoreInv, OneAtATime
  <2>2. CASE th = "callback"
    BY <1>1, <1>3, <2>2 DEF StoreInv, OneAtATime, RoomForEntry, InCall
  <2> QED
    BY <2>1, <2>2
<1>5. /\ count \in 0 .. LOGGER_BUF_SIZE /\ di[th] \in 0 .. LOGGER_BUF_SIZE
      /\ buf \in [Slots -> R] /\ pending \in [Paths -> Seq(Rows)]
  BY <1>1 DEF TypeOK
<1>6. CASE Setting
  BY <1>2, <1>6, MapsToStutter DEF aHeld, Held
<1>7. CASE ~Setting
  <2>1. /\ Held = Entries(buf, From, count - From)
        /\ Held' = Entries(buf, From', count' - From')
    <3>1. Held = Buffered /\ Held' = Buffered'
      BY <1>2, <1>4, <1>7 DEF Held, Forgetting
    <3> QED
      BY <1>2, <3>1 DEF Buffered, Entries, From
  <2>2. From = IF dpc[th] \in {"loop", "write"} THEN di[th]
               ELSE IF dpc[th] = "zero" THEN count ELSE 0
    BY <1>3 DEF From
  <2>3. From' = IF dpc'[th] \in {"loop", "write"} THEN di'[th]
                ELSE IF dpc'[th] = "zero" THEN count' ELSE 0
    BY <1>3 DEF From
  <2>4. ASSUME Held' = Held, UNCHANGED pending
        PROVE  Maps
    BY <1>2, <2>4, MapsToStutter DEF aHeld
  <2>5. CASE DumpTest(th)
    <3>1. From = 0
      BY <2>2, <2>5 DEF DumpTest
    <3>2. CASE count = 0 \/ pending_fp = NULL
      <4>1. count' = 0 /\ dpc'[th] = "off" /\ UNCHANGED pending
        BY <1>1, <2>5, <3>2 DEF DumpTest, TypeOK
      <4>2. Held' = << >>
        BY <2>1, <2>3, <4>1, NoEntries
      <4>3. CASE count = 0
        BY <2>1, <2>4, <3>1, <4>1, <4>2, <4>3, NoEntries
      <4>4. CASE pending_fp = NULL
        <5>1. pending_path = NULL
          BY <1>1, <1>4, <1>7, <4>4 DEF StoreInv, PendingOfPath, Setting
        <5> QED
          BY <1>2, <1>7, <4>2, <5>1, MapsToLose DEF aHeld, aOpen
      <4> QED
        BY <3>2, <4>3, <4>4
    <3>3. CASE ~(count = 0 \/ pending_fp = NULL)
      <4>1. /\ dpc'[th] = "loop" /\ di'[th] = 0
            /\ UNCHANGED <<count, pending>>
        BY <1>1, <2>5, <3>3 DEF DumpTest, TypeOK
      <4> QED
        BY <2>1, <2>3, <2>4, <3>1, <4>1
    <3> QED
      BY <3>2, <3>3
  <2>6. CASE DumpLoop(th)
    <3>1. From = di[th] /\ di[th] <= count /\ UNCHANGED <<count, di, pending>>
      BY <1>1, <2>2, <2>6 DEF DumpLoop, StoreInv, DumpUndisturbed
    <3>2. From' = From
      <4>1. CASE di[th] < count
        BY <1>1, <2>3, <2>6, <3>1, <4>1 DEF DumpLoop, TypeOK
      <4>2. CASE ~(di[th] < count)
        <5>1. di[th] = count
          BY <1>5, <3>1, <4>2
        <5> QED
          BY <1>1, <2>3, <2>6, <3>1, <4>2, <5>1 DEF DumpLoop, TypeOK
      <4> QED
        BY <4>1, <4>2
    <3> QED
      BY <2>1, <2>4, <3>1, <3>2
  <2>7. CASE DumpWrite(th)
    <3> DEFINE k == di[th]
               n == count - k - 1
               p == pending[pending_path]
    <3>1. /\ k < count /\ pending_path = pending_fp /\ pending_path \in Paths
          /\ From = k /\ UNCHANGED count
      BY <1>1, <2>2, <2>7
      DEF DumpWrite, StoreInv, DumpUndisturbed, CallOrder, TypeOK
    <3>2. /\ pending' = [pending EXCEPT ![pending_path] = Append(p, buf[k])]
          /\ From' = k + 1
      BY <1>1, <2>3, <2>7, <3>1 DEF DumpWrite, TypeOK
    <3>3. p \in Seq(Rows) /\ pending'[pending_path] = Append(p, buf[k])
      BY <1>5, <3>1, <3>2
    <3>4. p \in Seq(R)
      BY <3>3, SeqMonotonic
    <3>5. n \in Nat /\ k \in Nat /\ k + n + 1 <= LOGGER_BUF_SIZE
          /\ count - k = n + 1 /\ count - (k + 1) = n
      BY <1>5, <3>1
    <3>6. Held = Entries(buf, k, n + 1) /\ Held' = Entries(buf, k + 1, n)
      BY <2>1, <3>1, <3>2, <3>5
    <3> HIDE DEF k, n, p, R
    <3>7. Append(p, buf[k]) \o Held' = p \o Held
      <4>1. buf \in [Slots -> R]
        BY <1>5
      <4>2. Append(p, buf[k]) \o Entries(buf, k + 1, n) = p \o Entries(buf, k, n + 1)
        BY <3>4, <3>5, <4>1, EntryMoved, SMTT(60)
      <4> QED
        BY <3>6, <4>2
    <3>8. pending_path # NULL
      BY <3>1
    <3>9. aHeld = p \o Held /\ aHeld' = Append(p, buf[k]) \o Held'
      BY <1>2, <1>7, <3>3, <3>8 DEF aHeld, p
    <3> QED
      BY <1>2, <3>7, <3>9, MapsToStutter
  <2>8. CASE DumpZero(th)
    <3>1. From = count /\ count' = 0 /\ dpc'[th] = "off" /\ UNCHANGED pending
      BY <1>1, <2>2, <2>8 DEF DumpZero, TypeOK
    <3>2. From' = 0
      BY <2>3, <3>1
    <3>3. Held = << >> /\ Held' = << >>
      BY <1>5, <2>1, <3>1, <3>2, NoEntries
    <3> QED
      BY <2>4, <3>1, <3>3
  <2> QED
    BY <2>5, <2>6, <2>7, <2>8 DEF Dump
<1> QED
  BY <1>6, <1>7

\* The steps of main() between dumps: CopyRows commits and Discard gives up; none of
\* the others can be told from no step.
LEMMA MainMaps ==
  ASSUME calm = TRUE, calm' = TRUE, IndInv, StoreInv, wpc = "idle",
         \/ OpenPending \/ SetParams \/ ZeroCount \/ Flush \/ Commit
         \/ ClosePending \/ CopyRows \/ Discard \/ ForgetRows
  PROVE  Maps
<1>1. TypeOK /\ CallOrder /\ dpc["callback"] = "off" /\ dpc["main"] = "off"
  BY DEF IndInv, RoomForEntry, OpenPending, SetParams, ZeroCount, Flush, Commit,
         ClosePending, CopyRows, Discard, ForgetRows, At
<1>2. UNCHANGED <<wpc, wmsg, buf>>
  BY DEF OpenPending, SetParams, ZeroCount, Flush, Commit, ClosePending, CopyRows, Discard,
         ForgetRows, logVars, backVars
<1>3. dpc'["callback"] = "off" /\ dpc'["main"] \in {"off", "test"}
  BY <1>1, CallDumpType
  DEF OpenPending, SetParams, ZeroCount, Flush, Commit, ClosePending, CopyRows, Discard,
      ForgetRows, TypeOK
<1>4. /\ Held = IF Setting \/ Forgetting THEN << >> ELSE Entries(buf, 0, count)
      /\ Held' = IF Setting' \/ Forgetting' THEN << >> ELSE Entries(buf, 0, count')
  <2>1. From = 0 /\ From' = 0
    BY <1>1, <1>3 DEF From
  <2>2. Buffered = Entries(buf, 0, count - 0) /\ Buffered' = Entries(buf, 0, count' - 0)
    BY <1>2, <2>1 DEF Buffered, Entries, From
  <2>3. count \in Int /\ count' \in Int
    <3>1. TypeOK'
      <4>1. calm' \in BOOLEAN
        OBVIOUS
      <4> QED
        BY <4>1, MainControlStep, MainDataStep DEF IndInv
    <3> QED
      BY <1>1, <3>1 DEF TypeOK
  <2> QED
    BY <1>2, <2>2, <2>3 DEF Held
<1> USE DEF At
<1>6. CASE OpenPending \/ SetParams
  <2>1. Setting /\ Setting' /\ UNCHANGED <<tnum, tsv>> /\ mpc # "copy"
    BY <1>6 DEF OpenPending, SetParams, Setting
  <2> QED
    BY <1>2, <1>4, <2>1, MapsToStutter DEF aOwner, aOpen, aHeld
<1>7. CASE ZeroCount
  <2>1. /\ Setting /\ ~Setting' /\ ~Forgetting' /\ count' = 0 /\ mpc # "copy"
        /\ UNCHANGED <<params, tnum, tsv, pending_path, pending>>
    BY <1>7 DEF ZeroCount, Setting, Forgetting
  <2>2. params = tnum /\ pending_path # NULL /\ pending[pending_path] = << >>
    BY <1>1, <1>7 DEF ZeroCount, StoreInv, PendingOfPath, CallOrder
  <2>3. Held = << >> /\ Held' = << >>
    BY <1>4, <2>1, NoEntries
  <2>4. aOwner' = aOwner /\ aOpen' = aOpen
    BY <2>1, <2>2 DEF aOwner, aOpen
  <2>5. aHeld = << >> /\ aHeld' = << >>
    <3>1. << >> \o << >> = << >>
      BY EmptySeq, ConcatEmptySeq
    <3> QED
      BY <2>1, <2>2, <2>3, <3>1 DEF aHeld
  <2> QED
    BY <1>2, <2>1, <2>4, <2>5, MapsToStutter
<1>8. CASE Flush \/ Commit \/ ClosePending
  <2>1. /\ ~Setting /\ ~Setting' /\ ~Forgetting /\ ~Forgetting' /\ mpc # "copy"
        /\ UNCHANGED <<count, params, pending_path, pending, tsv>>
    BY <1>1, <1>8
    DEF Flush, Commit, ClosePending, logVars, Setting, Forgetting, TypeOK
  <2> QED
    BY <1>2, <1>4, <2>1, MapsToStutter DEF aOwner, aOpen, aHeld
<1>9. CASE CopyRows
  <2>1. /\ ~Setting /\ ~Setting' /\ ~Forgetting /\ ~Forgetting' /\ UNCHANGED <<count, params>>
        /\ pending_path' = NULL
        /\ tsv' = [tsv EXCEPT ![params] = @ \o pending[pending_path]]
    BY <1>9 DEF CopyRows, Setting, Forgetting
  <2>2. count = 0 /\ pending_path # NULL /\ pending_path \in Paths
    BY <1>1, <1>9 DEF CopyRows, StoreInv, PendingOfPath, CallOrder, TypeOK
  <2>3. Held = << >> /\ Held' = << >>
    BY <1>4, <2>1, <2>2, NoEntries
  <2>4. aHeld = pending[pending_path]
    <3>1. pending[pending_path] \in Seq(Rows)
      BY <1>1, <2>2 DEF TypeOK
    <3>2. pending[pending_path] \o << >> = pending[pending_path]
      BY <3>1, ConcatEmptySeq
    <3> QED
      BY <2>1, <2>2, <2>3, <3>2 DEF aHeld
  <2>5. aOpen /\ ~aOpen' /\ aHeld' = << >> /\ aOwner = params /\ aOwner' = params
    BY <2>1, <2>2, <2>3 DEF aOpen, aHeld, aOwner
  <2> QED
    BY <1>9, <2>1, <2>4, <2>5, MapsToCommit
<1>10. CASE Discard
  <2>1. /\ ~Setting /\ ~Setting' /\ Forgetting' /\ pending_path' = NULL
        /\ UNCHANGED <<params, tsv>>
    BY <1>10 DEF Discard, Setting, Forgetting
  <2>2. aHeld' = << >> /\ ~aOpen' /\ UNCHANGED aOwner
    BY <1>4, <2>1 DEF aHeld, aOpen, aOwner
  <2>3. CASE aOpen
    BY <1>10, <2>1, <2>2, <2>3, MapsToDiscard
  <2>4. CASE ~aOpen
    <3>1. UNCHANGED aOpen
      BY <2>1, <2>4 DEF aOpen
    <3> QED
      BY <1>10, <2>1, <2>2, <2>4, <3>1, MapsToLose
  <2> QED
    BY <2>3, <2>4
<1>11. CASE ForgetRows
  <2>1. /\ ~Setting /\ ~Setting' /\ Forgetting /\ ~Forgetting' /\ count' = 0
        /\ mpc # "copy"
        /\ UNCHANGED <<params, tsv, pending_path, pending>>
    BY <1>11 DEF ForgetRows, Setting, Forgetting
  <2>2. Held = << >> /\ Held' = << >>
    BY <1>4, <2>1, NoEntries
  <2> QED
    BY <1>2, <2>1, <2>2, MapsToStutter DEF aOwner, aOpen, aHeld
<1> QED
  BY <1>6, <1>7, <1>8, <1>9, <1>10, <1>11

\* Outside of the logger's calls nothing happens to the rows.
LEMMA IdleMaps ==
  ASSUME calm = TRUE, calm' = TRUE, IndInv, Idles
  PROVE  Maps
<1>1. /\ UNCHANGED <<logVars, backVars, dpc, di>> /\ mpc # "copy"
      /\ ~Setting /\ ~Setting' /\ ~Forgetting /\ ~Forgetting'
      /\ wpc # "store" \/ UNCHANGED wpc
  <2>1. CASE Commit /\ UNCHANGED dpc
    <3>1. mpc' \in {"next", "close"} /\ mpc = "commit"
      BY <2>1 DEF Commit, At
    <3> QED
      BY <2>1, <3>1 DEF Commit, backVars, Setting, Forgetting
  <2>2. CASE Conclude \/ Reconnect \/ NextTest
    <3>1. /\ mpc \in {"run", "reconnect", "next"}
          /\ mpc' \in {"flush", "set", "discard", "next", "end"}
      BY <2>2 DEF Conclude, Reconnect, NextTest, At
    <3> QED
      BY <2>2, <3>1 DEF Conclude, Reconnect, NextTest, backVars, Setting, Forgetting
  <2> QED
    BY <2>1, <2>2 DEF Idles
<1>2. Held' = Held
  <2>1. Buffered' = Buffered
    BY <1>1 DEF logVars, Buffered
  <2> QED
    BY <1>1, <2>1 DEF backVars, Held
<1> QED
  BY <1>1, <1>2, MapsToStutter DEF logVars, aOwner, aOpen, aHeld

\* logger_write records its message when it has filled the entry.
LEMMA CallbackMaps ==
  ASSUME calm = TRUE, calm' = TRUE, IndInv, StoreInv, ~InCall,
         Arrive \/ StoreEntry \/ CountEntry \/ BufferFull \/ ReturnWrite
  PROVE  Maps
<1> DEFINE R == Rows \cup {NoRow}
<1>1. /\ TypeOK /\ RoomForEntry /\ CountedAreFilled /\ dpc["main"] = "off"
      /\ ~Setting /\ ~Forgetting
  BY DEF IndInv, InCall, Setting, Forgetting
<1>2. /\ UNCHANGED <<params, pending_path, pending, tsv, mpc, tnum>>
      /\ UNCHANGED <<Setting, Forgetting, aOwner, aOpen>>
      /\ dpc'["main"] = "off"
  BY <1>1, CallDumpType
  DEF Arrive, StoreEntry, CountEntry, BufferFull, ReturnWrite, logVars, mainVars, Setting,
      Forgetting, aOwner, aOpen
<1>3. dpc["callback"] = "off" /\ dpc'["callback"] \in {"off", "test"}
  <2>1. dpc["callback"] = "off"
    BY <1>1 DEF Arrive, StoreEntry, CountEntry, BufferFull, ReturnWrite, RoomForEntry
  <2>2. dpc' = dpc \/ CallDump("callback")
    BY DEF Arrive, StoreEntry, CountEntry, BufferFull, ReturnWrite
  <2> QED
    BY <1>1, <2>1, <2>2, CallDumpType
<1>4. count \in 0 .. LOGGER_BUF_SIZE /\ buf \in [Slots -> R] /\ count' \in Int
  <2>1. count' \in Int
    BY <1>1 DEF Arrive, StoreEntry, CountEntry, BufferFull, ReturnWrite, TypeOK, logVars
  <2> QED
    BY <1>1, <2>1 DEF TypeOK
<1>5. /\ Held = IF wpc = "bump" THEN Append(Entries(buf, 0, count), wmsg)
                ELSE Entries(buf, 0, count)
      /\ Held' = IF wpc' = "bump" THEN Append(Entries(buf', 0, count'), wmsg')
                 ELSE Entries(buf', 0, count')
  <2>1. From = 0 /\ From' = 0
    BY <1>1, <1>2, <1>3 DEF From
  <2>2. Buffered = Entries(buf, 0, count - 0) /\ Buffered' = Entries(buf', 0, count' - 0)
    BY <2>1 DEF Buffered, Entries, From
  <2>3. Held = (IF wpc = "bump" THEN Append(Buffered, wmsg) ELSE Buffered)
        /\ Held' = (IF wpc' = "bump" THEN Append(Buffered', wmsg') ELSE Buffered')
    BY <1>1, <1>2 DEF Held
  <2>4. count \in Int /\ count' \in Int
    BY <1>4
  <2>5. /\ Buffered = Entries(buf, 0, count)
        /\ Buffered' = Entries(buf', 0, count')
    BY <2>2, <2>4
  <2> QED
    BY <2>3, <2>5
<1>6. CASE Arrive \/ BufferFull \/ ReturnWrite
  <2>1. /\ UNCHANGED <<buf, count>> /\ wpc # "bump" /\ wpc' # "bump" /\ wpc # "store"
    BY <1>6 DEF Arrive, BufferFull, ReturnWrite, logVars
  <2> QED
    BY <1>2, <1>5, <2>1, MapsToStutter DEF aHeld
<1>7. CASE StoreEntry
  <2>1. /\ count \in Slots /\ wmsg \in Rows /\ wpc # "bump" /\ wpc' = "bump"
        /\ buf' = [buf EXCEPT ![count] = wmsg] /\ UNCHANGED <<count, wmsg>>
        /\ wmsg.test = params
    BY <1>1, <1>7
    DEF StoreEntry, TypeOK, RoomForEntry, CountedAreFilled, StoreInv, MessageInHand
  <2>2. Entries(buf', 0, count) = Entries(buf, 0, count)
    <3>1. \A i \in 1 .. count : buf'[0 + i - 1] = buf[0 + i - 1]
      BY <1>4, <2>1
    <3> QED
      BY <3>1 DEF Entries
  <2>3. Held' = Append(Held, wmsg)
    BY <1>5, <2>1, <2>2
  <2>4. wmsg = [id |-> wmsg.id, test |-> aOwner] /\ wmsg.id \in 1 .. MaxWrites
    BY <1>1, <2>1 DEF Rows, aOwner
  <2>5. aHeld' = Append(aHeld, wmsg)
    <3>1. CASE pending_path = NULL
      BY <1>1, <1>2, <2>3, <3>1 DEF aHeld
    <3>2. CASE pending_path # NULL
      <4> DEFINE p == pending[pending_path]
                 h == Held
      <4>1. p \in Seq(Rows)
        BY <1>1, <3>2 DEF TypeOK
      <4>2. p \in Seq(R) /\ wmsg \in R
        BY <2>1, <4>1, SeqMonotonic
      <4>3. h \in Seq(R)
        <5>1. h = Entries(buf, 0, count)
          BY <1>5, <2>1
        <5>2. 0 \in Nat /\ count \in Nat /\ 0 + count <= LOGGER_BUF_SIZE
          BY <1>4
        <5> HIDE DEF h, R
        <5> QED
          BY <1>4, <5>1, <5>2, EntriesSeq
      <4>4. aHeld = p \o h /\ aHeld' = p \o Append(h, wmsg)
        BY <1>1, <1>2, <2>3, <3>2 DEF aHeld
      <4> HIDE DEF p, h, R
      <4>5. p \o Append(h, wmsg) = Append(p \o h, wmsg)
        <5>1. <<wmsg>> \in Seq(R) /\ p \o h \in Seq(R)
          BY <4>2, <4>3, ConcatProperties
        <5>2. Append(h, wmsg) = h \o <<wmsg>> /\ Append(p \o h, wmsg) = (p \o h) \o <<wmsg>>
          BY <4>2, <4>3, <5>1, AppendIsConcat
        <5> QED
          BY <4>2, <4>3, <5>1, <5>2, ConcatAssociative
      <4> QED
        BY <4>4, <4>5
    <3> QED
      BY <3>1, <3>2
  <2> QED
    BY <1>2, <1>7, <2>4, <2>5, MapsToWrite
<1>8. CASE CountEntry
  <2>1. /\ wpc = "bump" /\ wpc' # "bump" /\ UNCHANGED buf
        /\ count \in Slots /\ count' = count + 1 /\ buf[count] = wmsg
    BY <1>1, <1>8 DEF CountEntry, TypeOK, RoomForEntry, StoreInv, MessageInHand
  <2>2. Entries(buf, 0, count + 1) = Append(Entries(buf, 0, count), buf[count])
    <3>1. 0 \in Nat /\ count \in Nat /\ 0 + count + 1 <= LOGGER_BUF_SIZE /\ 0 + count = count
      BY <2>1
    <3> HIDE DEF R
    <3>2. Entries(buf, 0, count + 1) = Append(Entries(buf, 0, count), buf[0 + count])
      BY <1>4, <3>1, EntryAppended
    <3> QED
      BY <3>1, <3>2
  <2>3. Held' = Held
    BY <1>5, <2>1, <2>2
  <2> QED
    BY <1>2, <2>1, <2>3, MapsToStutter DEF aHeld
<1> QED
  BY <1>6, <1>7, <1>8

\* Before the first test nothing is held.
LEMMA HeldInitially == Init => Held = << >>
<1> SUFFICES ASSUME Init PROVE Held = << >>
  OBVIOUS
<1>1. From = 0 /\ count - From = 0
  BY DEF Init, From
<1>2. Buffered = << >>
  BY <1>1, BufferedEntries, NoEntries
<1> QED
  BY <1>2 DEF Init, Held, Setting, Forgetting

\* StoreInv holds throughout a calm test.
LEMMA StoreInvariance == Spec => [](calm => StoreInv)
<1>1. (calm => StoreInv) /\ [IndInv /\ Next]_vars => (calm => StoreInv)'
  <2>1. (calm => StoreInv) /\ UNCHANGED vars => (calm' => StoreInv')
    BY DEF vars, logVars, mainVars, backVars, StoreInv, OneAtATime, DumpUndisturbed,
           PendingOfPath, MessageInHand, InCall
  <2> QED
    BY <2>1, StoreInductive
<1> QED
  BY <1>1, Invariance, StoreInvInitially, PTL DEF Spec

\* Each step of a calm test is one of the store's, or none.
LEMMA StepMaps ==
  ASSUME IndInv, calm => StoreInv, Next, calm' = TRUE, ~SetTest
  PROVE  UNCHANGED vars \/ (calm = TRUE /\ StoreInv /\ Maps)
BY StepsApart, DumpMaps, MainMaps, IdleMaps, CallbackMaps

\* logger_set_test opens.
LEMMA SetTestMaps ==
  ASSUME IndInv, SetTest, calm' \in BOOLEAN
  PROVE  /\ Store!Open(tnum)
         /\ aHeld' = << >> /\ UNCHANGED tsv
<1>1. Setting' /\ tnum' = tnum /\ tsv' = tsv
  BY DEF SetTest, Setting, logVars
<1>2. aOwner' = tnum /\ aOpen' /\ aHeld' = << >>
  BY <1>1 DEF aOwner, aOpen, aHeld, Held
<1>3. Store!Open(tnum)
  <2>1. CASE calm' = TRUE
    BY <1>1, <1>2, <2>1 DEF Store!Open, aOwner, aOpen, aHeld
  <2>2. CASE calm' = FALSE
    BY <1>1, <1>2, <2>2 DEF Store!Open, aOwner, aOpen, aHeld
  <2> QED
    BY <2>1, <2>2
<1> QED
  BY <1>1, <1>2, <1>3

\* Nothing but logger_set_test changes the owner, and only the owner's file grows,
\* whichever way the threads interleave and the files fail.
LEMMA OwnFileGrows ==
  ASSUME IndInv, Main \/ Callback \/ Failure
  PROVE  /\ aOwner' = aOwner
         /\ \A t \in DOMAIN tsv :
              IF t = aOwner THEN Store!Extends(tsv[t], tsv'[t]) ELSE tsv'[t] = tsv[t]
<1>1. TypeOK /\ CallOrder
  BY DEF IndInv
<1>2. aOwner' = aOwner
  <2>1. CASE ZeroCount
    <3>1. params = tnum /\ params' = params /\ tnum' = tnum
      BY <1>1, <2>1 DEF ZeroCount, At, CallOrder
    <3> QED
      BY <3>1 DEF aOwner
  <2>2. CASE OpenPending \/ OpenFails \/ SetParams
    BY <2>2 DEF OpenPending, OpenFails, SetParams, At, aOwner, Setting
  <2>3. CASE ClosePending \/ CopyRows \/ CopyFails \/ Discard \/ ForgetRows
    BY <2>3 DEF ClosePending, CopyRows, CopyFails, Discard, ForgetRows, At, aOwner, Setting
  <2>4. CASE Conclude \/ Reconnect \/ Flush \/ Commit \/ NextTest
    <3>1. /\ params' = params
          /\ mpc \in {"run", "reconnect", "flush", "commit", "next"}
          /\ mpc' \in {"flush", "set", "discard", "next", "commit", "close", "end"}
      BY <1>1, <2>4 DEF Conclude, Reconnect, Flush, Commit, NextTest, At, logVars, TypeOK
    <3> QED
      BY <3>1 DEF aOwner, Setting
  <2>5. CASE \E th \in Threads : Dump(th) \/ DumpFails(th)
    BY <2>5 DEF Dump, DumpTest, DumpLoop, DumpWrite, DumpZero, DumpFails, DumpUnchanged,
                mainVars, aOwner, Setting
  <2>6. CASE Arrive \/ StoreEntry \/ CountEntry \/ BufferFull \/ ReturnWrite
    BY <2>6 DEF Arrive, StoreEntry, CountEntry, BufferFull, ReturnWrite, logVars, mainVars,
                aOwner, Setting
  <2> QED
    BY <2>1, <2>2, <2>3, <2>4, <2>5, <2>6 DEF Main, Callback, Failure
<1>3. \A r \in Seq(Rows) : Store!Extends(r, r)
  BY DEF Store!Extends
<1>4. CASE CopyRows \/ CopyFails
  <2>1. /\ params \in 1 .. N /\ aOwner = params /\ pending_path \in Paths
    BY <1>1, <1>4 DEF CopyRows, CopyFails, At, CallOrder, TypeOK, aOwner, Setting
  <2>2. PICK r \in Seq(Rows) : tsv' = [tsv EXCEPT ![params] = @ \o r]
    <3>1. pending[pending_path] \in Seq(Rows)
      BY <1>1, <2>1 DEF TypeOK
    <3>2. \A k \in 0 .. Len(pending[pending_path]) :
            SubSeq(pending[pending_path], 1, k) \in Seq(Rows)
      BY <3>1
    <3> QED
      BY <1>4, <3>1, <3>2 DEF CopyRows, CopyFails
  <2>3. tsv[params] \in Seq(Rows) /\ tsv'[params] = tsv[params] \o r
    BY <1>1, <2>1, <2>2 DEF TypeOK
  <2>4. Store!Extends(tsv[params], tsv'[params])
    BY <2>3 DEF Store!Extends
  <2> QED
    BY <1>1, <1>2, <2>1, <2>2, <2>4 DEF TypeOK
<1>5. CASE ~CopyRows /\ ~CopyFails
  <2>1. tsv' = tsv
    BY <1>5 DEF Main, Callback, Failure, Dump, DumpTest, DumpLoop, DumpWrite, DumpZero,
       DumpFails, DumpUnchanged, OpenPending, OpenFails, SetParams, ZeroCount, Reconnect,
       Conclude, Flush, Commit, ClosePending, Discard, ForgetRows, NextTest, Arrive,
       StoreEntry, CountEntry, BufferFull, ReturnWrite, logVars
  <2> QED
    BY <1>1, <1>2, <1>3, <2>1 DEF TypeOK
<1> QED
  BY <1>4, <1>5

\* Each step is one of the store's, or none.
LEMMA StoreStep ==
  ASSUME IndInv, calm => StoreInv, [Next]_vars
  PROVE  [Store!Next]_(Store!vars)
<1>1. calm' \in BOOLEAN
  BY Inductive DEF IndInv, TypeOK
<1>2. CASE UNCHANGED vars
  BY <1>2 DEF vars, logVars, mainVars, backVars, Held, Setting, Forgetting, Buffered,
              Store!vars
<1>3. CASE SetTest
  <2>1. tnum \in 1 .. N
    BY DEF IndInv, TypeOK
  <2> QED
    BY <1>1, <1>3, <2>1, SetTestMaps DEF Store!Next
<1>4. CASE Next /\ ~SetTest /\ calm' = TRUE
  BY <1>2, <1>4, StepMaps DEF Maps
<1>5. CASE (Main \/ Callback \/ Failure) /\ calm' = FALSE
  <2>1. Store!Disturb
    BY <1>5, OwnFileGrows DEF Store!Disturb, aOwner
  <2> QED
    BY <2>1 DEF Store!Next
<1> QED
  BY <1>1, <1>2, <1>3, <1>4, <1>5 DEF Next, Stopped

\* The logger is the RowStore that module Analyser takes it for, for every buffer size and
\* number of tests, retries and messages, with callbacks at any moment and files that fail:
\* unless a callback runs inside a call of the logger or a file fails during the test, its
\* rows are kept in order and once each, and committed to the file of that test or given up
\* all together; and whatever happens, no row goes to the file of another test.
THEOREM StoreImplemented == Spec => StoreSpec
<1>1. Init => Store!Init
  <2> SUFFICES ASSUME Init PROVE Store!Init
    OBVIOUS
  <2>1. Held = << >>
    BY HeldInitially
  <2> QED
    BY <2>1 DEF Init, Store!Init, Setting, Forgetting
<1>2. IndInv /\ (calm => StoreInv) /\ [Next]_vars => [Store!Next]_(Store!vars)
  BY StoreStep
<1> QED
  BY <1>1, <1>2, Invariance, StoreInvariance, PTL DEF Spec, StoreSpec, Store!Spec

-----------------------------------------------------------------------------
(* What has been logged before the commit is committed.                    *)

\* The messages in a sequence of rows, and that none of them is there twice.
IdsOf(s)    == {s[k].id : k \in DOMAIN s}
Distinct(s) == \A k, l \in DOMAIN s : s[k].id = s[l].id => k = l

\* No message of the test is held twice, or held and committed, or committed twice.
OnceEach ==
  Distinct(aHeld) /\ Distinct(tsv[tnum]) /\ IdsOf(tsv[tnum]) \cap IdsOf(aHeld) = {}

\* The rows are of messages that have arrived, and not of the one that is about to be stored.
Younger ==
  /\ wpc # "idle" => wmsg.id <= arrived
  /\ \A id \in IdsOf(aHeld) \cup IdsOf(tsv[tnum]) :
       id <= arrived /\ (wpc = "store" => id # wmsg.id)

\* While a test is open, what has been logged of it is held; afterwards it is committed.
Kept ==
  /\ mpc \in {"run", "flush", "commit"} =>
       /\ pending_path # NULL
       /\ wpc \in {"bump", "full", "return"} => wmsg.id \in IdsOf(aHeld)
  /\ mpc \in {"run", "flush", "commit", "close", "copy"} => finished \subseteq IdsOf(aHeld)
  /\ mpc = "next" /\ plan = "commit" => finished \subseteq IdsOf(tsv[tnum])

LogInv == aHeld \in Seq(Rows) /\ OnceEach /\ Younger /\ Kept

\* A row more.
LEMMA RowAppended ==
  ASSUME NEW s \in Seq(Rows), NEW r \in Rows
  PROVE  /\ Append(s, r) \in Seq(Rows)
         /\ IdsOf(Append(s, r)) = IdsOf(s) \cup {r.id}
         /\ Distinct(s) /\ r.id \notin IdsOf(s) => Distinct(Append(s, r))
<1> DEFINE a == Append(s, r)
<1>1. /\ a \in Seq(Rows) /\ DOMAIN s = 1 .. Len(s) /\ DOMAIN a = 1 .. Len(s) + 1
      /\ \A k \in 1 .. Len(s) : a[k] = s[k]
      /\ a[Len(s) + 1] = r /\ Len(s) \in Nat
  OBVIOUS
<1> HIDE DEF a
<1>2. IdsOf(a) = IdsOf(s) \cup {r.id}
  <2>1. \A k \in DOMAIN a : k \in DOMAIN s \/ k = Len(s) + 1
    BY <1>1
  <2>2. DOMAIN s \subseteq DOMAIN a /\ Len(s) + 1 \in DOMAIN a
    BY <1>1
  <2>3. \A k \in DOMAIN s : a[k] = s[k]
    BY <1>1
  <2> QED
    BY <1>1, <2>1, <2>2, <2>3 DEF IdsOf
<1>3. ASSUME Distinct(s), r.id \notin IdsOf(s), NEW k \in DOMAIN a, NEW l \in DOMAIN a,
             a[k].id = a[l].id
      PROVE  k = l
  <2>1. \A j \in DOMAIN s : s[j].id # r.id
    BY <1>3 DEF IdsOf
  <2>2. \A j \in DOMAIN a : (j \in DOMAIN s /\ a[j] = s[j]) \/ (j = Len(s) + 1 /\ a[j] = r)
    BY <1>1
  <2> QED
    BY <1>3, <2>1, <2>2 DEF Distinct
<1> QED
  BY <1>1, <1>2, <1>3 DEF Distinct, a

\* The rows of one sequence behind those of another.
LEMMA RowsJoined ==
  ASSUME NEW s \in Seq(Rows), NEW u \in Seq(Rows)
  PROVE  /\ IdsOf(s \o u) = IdsOf(s) \cup IdsOf(u)
         /\ Distinct(s) /\ Distinct(u) /\ IdsOf(s) \cap IdsOf(u) = {} => Distinct(s \o u)
<1> DEFINE c == s \o u
           n == Len(s)
<1>1. /\ DOMAIN s = 1 .. n /\ DOMAIN u = 1 .. Len(u) /\ DOMAIN c = 1 .. n + Len(u)
      /\ \A k \in 1 .. n : c[k] = s[k]
      /\ \A k \in 1 .. Len(u) : c[n + k] = u[k]
      /\ n \in Nat /\ Len(u) \in Nat
  OBVIOUS
<1> HIDE DEF c, n
<1>2. \A k \in DOMAIN c :
        \/ k \in DOMAIN s /\ c[k] = s[k]
        \/ k - n \in DOMAIN u /\ c[k] = u[k - n]
  <2> TAKE k \in DOMAIN c
  <2>1. CASE k <= n
    BY <1>1, <2>1
  <2>2. CASE k > n
    <3>1. k - n \in 1 .. Len(u) /\ n + (k - n) = k
      BY <1>1, <2>2
    <3> QED
      BY <1>1, <3>1
  <2> QED
    BY <1>1, <2>1, <2>2
<1>3. IdsOf(c) = IdsOf(s) \cup IdsOf(u)
  <2>1. \A k \in DOMAIN s : k \in DOMAIN c /\ c[k] = s[k]
    BY <1>1
  <2>2. \A k \in DOMAIN u : n + k \in DOMAIN c /\ c[n + k] = u[k]
    BY <1>1
  <2> QED
    BY <1>2, <2>1, <2>2 DEF IdsOf
<1>4. ASSUME Distinct(s), Distinct(u), IdsOf(s) \cap IdsOf(u) = {},
             NEW k \in DOMAIN c, NEW l \in DOMAIN c, c[k].id = c[l].id
      PROVE  k = l
  <2>1. \A i \in DOMAIN s, j \in DOMAIN u : s[i].id # u[j].id
    BY <1>4 DEF IdsOf
  <2>2. CASE k \in DOMAIN s /\ c[k] = s[k] /\ l \in DOMAIN s /\ c[l] = s[l]
    BY <1>4, <2>2 DEF Distinct
  <2>3. CASE k - n \in DOMAIN u /\ c[k] = u[k - n] /\ l - n \in DOMAIN u /\ c[l] = u[l - n]
    <3>1. k - n = l - n
      BY <1>4, <2>3 DEF Distinct
    <3> QED
      BY <1>1, <3>1
  <2> QED
    BY <1>2, <1>4, <2>1, <2>2, <2>3
<1> QED
  BY <1>3, <1>4 DEF Distinct, c

\* No rows.
LEMMA NoRows == << >> \in Seq(Rows) /\ IdsOf(<< >>) = {} /\ Distinct(<< >>)
  BY EmptySeq DEF IdsOf, Distinct

\* The test changes only when it is over, to one whose file is empty.
LEMMA NextFileEmpty ==
  ASSUME IndInv, Next
  PROVE  tnum' \in 1 .. N /\ (tnum' = tnum \/ (NextTest /\ tsv[tnum'] = << >>))
<1>1. tnum' \in 1 .. N
  BY Inductive DEF IndInv, TypeOK
<1>2. CASE NextTest
  BY <1>1, <1>2 DEF NextTest, IndInv, TypeOK, FilesAhead
<1>3. CASE ~NextTest
  BY <1>1, <1>3 DEF Next, Main, Callback, Failure, Stopped, vars, Dump, DumpTest, DumpLoop,
     DumpWrite, DumpZero, DumpFails, DumpUnchanged, SetTest, OpenPending, OpenFails, SetParams,
     ZeroCount, Reconnect, Conclude, Flush, Commit, ClosePending, CopyRows, CopyFails, Discard,
     ForgetRows, Arrive, StoreEntry, CountEntry, BufferFull, ReturnWrite, mainVars
<1> QED
  BY <1>2, <1>3

\* Rows are taken, moved, dropped or kept without being doubled.
LEMMA RowsStep ==
  ASSUME IndInv, LogInv, Next, Maps
  PROVE  /\ aHeld' \in Seq(Rows) /\ OnceEach'
         /\ \A id \in IdsOf(aHeld') \cup IdsOf(tsv'[tnum']) :
              id \in IdsOf(aHeld) \cup IdsOf(tsv[tnum]) \/ (StoreEntry /\ id = wmsg.id)
<1>1. tsv \in [1 .. N -> Seq(Rows)] /\ aHeld \in Seq(Rows) /\ tnum \in 1 .. N
  BY DEF IndInv, TypeOK, LogInv
<1> SUFFICES /\ aHeld' \in Seq(Rows) /\ Distinct(aHeld')
             /\ Distinct(tsv'[tnum']) /\ IdsOf(tsv'[tnum']) \cap IdsOf(aHeld') = {}
             /\ \A id \in IdsOf(aHeld') \cup IdsOf(tsv'[tnum']) :
                  id \in IdsOf(aHeld) \cup IdsOf(tsv[tnum]) \/ (StoreEntry /\ id = wmsg.id)
  BY DEF OnceEach, IdsOf, Distinct
<1>2. CASE Takes
  <2>1. /\ wpc = "store" /\ StoreEntry /\ aHeld' = Append(aHeld, wmsg) /\ tsv' = tsv
        /\ tnum' = tnum
    BY <1>2 DEF Takes, StoreEntry, mainVars
  <2>2. wmsg \in Rows
    BY <2>1 DEF IndInv, CountedAreFilled
  <2>3. wmsg.id \notin IdsOf(aHeld) \cup IdsOf(tsv[tnum])
    BY <2>1 DEF LogInv, Younger
  <2>4. /\ aHeld' \in Seq(Rows) /\ IdsOf(aHeld') = IdsOf(aHeld) \cup {wmsg.id}
        /\ Distinct(aHeld')
    BY <1>1, <2>1, <2>2, <2>3, RowAppended DEF LogInv, OnceEach
  <2> QED
    BY <2>1, <2>3, <2>4 DEF LogInv, OnceEach
<1>3. CASE Moves
  <2> DEFINE c == tsv[params] \o aHeld
  <2>1. params = tnum /\ tnum' = tnum
    BY <1>3 DEF Moves, CopyRows, At, IndInv, CallOrder
  <2>2. aHeld' = << >> /\ tsv' = [tsv EXCEPT ![params] = c]
    BY <1>3 DEF Moves
  <2>3. IdsOf(c) = IdsOf(tsv[tnum]) \cup IdsOf(aHeld) /\ Distinct(c)
    BY <1>1, <2>1, RowsJoined DEF LogInv, OnceEach
  <2> HIDE DEF c
  <2>4. tsv'[tnum'] = c
    BY <1>1, <2>1, <2>2
  <2> QED
    BY <2>2, <2>3, <2>4, NoRows
<1>4. CASE (Drops \/ Keeps) /\ tnum' = tnum
  <2>1. tsv' = tsv /\ (aHeld' = << >> \/ aHeld' = aHeld)
    BY <1>4 DEF Drops, Keeps
  <2> QED
    BY <1>1, <1>4, <2>1, NoRows DEF LogInv, OnceEach
<1>5. CASE Keeps /\ NextTest /\ tsv[tnum'] = << >>
  <2>1. tsv' = tsv /\ aHeld' = aHeld
    BY <1>5 DEF Keeps
  <2> QED
    BY <1>1, <1>5, <2>1, NoRows DEF LogInv, OnceEach
<1>6. Drops => tnum' = tnum
  BY DEF Drops, Discard, Dump, DumpTest, DumpLoop, DumpWrite, DumpZero, DumpUnchanged, mainVars
<1> QED
  BY <1>2, <1>3, <1>4, <1>5, <1>6, NextFileEmpty DEF Maps

\* A message that arrives is not in any row yet.
LEMMA YoungerStep ==
  ASSUME IndInv, LogInv, Next, Maps
  PROVE  Younger'
<1> SUFFICES /\ wpc' # "idle" => wmsg'.id <= arrived'
             /\ \A id \in IdsOf(aHeld') \cup IdsOf(tsv'[tnum']) :
                  id <= arrived' /\ (wpc' = "store" => id # wmsg'.id)
  BY DEF Younger, IdsOf
<1>1. \/ Arrive
      \/ /\ UNCHANGED <<arrived, wmsg>>
         /\ wpc' # "store" \/ (UNCHANGED wpc /\ ~StoreEntry)
         /\ wpc' # "idle" => wpc # "idle"
  BY DEF Next, Main, Callback, Failure, Stopped, vars, backVars, Dump, DumpTest, DumpLoop,
         DumpWrite, DumpZero, DumpFails, DumpUnchanged, SetTest, OpenPending, OpenFails,
         CopyFails, SetParams, ZeroCount, Reconnect, Conclude, Flush,
         Commit, ClosePending, CopyRows, Discard, ForgetRows, NextTest, StoreEntry, CountEntry,
         BufferFull, ReturnWrite
<1>2. \A id \in IdsOf(aHeld') \cup IdsOf(tsv'[tnum']) :
        id \in IdsOf(aHeld) \cup IdsOf(tsv[tnum]) \/ (StoreEntry /\ id = wmsg.id)
  BY RowsStep
<1>3. arrived \in Nat /\ \A id \in IdsOf(aHeld) \cup IdsOf(tsv[tnum]) : id \in Nat
  <2>1. \A r \in Rows : r.id \in Nat
    BY DEF Rows
  <2>2. \A s \in Seq(Rows) : \A id \in IdsOf(s) : id \in Nat
    <3> TAKE s \in Seq(Rows)
    <3>1. \A k \in DOMAIN s : s[k] \in Rows
      OBVIOUS
    <3> QED
      BY <2>1, <3>1 DEF IdsOf
  <2> QED
    BY <2>2 DEF IndInv, TypeOK, LogInv
<1>4. CASE Arrive
  <2>1. arrived' = arrived + 1 /\ wmsg'.id = arrived + 1 /\ ~StoreEntry
    BY <1>4 DEF Arrive, StoreEntry
  <2>2. \A id \in IdsOf(aHeld') \cup IdsOf(tsv'[tnum']) : id <= arrived /\ id \in Nat
    BY <1>2, <1>3, <2>1 DEF LogInv, Younger
  <2> QED
    BY <1>3, <2>1, <2>2
<1>5. CASE /\ UNCHANGED <<arrived, wmsg>>
           /\ wpc' # "store" \/ (UNCHANGED wpc /\ ~StoreEntry)
           /\ wpc' # "idle" => wpc # "idle"
  <2>1. StoreEntry => wmsg.id <= arrived
    BY DEF StoreEntry, LogInv, Younger
  <2>2. \A id \in IdsOf(aHeld') \cup IdsOf(tsv'[tnum']) :
          id <= arrived /\ (wpc' = "store" => id # wmsg.id)
    BY <1>2, <1>5, <2>1 DEF LogInv, Younger
  <2> QED
    BY <1>5, <2>2 DEF LogInv, Younger
<1> QED
  BY <1>1, <1>4, <1>5

\* dump_to_pending loses no row of an open test.
LEMMA DumpKept ==
  ASSUME IndInv, LogInv, Maps, NEW th \in Threads, Dump(th)
  PROVE  Kept'
<1>1. UNCHANGED <<params, pending_path, tsv, mpc, tnum, plan, wpc, wmsg, finished>>
  BY DEF Dump, DumpTest, DumpLoop, DumpWrite, DumpZero, DumpUnchanged, mainVars, backVars
<1>2. mpc \in {"run", "flush", "commit", "close", "copy"} => aHeld' = aHeld
  <2>1. mpc \in {"run", "flush", "commit", "close", "copy"} => pending_path # NULL
    BY DEF LogInv, Kept, IndInv, CallOrder
  <2> QED
    BY <1>1, <2>1 DEF Maps, Takes, Moves, Drops, Keeps, StoreEntry, CopyRows, Discard, At
<1> QED
  BY <1>1, <1>2 DEF LogInv, Kept, IdsOf

\* main() closes the test only when it has committed its rows.
LEMMA MainKept ==
  ASSUME IndInv, StoreInv, LogInv, Maps, wpc = "idle",
         \/ OpenPending \/ SetParams \/ ZeroCount \/ Flush \/ Commit
         \/ ClosePending \/ CopyRows \/ Discard \/ ForgetRows
  PROVE  Kept'
<1> USE DEF At
<1>1. wpc' = "idle"
  BY DEF OpenPending, SetParams, ZeroCount, Flush, Commit, ClosePending, CopyRows, Discard,
         ForgetRows, backVars
<1>2. CASE OpenPending \/ SetParams \/ Discard \/ ForgetRows
  <2>1. mpc' \in {"params", "zero", "forget", "set"}
    BY <1>2 DEF OpenPending, SetParams, Discard, ForgetRows
  <2> QED
    BY <2>1 DEF Kept
<1>3. CASE ZeroCount
  <2>1. mpc' \in {"reconnect", "run"} /\ finished' = {} /\ pending_path' # NULL
    BY <1>3 DEF ZeroCount, StoreInv, PendingOfPath
  <2> QED
    BY <1>1, <2>1 DEF Kept
<1>4. CASE Flush \/ Commit \/ ClosePending
  <2>1. /\ UNCHANGED <<finished, pending_path, tnum>>
        /\ mpc \in {"flush", "commit", "close"}
        /\ mpc' \in {"commit", "discard", "close", "copy"}
           \/ (mpc' = "next" /\ plan' = "late")
    <3>1. CASE ClosePending
      BY <3>1 DEF ClosePending
    <3>2. CASE Flush
      BY <3>2 DEF Flush, logVars, IndInv, TypeOK
    <3>3. CASE Commit
      BY <3>3 DEF Commit, logVars, LogInv, Kept
    <3> QED
      BY <1>4, <3>1, <3>2, <3>3
  <2>2. aHeld' = aHeld
    <3>1. mpc' # mpc
      <4>1. plan \in {"commit", "late", "retry"}
        BY DEF IndInv, TypeOK
      <4> QED
        BY <1>4, <4>1 DEF Flush, Commit, ClosePending
    <3>2. ~Takes /\ ~Moves
      BY <2>1 DEF Takes, Moves, StoreEntry, CopyRows
    <3>3. ~Drops
      BY <2>1, <3>1 DEF Drops, Discard, Dump, DumpTest, DumpLoop, DumpWrite, DumpZero,
         DumpUnchanged, mainVars
    <3> QED
      BY <3>2, <3>3 DEF Maps, Keeps
  <2>3. mpc' = "commit" => mpc = "flush"
    BY <1>4 DEF Flush, Commit, ClosePending
  <2> QED
    BY <1>1, <2>1, <2>2, <2>3 DEF LogInv, Kept, IdsOf
<1>5. CASE CopyRows
  <2>1. Moves
    BY <1>5 DEF Maps, Takes, Drops, Keeps, StoreEntry, CopyRows, Discard, Dump, DumpTest,
       DumpLoop, DumpWrite, DumpZero, DumpUnchanged, mainVars
  <2>2. params = tnum /\ params \in 1 .. N /\ tnum' = tnum
    BY <1>5 DEF CopyRows, IndInv, CallOrder, TypeOK
  <2>3. tsv[params] \in Seq(Rows) /\ aHeld \in Seq(Rows)
    BY <2>2 DEF IndInv, TypeOK, LogInv
  <2>4. tsv'[params] = tsv[params] \o aHeld /\ UNCHANGED <<params, finished>>
    BY <1>5, <2>1, <2>2 DEF Moves, CopyRows, IndInv, TypeOK
  <2>5. finished \subseteq IdsOf(aHeld)
    BY <1>5 DEF CopyRows, LogInv, Kept
  <2>6. finished' \subseteq IdsOf(tsv'[params])
    BY <2>3, <2>4, <2>5, RowsJoined
  <2>7. mpc' = "next"
    BY <1>5 DEF CopyRows
  <2> QED
    BY <2>2, <2>4, <2>6, <2>7 DEF Kept, IdsOf
<1> QED
  BY <1>2, <1>3, <1>4, <1>5

\* The message in hand is held once it is stored, and counts as logged when logger_write returns.
LEMMA CallbackKept ==
  ASSUME IndInv, LogInv, Maps,
         Arrive \/ StoreEntry \/ CountEntry \/ BufferFull \/ ReturnWrite
  PROVE  Kept'
<1>1. UNCHANGED <<params, pending_path, tsv, mpc, tnum, plan>>
  BY DEF Arrive, StoreEntry, CountEntry, BufferFull, ReturnWrite, logVars, mainVars
<1>2. CASE StoreEntry
  <2>1. aHeld' = Append(aHeld, wmsg) /\ wmsg' = wmsg /\ finished' = finished
    BY <1>2 DEF Maps, Takes, Moves, Drops, Keeps, StoreEntry, CopyRows, Discard, Dump,
       DumpTest, DumpLoop, DumpWrite, DumpZero, DumpUnchanged, backVars, At
  <2>2. wmsg \in Rows /\ aHeld \in Seq(Rows)
    BY <1>2 DEF StoreEntry, IndInv, CountedAreFilled, LogInv
  <2>3. IdsOf(aHeld') = IdsOf(aHeld) \cup {wmsg.id}
    BY <2>1, <2>2, RowAppended
  <2> QED
    BY <1>1, <2>1, <2>3 DEF LogInv, Kept, IdsOf
<1>3. CASE Arrive \/ CountEntry \/ BufferFull \/ ReturnWrite
  <2>1. aHeld' = aHeld
    BY <1>1, <1>3 DEF Maps, Takes, Moves, Drops, Keeps, StoreEntry, CopyRows, Discard,
       Dump, DumpTest, DumpLoop, DumpWrite, DumpZero, DumpUnchanged, backVars, Arrive, CountEntry,
       BufferFull, ReturnWrite, At
  <2>2. \/ wpc' \in {"idle", "store"}
        \/ wmsg' = wmsg /\ wpc \in {"bump", "full", "return"}
    BY <1>3 DEF Arrive, CountEntry, BufferFull, ReturnWrite
  <2>3. \/ finished' = finished
        \/ /\ finished' = finished \cup {wmsg.id} /\ wpc = "return"
           /\ mpc \in {"run", "flush", "commit"}
    BY <1>3 DEF Arrive, CountEntry, BufferFull, ReturnWrite
  <2> QED
    BY <1>1, <2>1, <2>2, <2>3 DEF LogInv, Kept, IdsOf
<1> QED
  BY <1>2, <1>3

\* Where nothing changes, the rows do not.
LEMMA LogStutter ==
  ASSUME LogInv, UNCHANGED vars
  PROVE  LogInv'
<1>1. aHeld' = aHeld
  <2>1. UNCHANGED <<Setting, Forgetting, Buffered>>
    BY DEF vars, logVars, mainVars, backVars, Setting, Forgetting, Buffered
  <2>2. Held' = Held
    BY <2>1 DEF vars, logVars, mainVars, backVars, Held
  <2> QED
    BY <2>1, <2>2 DEF vars, logVars, mainVars, backVars, aHeld
<1>2. OnceEach'
  <2>1. tsv' = tsv
    BY DEF vars, logVars
  <2>2. /\ Distinct(aHeld')
        /\ Distinct(tsv'[tnum']) /\ IdsOf(tsv'[tnum']) \cap IdsOf(aHeld') = {}
    BY <1>1, <2>1 DEF vars, mainVars, LogInv, OnceEach
  <2> QED
    BY <2>2 DEF OnceEach, Distinct, IdsOf
<1>3. Younger'
  BY <1>1 DEF vars, logVars, mainVars, backVars, LogInv, Younger, IdsOf
<1>4. Kept'
  BY <1>1 DEF vars, logVars, mainVars, backVars, LogInv, Kept, IdsOf
<1> QED
  BY <1>1, <1>2, <1>3, <1>4 DEF LogInv

\* Outside of the logger's calls nothing is lost, and a retry has nothing to commit.
LEMMA IdleKept ==
  ASSUME IndInv, LogInv, Maps, Idles, ~UNCHANGED vars
  PROVE  Kept'
<1>1. UNCHANGED <<finished, pending_path, tsv, wpc, wmsg>>
  BY DEF Idles, Conclude, Reconnect, NextTest, Commit, logVars, backVars
<1>2. CASE Conclude
  <2>1. /\ mpc = "run" /\ mpc' = "flush"
        /\ UNCHANGED <<pending_path, tnum, dpc, logVars, backVars>>
    BY <1>2 DEF Conclude, At, logVars
  <2>2. aHeld' = aHeld
    <3>1. Buffered' = Buffered /\ ~Setting /\ ~Setting' /\ ~Forgetting /\ ~Forgetting'
      BY <1>2, <2>1 DEF Conclude, logVars, Buffered, Setting, Forgetting
    <3> QED
      BY <2>1, <3>1 DEF logVars, backVars, aHeld, Held
  <2> QED
    BY <1>1, <2>1, <2>2 DEF LogInv, Kept, IdsOf
<1>3. CASE NextTest
  <2>1. mpc' \in {"set", "end"}
    BY <1>3 DEF NextTest
  <2> QED
    BY <2>1 DEF Kept
<1>4. CASE Reconnect
  <2>1. mpc' \in {"set", "discard", "next"} /\ plan' = "retry"
    BY <1>4 DEF Reconnect, At, IndInv, CallOrder
  <2> QED
    BY <2>1 DEF Kept
<1>5. ~(Commit /\ UNCHANGED dpc)
  <2> SUFFICES ASSUME Commit, dpc' = dpc PROVE FALSE
    OBVIOUS
  <2>1. pending_path # NULL
    BY DEF Commit, At, LogInv, Kept
  <2>2. dpc["main"] = "off" /\ dpc'["main"] = "test"
    BY <2>1, CallDumpType DEF Commit, At, IndInv
  <2> QED
    BY <2>2
<1> QED
  BY <1>2, <1>3, <1>4, <1>5 DEF Idles

\* A test is calm from the start only when no logger_write is under way.
LEMMA SetTestApart ==
  ASSUME SetTest, Next, calm' = TRUE
  PROVE  wpc = "idle" \/ UNCHANGED vars
<1>1. mpc' = "open" /\ wpc' = wpc
  BY DEF SetTest, backVars
<1>2. UNCHANGED vars \/ ~Overlapping'
  BY Zenon DEF Next, Stopped
<1> QED
  BY <1>1, <1>2 DEF Overlapping, InCall

\* A new test has no rows, whatever has become of those of the tests before.
LEMMA SetTestLogs ==
  ASSUME IndInv, SetTest, wpc = "idle", calm' = TRUE
  PROVE  LogInv'
<1>1. aHeld' = << >> /\ tsv' = tsv
  BY SetTestMaps
<1>2. /\ mpc = "set" /\ mpc' = "open" /\ tnum' = tnum /\ wpc' = "idle" /\ tnum \in 1 .. N
  BY DEF SetTest, At, backVars, IndInv, TypeOK
<1>3. tsv'[tnum'] = << >>
  BY <1>1, <1>2 DEF IndInv, FilesAhead
<1>4. /\ Distinct(aHeld') /\ Distinct(tsv'[tnum'])
      /\ IdsOf(aHeld') = {} /\ IdsOf(tsv'[tnum']) = {}
  BY <1>1, <1>3, NoRows
<1>5. OnceEach'
  <2>1. Distinct(aHeld') /\ Distinct(tsv'[tnum']) /\ IdsOf(tsv'[tnum']) \cap IdsOf(aHeld') = {}
    BY <1>4
  <2> QED
    BY <2>1 DEF OnceEach, Distinct, IdsOf
<1>6. Younger'
  <2>1. \A id \in IdsOf(aHeld') \cup IdsOf(tsv'[tnum']) :
          id <= arrived' /\ (wpc' = "store" => id # wmsg'.id)
    BY <1>4
  <2> QED
    BY <1>2, <2>1 DEF Younger, IdsOf
<1>7. Kept'
  BY <1>2 DEF Kept
<1> QED
  BY <1>1, <1>5, <1>6, <1>7, NoRows DEF LogInv

\* The comments on logger_flush and logger_commit are true of every test during which no
\* callback runs inside a call of the logger and no file fails, whatever has happened in
\* the tests and attempts before it: what logger_write has recorded before the commit is in
\* the file of the test, and once.
THEOREM LoggedAreCommitted == Spec => []UndisturbedRowsCommitted
<1>1. Init => LogInv
  <2> SUFFICES ASSUME Init PROVE LogInv
    OBVIOUS
  <2>1. aHeld = << >>
    BY HeldInitially DEF Init, aHeld
  <2>2. tsv[tnum] = << >>
    BY DEF Init
  <2> QED
    BY <2>1, <2>2, NoRows DEF Init, LogInv, OnceEach, Younger, Kept
<1>2. (calm => LogInv) /\ [IndInv /\ (calm => StoreInv) /\ Next]_vars => (calm => LogInv)'
  <2>1. ASSUME calm => LogInv, IndInv, calm => StoreInv, Next, calm' PROVE LogInv'
    <3>1. calm' = TRUE
      <4>1. calm' \in BOOLEAN
        BY <2>1, Inductive DEF IndInv, TypeOK
      <4> QED
        BY <2>1, <4>1, Zenon
    <3>2. CASE UNCHANGED vars
      <4>1. LogInv
        BY <2>1, <3>2 DEF vars
      <4> QED
        BY <3>2, <4>1, LogStutter
    <3>3. CASE SetTest
      <4>1. wpc = "idle" \/ UNCHANGED vars
        BY <2>1, <3>1, <3>3, SetTestApart
      <4> QED
        BY <2>1, <3>1, <3>2, <3>3, <4>1, SetTestLogs
    <3>4. CASE ~SetTest /\ ~UNCHANGED vars
      <4>1. calm = TRUE /\ StoreInv /\ Maps
        BY <2>1, <3>1, <3>4, StepMaps
      <4>2. LogInv
        BY <2>1, <4>1
      <4>4. aHeld' \in Seq(Rows) /\ OnceEach'
        BY <2>1, <4>1, <4>2, RowsStep
      <4>5. Younger'
        BY <2>1, <4>1, <4>2, YoungerStep
      <4>6. Kept'
        BY <2>1, <3>1, <3>4, <4>1, <4>2, StepsApart, DumpKept, MainKept, IdleKept, CallbackKept
      <4> QED
        BY <4>4, <4>5, <4>6 DEF LogInv
    <3> QED
      BY <3>2, <3>3, <3>4
  <2>2. ASSUME calm => LogInv, UNCHANGED vars, calm' PROVE LogInv'
    <3>1. LogInv
      BY <2>2 DEF vars
    <3> QED
      BY <2>2, <3>1, LogStutter
  <2> QED
    BY <2>1, <2>2
<1>3. IndInv /\ (calm => LogInv) => UndisturbedRowsCommitted
  <2> SUFFICES ASSUME IndInv, LogInv, mpc = "next", plan = "commit", NEW id \in finished
               PROVE  \E k \in DOMAIN tsv[params] :
                        /\ tsv[params][k].id = id
                        /\ \A l \in DOMAIN tsv[params] : tsv[params][l].id = id => l = k
    BY DEF UndisturbedRowsCommitted, LoggedRowsCommitted
  <2>1. params = tnum /\ id \in IdsOf(tsv[tnum])
    BY DEF LogInv, Kept, IndInv, CallOrder
  <2>2. Distinct(tsv[tnum])
    BY DEF LogInv, OnceEach
  <2> QED
    BY <2>1, <2>2 DEF IdsOf, Distinct
<1> QED
  BY <1>1, <1>2, <1>3, Invariance, StoreInvariance, PTL DEF Spec

=============================================================================
