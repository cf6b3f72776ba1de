-------------------------------- MODULE Logger --------------------------------
(***************************************************************************)
(* The analyser's logger (analyser/src/logger.c), shared without a lock by *)
(* two threads: main(), which opens, flushes, commits and discards as      *)
(* run_test tells it to, and the MQTT library's callback thread, which     *)
(* calls logger_write.  A step is a run of accesses of one thread that the *)
(* other cannot tell from a single one.                                    *)
(*                                                                         *)
(* A file is known by the parameters its path is built from: path p is     *)
(* <output_dir>/<parameters of test p>.pending, p = 0 for the zeros that   *)
(* logger_init leaves.  A row is known by its message.  A file replaced by *)
(* fopen(.., "w") keeps nothing, and handles that are overwritten are      *)
(* never written again.  InfluxDB is not modelled.                         *)
(***************************************************************************)
EXTENDS Integers, Sequences

CONSTANTS
  N,                \* the tests of the suite are 1 .. N
  LOGGER_BUF_SIZE,
  MAX_RETRY,
  MaxWrites,        \* bound: counter messages that arrive
  IoFaults          \* fopen, fprintf and fwrite may fail

ASSUME LoggerAssumption ==
  /\ N \in Nat \ {0}
  /\ LOGGER_BUF_SIZE \in Nat \ {0}
  /\ MAX_RETRY \in Nat
  /\ MaxWrites \in Nat
  /\ IoFaults \in BOOLEAN

NULL == -1  \* of pending_fp, and the empty pending_path

Threads == {"main", "callback"}

VARIABLES
  count, buf,    \* log->count and log->buf
  params,        \* log->pub_qos .. log->msg_size, as a test; 0: all zeros
  pending_fp, pending_path,
  pending,       \* contents of the pending files, by path
  tsv,           \* contents of the TSV files, by test
  mpc,           \* control point of main()
  tnum, retry,   \* of run_test
  plan,          \* how the attempt ends: "commit", "late" or "retry"
  again,         \* a retry calls logger_set_test twice; TRUE before the second
  wpc, wmsg, wslot,  \* control point of the callback, its message, its entry
  arrived,       \* number of messages that have arrived
  dpc, di,       \* of each thread: control point in dump_to_pending, and i
  finished,      \* history: messages of this attempt logged before the commit
  calm           \* history: since the last logger_set_test no callback has run inside one
                 \* of main()'s calls of the logger, and no file has failed

logVars  == <<count, buf, params, pending_fp, pending_path, pending, tsv>>
mainVars == <<mpc, tnum, retry, plan, again>>
backVars == <<wpc, wmsg, wslot, arrived>>
vars == <<logVars, mainVars, backVars, dpc, di, finished, calm>>

Paths == 0 .. N
Rows  == [id : 1 .. MaxWrites, test : Paths]
Slots == 0 .. LOGGER_BUF_SIZE - 1
NoRow == [id |-> 0, test |-> 0]

\* logger_init
Init ==
  /\ count = 0 /\ buf = [s \in Slots |-> NoRow]
  /\ params = 0
  /\ pending_fp = NULL /\ pending_path = NULL
  /\ pending = [p \in Paths |-> << >>]
  /\ tsv = [t \in 1 .. N |-> << >>]
  /\ mpc = "set" /\ tnum = 1 /\ retry = 0 /\ plan = "commit" /\ again = FALSE
  /\ wpc = "idle" /\ wmsg = NoRow /\ wslot = 0 /\ arrived = 0
  /\ dpc = [th \in Threads |-> "off"] /\ di = [th \in Threads |-> 0]
  /\ finished = {} /\ calm = TRUE

-----------------------------------------------------------------------------
(* dump_to_pending, run by either thread.                                  *)

DumpUnchanged == UNCHANGED <<params, pending_path, tsv, mainVars, backVars, finished>>

\* The early returns.
DumpTest(th) ==
  /\ dpc[th] = "test"
  /\ IF count = 0 \/ pending_fp = NULL
     THEN count' = 0 /\ dpc' = [dpc EXCEPT ![th] = "off"]
     ELSE dpc' = [dpc EXCEPT ![th] = "loop"] /\ UNCHANGED count
  /\ di' = [di EXCEPT ![th] = 0]
  /\ UNCHANGED <<buf, pending_fp, pending>>
  /\ DumpUnchanged

DumpLoop(th) ==
  /\ dpc[th] = "loop"
  /\ dpc' = [dpc EXCEPT ![th] = IF di[th] < count THEN "write" ELSE "zero"]
  /\ UNCHANGED <<count, buf, pending_fp, pending, di>>
  /\ DumpUnchanged

\* fprintf of one row.  Writing through NULL stops the program.
DumpWrite(th) ==
  /\ dpc[th] = "write"
  /\ pending_fp # NULL
  /\ pending' = [pending EXCEPT ![pending_fp] = Append(@, buf[di[th]])]
  /\ di' = [di EXCEPT ![th] = @ + 1]
  /\ dpc' = [dpc EXCEPT ![th] = "loop"]
  /\ UNCHANGED <<count, buf, pending_fp>>
  /\ DumpUnchanged

\* fprintf fails, and the rows that are left are dropped.
DumpFails(th) ==
  /\ IoFaults
  /\ dpc[th] = "write"
  /\ pending_fp # NULL
  /\ dpc' = [dpc EXCEPT ![th] = "zero"]
  /\ UNCHANGED <<count, buf, pending_fp, pending, di>>
  /\ DumpUnchanged

DumpZero(th) ==
  /\ dpc[th] = "zero"
  /\ count' = 0
  /\ dpc' = [dpc EXCEPT ![th] = "off"]
  /\ UNCHANGED <<buf, pending_fp, pending, di>>
  /\ DumpUnchanged

Dump(th) == DumpTest(th) \/ DumpLoop(th) \/ DumpWrite(th) \/ DumpZero(th)

CallDump(th) == dpc' = [dpc EXCEPT ![th] = "test"]

-----------------------------------------------------------------------------
(* main(), between the calls of dump_to_pending.                           *)

At(pc) == mpc = pc /\ dpc["main"] = "off"

\* logger_set_test: leftover entries, the new pending file, the parameters.
SetTest ==
  /\ At("set")
  /\ mpc' = "open"
  /\ IF count > 0 THEN CallDump("main") ELSE UNCHANGED dpc
  /\ UNCHANGED <<logVars, tnum, retry, plan, again, backVars, di, finished>>

\* The path is built from the parameters that are about to be replaced.
OpenPending ==
  /\ At("open")
  /\ mpc' = "params"
  /\ pending_path' = params
  /\ pending_fp' = params
  /\ pending' = [pending EXCEPT ![params] = << >>]
  /\ UNCHANGED <<count, buf, params, tsv, tnum, retry, plan, again, backVars,
                 dpc, di, finished>>

OpenFails ==
  /\ IoFaults
  /\ At("open")
  /\ mpc' = "params"
  /\ pending_path' = params
  /\ pending_fp' = NULL
  /\ UNCHANGED <<count, buf, params, pending, tsv, tnum, retry, plan, again, backVars,
                 dpc, di, finished>>

SetParams ==
  /\ At("params")
  /\ mpc' = "zero"
  /\ params' = tnum
  /\ UNCHANGED <<count, buf, pending_fp, pending_path, pending, tsv, tnum, retry,
                 plan, again, backVars, dpc, di, finished>>

ZeroCount ==
  /\ At("zero")
  /\ mpc' = IF again THEN "reconnect" ELSE "run"
  /\ again' = FALSE
  /\ count' = 0
  /\ finished' = {}
  /\ UNCHANGED <<buf, params, pending_fp, pending_path, pending, tsv, tnum, retry,
                 plan, backVars, dpc, di>>

\* Variant of MayRetry: one retry too many.
MayRetryOnceMore == retry <= MAX_RETRY

MayRetry == retry < MAX_RETRY

\* A retry connects anew before it sets the test again; when that fails, it is over.
Reconnect ==
  /\ At("reconnect")
  /\ mpc' \in {"set", IF MayRetry THEN "discard" ELSE "next"}
  /\ UNCHANGED <<logVars, tnum, retry, plan, again, backVars, dpc, di, finished>>

\* "done" in time or retries exhausted, "done" in the grace period, neither.
Conclude ==
  /\ At("run")
  /\ mpc' = "flush"
  /\ plan' \in {p \in {"commit", "late", "retry"} : p = "retry" => MayRetry}
  /\ UNCHANGED <<logVars, tnum, retry, again, backVars, dpc, di, finished>>

\* logger_flush
Flush ==
  /\ At("flush")
  /\ mpc' = CASE plan = "commit" -> "commit"
              [] plan = "late"   -> "next"
              [] plan = "retry"  -> "discard"
  /\ CallDump("main")
  /\ UNCHANGED <<logVars, tnum, retry, plan, again, backVars, di, finished>>

\* Variant of FlushRest: step 1 is left to logger_flush.
NoFlush == UNCHANGED dpc

FlushRest == CallDump("main")

\* logger_commit, step 1
Commit ==
  /\ At("commit")
  /\ IF pending_fp = NULL /\ pending_path = NULL
     THEN mpc' = "next" /\ UNCHANGED dpc
     ELSE mpc' = "close" /\ FlushRest
  /\ UNCHANGED <<logVars, tnum, retry, plan, again, backVars, di, finished>>

\* step 2
ClosePending ==
  /\ At("close")
  /\ mpc' = "copy"
  /\ pending_fp' = NULL
  /\ UNCHANGED <<count, buf, params, pending_path, pending, tsv, tnum, retry, plan,
                 again, backVars, dpc, di, finished>>

\* steps 3 to 6
CopyRows ==
  /\ At("copy")
  /\ mpc' = "next"
  /\ tsv' = [tsv EXCEPT ![params] = @ \o pending[pending_path]]
  /\ pending' = [pending EXCEPT ![pending_path] = << >>]
  /\ pending_path' = NULL
  /\ UNCHANGED <<count, buf, params, pending_fp, tnum, retry, plan, again, backVars,
                 dpc, di, finished>>

\* When a file does not open or not all is copied, the pending file goes all the same.
CopyFails ==
  /\ IoFaults
  /\ At("copy")
  /\ mpc' = "next"
  /\ \E k \in 0 .. Len(pending[pending_path]) :
       tsv' = [tsv EXCEPT ![params] = @ \o SubSeq(pending[pending_path], 1, k)]
  /\ pending' = [pending EXCEPT ![pending_path] = << >>]
  /\ pending_path' = NULL
  /\ UNCHANGED <<count, buf, params, pending_fp, tnum, retry, plan, again, backVars,
                 dpc, di, finished>>

\* logger_discard
Discard ==
  /\ At("discard")
  /\ mpc' = "forget"
  /\ pending_fp' = NULL
  /\ pending' = IF pending_path = NULL THEN pending
                ELSE [pending EXCEPT ![pending_path] = << >>]
  /\ pending_path' = NULL
  /\ UNCHANGED <<count, buf, params, tsv, tnum, retry, plan, again, backVars,
                 dpc, di, finished>>

ForgetRows ==
  /\ At("forget")
  /\ count' = 0
  /\ mpc' = "set"
  /\ again' = TRUE
  /\ retry' = retry + 1
  /\ UNCHANGED <<buf, params, pending_fp, pending_path, pending, tsv, tnum, plan,
                 backVars, dpc, di, finished>>

NextTest ==
  /\ At("next")
  /\ IF tnum < N
     THEN mpc' = "set" /\ tnum' = tnum + 1 /\ retry' = 0
     ELSE mpc' = "end" /\ UNCHANGED <<tnum, retry>>
  /\ UNCHANGED <<logVars, plan, again, backVars, dpc, di, finished>>

Main ==
  \/ Dump("main")
  \/ OpenPending \/ SetParams \/ ZeroCount
  \/ Reconnect \/ Conclude \/ Flush
  \/ Commit \/ ClosePending \/ CopyRows
  \/ Discard \/ ForgetRows
  \/ NextTest

-----------------------------------------------------------------------------
(* The callback thread: logger_write.                                      *)

\* on_message: the topic is the one of the logger's parameters.
Arrive ==
  /\ wpc = "idle"
  /\ params # 0
  /\ arrived < MaxWrites
  /\ arrived' = arrived + 1
  /\ wmsg' = [id |-> arrived + 1, test |-> params]
  /\ wpc' = "store"
  /\ UNCHANGED <<logVars, mainVars, wslot, dpc, di, finished>>

\* The entry is filled before it is counted, so main() does not see it yet.
StoreEntry ==
  /\ wpc = "store"
  /\ wslot' = count
  /\ buf' = [buf EXCEPT ![count] = wmsg]
  /\ wpc' = "bump"
  /\ UNCHANGED <<count, params, pending_fp, pending_path, pending, tsv, mainVars,
                 wmsg, arrived, dpc, di, finished>>

\* log->count++ races with main()'s log->count = 0: it may use the count it
\* finds now or the one it had loaded for the entry.
CountEntry ==
  /\ wpc = "bump"
  /\ \/ count' = count + 1
     \/ count' = wslot + 1
  /\ wpc' = "full"
  /\ UNCHANGED <<buf, params, pending_fp, pending_path, pending, tsv, mainVars,
                 wmsg, wslot, arrived, dpc, di, finished>>

\* Variant of IsFull: one entry later.
IsFullLate == count > LOGGER_BUF_SIZE

IsFull == count >= LOGGER_BUF_SIZE

BufferFull ==
  /\ wpc = "full"
  /\ wpc' = "return"
  /\ IF IsFull THEN CallDump("callback") ELSE UNCHANGED dpc
  /\ UNCHANGED <<logVars, mainVars, wmsg, wslot, arrived, di, finished>>

ReturnWrite ==
  /\ wpc = "return"
  /\ dpc["callback"] = "off"
  /\ wpc' = "idle"
  /\ finished' = IF mpc \in {"run", "flush", "commit"} /\ wmsg.test = tnum
                 THEN finished \cup {wmsg.id} ELSE finished
  /\ UNCHANGED <<logVars, mainVars, wmsg, wslot, arrived, dpc, di>>

Callback ==
  \/ Dump("callback")
  \/ Arrive
  \/ StoreEntry
  \/ CountEntry
  \/ BufferFull
  \/ ReturnWrite

-----------------------------------------------------------------------------
Failure ==
  \/ \E th \in Threads : DumpFails(th)
  \/ OpenFails
  \/ CopyFails

\* main() is inside one of the logger's functions, and so is the callback.
InCall ==
  \/ dpc["main"] # "off"
  \/ mpc \in {"open", "params", "zero", "close", "copy", "forget"}
Overlapping == InCall /\ wpc # "idle"

\* The suite is over, or a row was written through NULL and the process died.
Stopped ==
  /\ \/ At("end") /\ wpc = "idle"
     \/ \E th \in Threads : dpc[th] = "write" /\ pending_fp = NULL
  /\ UNCHANGED vars

Next ==
  \/ SetTest /\ calm' = ~Overlapping'
  \/ (Main \/ Callback) /\ calm' = (calm /\ ~Overlapping')
  \/ Failure /\ calm' = FALSE
  \/ Stopped

Spec == Init /\ [][Next]_vars

-----------------------------------------------------------------------------
TypeOK ==
  /\ count \in 0 .. LOGGER_BUF_SIZE
  /\ buf \in [Slots -> Rows \cup {NoRow}]
  /\ params \in Paths
  /\ pending_fp \in Paths \cup {NULL}
  /\ pending_path \in Paths \cup {NULL}
  /\ pending \in [Paths -> Seq(Rows)]
  /\ tsv \in [1 .. N -> Seq(Rows)]
  /\ mpc \in {"set", "open", "params", "zero", "reconnect", "run", "flush", "commit",
              "close", "copy", "discard", "forget", "next", "end"}
  /\ tnum \in 1 .. N
  /\ retry \in 0 .. MAX_RETRY
  /\ plan \in {"commit", "late", "retry"}
  /\ again \in BOOLEAN
  /\ wpc \in {"idle", "store", "bump", "full", "return"}
  /\ wmsg \in Rows \cup {NoRow}
  /\ wslot \in Slots
  /\ arrived \in 0 .. MaxWrites
  /\ dpc \in [Threads -> {"off", "test", "loop", "write", "zero"}]
  /\ di \in [Threads -> 0 .. LOGGER_BUF_SIZE]
  /\ finished \subseteq 1 .. MaxWrites
  /\ calm \in BOOLEAN

\* Without a lock, logger_write still never fills an entry beyond the buffer, and
\* dump_to_pending never reads one.
BufferInBounds ==
  /\ wpc = "store" => count < LOGGER_BUF_SIZE
  /\ \A th \in Threads : dpc[th] = "write" => di[th] < LOGGER_BUF_SIZE

(***************************************************************************)
(* The inductive invariant behind both (module LoggerProofs).              *)
(***************************************************************************)

\* There is room for one entry whenever logger_write may begin or go on.
RoomForEntry ==
  /\ wpc \in {"idle", "store", "bump"} => count < LOGGER_BUF_SIZE
  /\ wpc = "return" /\ dpc["callback"] = "off" => count < LOGGER_BUF_SIZE
  /\ dpc["callback"] # "off" => wpc = "return"

\* The entries that are counted, or about to be, have been filled.
CountedAreFilled ==
  /\ \A s \in Slots : s < count => buf[s] \in Rows
  /\ wpc # "idle" => wmsg \in Rows
  /\ wpc = "bump" => count <= wslot /\ \A s \in Slots : s <= wslot => buf[s] \in Rows
  /\ \A th \in Threads :
       dpc[th] = "write" => di[th] < LOGGER_BUF_SIZE /\ buf[di[th]] \in Rows

\* run_test calls the logger's functions in a sensible order.
CallOrder ==
  /\ pending_fp # NULL => pending_path = pending_fp
  /\ mpc \in {"close", "copy"} => pending_path # NULL
  /\ mpc = "copy" => pending_fp = NULL
  /\ mpc \notin {"set", "open", "params", "end"} => params = tnum
  /\ again => mpc \in {"set", "open", "params", "zero"}
  /\ again \/ mpc \in {"discard", "forget", "reconnect"} => plan = "retry"
  /\ mpc = "flush" /\ plan = "retry" => retry < MAX_RETRY
  /\ mpc \in {"discard", "forget"} => retry < MAX_RETRY

\* A test's file is empty until its rows are committed.
FilesAhead ==
  \A t \in 1 .. N :
    tsv[t] # << >> => t < tnum \/ (t = tnum /\ mpc \in {"next", "end"})

IndInv == TypeOK /\ RoomForEntry /\ CountedAreFilled /\ CallOrder /\ FilesAhead

(***************************************************************************)
(* The logger is the RowStore that the analyser takes it for.              *)
(***************************************************************************)
Setting    == mpc \in {"open", "params", "zero"}
Forgetting == mpc = "forget"

\* The entries of buf that are in no file yet: those a dump has not reached.
Buffered ==
  LET from == IF dpc["main"] \in {"loop", "write"} THEN di["main"]
              ELSE IF dpc["callback"] \in {"loop", "write"} THEN di["callback"]
              ELSE IF \E th \in Threads : dpc[th] = "zero" THEN count ELSE 0
  IN  [i \in 1 .. count - from |-> buf[from + i - 1]]

Held ==
  IF Setting \/ Forgetting THEN << >>
  ELSE IF wpc = "bump" THEN Append(Buffered, wmsg)
  ELSE Buffered

Store == INSTANCE RowStore WITH
  Ids   <- 1 .. MaxWrites,
  owner <- IF Setting THEN tnum ELSE params,
  open  <- calm /\ (Setting \/ pending_path # NULL),
  held  <- IF ~calm THEN << >>
           ELSE IF pending_path = NULL \/ Setting THEN Held
           ELSE pending[pending_path] \o Held

\* Of a test in which no callback runs inside a call of the logger and no file fails,
\* rows are kept in order and once each, and committed or given up all together; and no
\* interleaving and no failure puts a row into the file of a test that is not the current
\* one, or takes one out of a file (logger.c:120-137, 188-211 and 239-358).
StoreSpec == Store!Spec

(***************************************************************************)
(* What comments of the code say.                                          *)
(***************************************************************************)

\* logger.c:255, "Flush in-memory buffer to pending file", and logger.c:261,
\* "Flush any remaining in-memory entries to the pending file": a row logged
\* before the commit is committed, and once.  The code does it only as long as
\* callbacks do not run inside the logger's calls (README, "Disagreements").
LoggedRowsCommitted ==
  (mpc = "next" /\ plan = "commit") =>
    \A id \in finished :
      \E k \in DOMAIN tsv[params] :
        /\ tsv[params][k].id = id
        /\ \A l \in DOMAIN tsv[params] : tsv[params][l].id = id => l = k

\* The two comments hold of every test during which no callback has run inside a call
\* of the logger and no file has failed, whatever happened in the tests before it.
UndisturbedRowsCommitted == calm => LoggedRowsCommitted

=============================================================================
