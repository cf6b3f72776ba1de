# A verification project for the MQTT test bench

The repository holds a test bench for MQTT. A *publisher* sends bursts of numbered
messages on request; an *analyser* walks a suite of 54 tests (publisher QoS, subscriber
QoS, delay, message size), asks the publisher for one burst per test, and records what
arrives; offline tools turn the recorded files into statistics. The bench is worth
something only if the records are right: a row in the wrong file, a window that covers the
wrong burst or a test that silently has no record spoils a measurement without anybody
noticing. That is what this project is about.

Paths below are relative to the root of the repository.

## 1. Inventory

| Component | Source | State | Operations |
|---|---|---|---|
| Publisher | `publisher/src/main.c` | `cfg_qos`, `cfg_delay_ms`, `cfg_msg_size`, `g_start`, `g_abort`, `g_start_nonce`; locals of a burst; one TSV file per topic | `on_message` (library thread): parameters, `start:<nonce>`, `reset`; `main`: poll, `run_burst`, send `done:<nonce>` |
| Test runner | `analyser/src/main.c` | `g_done`, `g_nonce`, `g_test_start_ts`, `g_test_end_ts`, `retry`, `test_num`, two connections | `main`'s loops, `run_test`, `connect_and_subscribe`, `on_message` (library threads) |
| Logger | `analyser/src/logger.c` | `buf`, `count`, parameters, `pending_fp`, `pending_path`, `test_success`; pending file, TSV files, `test_timestamps.tsv` | `logger_set_test`, `logger_write`, `logger_flush`, `logger_commit`, `logger_discard`, `write_ts_meta` |
| InfluxDB sink | `analyser/src/logger.c` | `influx_buffer`, sample counter, curl handle | `logger_init_influx`, sampling in `logger_write` and `logger_flush`, `influx_send_point`, `influx_flush` |
| $SYS monitor | `analyser/src/sys_mon.c` | `g_fp`, one TSV file per test | `sys_mon_start`, `sys_mon_stop`, `on_sys_message` (library thread) |
| Statistics | `analyser/src/stats.c`, `analyser/src/report.c`, `report.py` | arrays of rows, counters | read, sort, join, count |
| Environment | Mosquitto, Paho, the wall clock | queues, connections | deliver, lose, disconnect |

**How they interact.** The two programs share nothing but messages: the analyser's control
client publishes `request/qos`, `request/delay`, `request/messagesize` and `request/go`, to
which the publisher subscribes with QoS 0; the publisher answers with `done:<nonce>` on
`request/go` (control client, QoS 2) and with the burst on `counter/<qos>/<delay>/<size>`
(data client). Inside each process, `main` and the callbacks of the MQTT library run in
different threads and share variables without a lock: the publisher's flags and
configuration, the analyser's `g_*` variables, the logger, the $SYS monitor's `g_fp`.
The offline tools read the files.

**What is hard.**

* *Stale messages.* A `done`, a `reset` or a counter message of an earlier attempt arrives
  in a later one. The analyser's defences are the nonce in `done`, the comparison of the
  topic and of `pub_ts` with the start of the test, and the reconnect at a retry.
* *Timeouts that race with answers.* A `done` may come just after the timeout, in the grace
  period, after it, or during the set-up of the next attempt.
* *Lost requests.* A lost parameter makes the publisher send a burst on another topic; a
  lost `start` or `reset` leaves it idle or busy.
* *Threads.* Each flag is read and written by two threads; a burst reads the configuration
  in three reads; the logger's `count` is set to 0 by one thread and incremented by another.
* *Failures half-way.* A reconnect that fails at the last retry, a TSV file that does not
  open, a burst that returns early.
* *Two clocks.* The publisher stamps the messages, the analyser the tests, and both
  `on_message` and the report compare the two.

**What makes the components correct.** *Runner*: the suite ends; one row per test in
`test_timestamps.tsv`; windows that do not overlap; a success means a whole burst, and only
that burst; retries counted truthfully. *Publisher*: a `reset` stops the burst it is meant
for and no other; a `done` names the burst that ended. *Logger*: rows are committed once,
to the file of their test, or given up all together; the buffer is never overrun. *$SYS
monitor*: a file holds the samples of its test's last attempt. *InfluxDB
sink*: a point has the tags of its own test, the sample does not thin out, and nothing of a
failed attempt is sent. *Statistics*: the counts agree with their definitions over whole
files, and the report of a test counts the burst of that test.

The full list of hazards, each at its line, is in `PROJECT.json` under "hazards".

## 2. Plan

Order of work, most important behaviour first; all of it is done.

1. `Environment`, `Publisher`, `Analyser`, `Bench`: the protocol between the programs, with
   every fault that the code can meet and a skew between the two clocks.
2. `BenchProofs`: type correctness, one row per test, separate windows, files on topic.
3. `SuiteLedger`: what the suite promises; `Bench` as its refinement, checked by TLC with its
   liveness and proved in `LedgerProofs` for its safety part.
4. `Logger` and `RowStore`: the logger's two threads; what the analyser takes it for.
   `LoggerProofs`: type correctness and buffer bounds for every buffer size, and the
   refinement of `RowStore` with callbacks at any moment and files that fail.
5. `SysMon` with its proofs, and `Stats`.
6. `NonceProofs`: why no abort hits the burst that is waited for, and why the tolerance of
   `on_message` drops no message of the attempt under way.
7. `Influx` with its proofs: the sink's buffer and sample counter, access by access, with
   both threads.
8. `Report`: what `report.c` makes of the files that `Bench` leaves behind.
9. `TimelyProofs`: what a recorded success stands for, when the timeouts are long enough.
10. `StatsProofs`: the counts of the statistics, for files of every length.
11. What late answers alone can break (`TimelyProofs`, `LedgerProofs`), the gaps of
    `StatsProofs`, and the variant of the test loop in `BenchProofs`.

What a continuation would take up: `Logger` composed into `Bench` in the place of `rows`, so
that an overlap costs the rows that it does cost and not any of them; several suites in the
same files, composed with `Report`.

## 3. Modules

| Module | What it is | Extends |
|---|---|---|
| `Environment` | broker, connections, clocks, faults (external) | |
| `Publisher` | the publisher process | `Environment` |
| `Analyser` | the analyser process, logger and $SYS monitor abstracted | `Environment` |
| `Bench` | the two processes composed; the properties of the whole | `Publisher`, `Analyser` |
| `SuiteLedger` | abstract specification of the record of a suite | |
| `Report` | the report made of what `Bench` leaves behind | `Bench` |
| `MCBench` | small suites and sets of faults | `Report` |
| `BenchProofs`, `NonceProofs` | theorems about `Bench` | `Bench`, `BenchProofs` |
| `TimelyProofs` | theorems about `Bench` and `Report` | `NonceProofs`, `Report` |
| `LedgerProofs` | theorems about the record of a suite | `TimelyProofs` |
| `Logger` | the logger, access by access | |
| `RowStore` | abstract specification of the logger | |
| `LoggerProofs` | theorems about `Logger` | `Logger` |
| `Influx` | the sampling for InfluxDB | |
| `InfluxProofs` | theorems about `Influx` | `Influx` |
| `SysMon` | the $SYS recorder, access by access | |
| `SysMonProofs` | theorems about `SysMon` | `SysMon` |
| `Stats` | the statistics of one test | |
| `StatsProofs` | theorems about `Stats` | `Stats` |

An operator described as a "variant of" another is that operator with a plausible mistake;
it is used by no specification. `PROJECT.json` ("mutants") says which property notices it.

### Environment

Three queues: `toPub` (requests), `toCtrl` (`done`), `toData` (counter messages). Each is one
TCP stream, so nothing is reordered within a queue, and everything may be between queues.
`Faults` selects what can go wrong:

| Fault | Meaning |
|---|---|
| `drop` | the broker drops the first request or the first counter message of a queue |
| `link` | a connection breaks; its queue is gone (clean sessions) |
| `connect` | `connect_and_subscribe` fails, or the publisher never gets connected |
| `slow` | a burst or a delivery outlasts the analyser's timeouts |
| `unopened` | the publisher cannot open its file or allocate: `run_burst` returns early |
| `io` | a file of the analyser does not open or a write to it fails, or `logger_init` or `sys_mon_init` fails |

The clock (`get_timestamp_ms`) is logical: it advances by one at each of the analyser's stamps
and waits, the only moments whose order the programs compare. The publisher's clock differs
from the analyser's by the constant `Skew`. Requests and messages are records of what the
handlers branch on. The copies of `request/go` that the broker echoes to their senders, which
both callbacks ignore, are left out.

### Publisher

`ppc` is the control point of `main` and `run_burst`: `poll`, `snapshot`, `burst`, `done`. One
action per branch of `on_message` (`OnParam`, `OnStart`, `OnReset`) and per step of `main`:
`PollStart` (take `g_start`), `SnapshotField` three times (the callback may run between the
three reads), `OpenBurst` (allocate and open, or return early), `PublishMessage` (one turn of
the loop: the message goes out, the row is written whatever `rc` is), `AbortBurst`, `EndBurst`
(the 30 s are over), `SendDone` (the nonce is read here). `pubFiles` are the topics whose file
exists (of which the report asks); `launch` and `endings` are history: the nonce that launched
the burst, and the launches of the bursts that ran their full time (`full`) or could not begin
(`unopened`).

### Analyser

`apc` is the control point of `main` and `run_test`, one value for each call at which it
sleeps or waits:

    setup -> connect -> begin -> settle -> stamp -> wait -> (next test)
                                                      |
                                                      +--> grace -> retry -> reconnect -> begin

`Setup` is lines 291-300, `Connect` 334-344, `Begin` 198-210, `Stamp` 214, `Launch` 217-219
(after which no time need pass when a stale `done` has set `g_done` already), `WaitDone`
229-243, `WaitTimeout` 229-246, `GraceDone` 255-260, `GraceTimeout` 263-274 (both the further
attempt and the giving up), `RetryReset` 178-182, `Reconnect` 185-191 with its `continue`.
`OnDone` is the second half of `on_message`, `OnCounter` its first half up to the call of
`logger_write`, and `LogRow` that call. Between the two the message is in the callback's hand
(`inHand`), and `main` may do anything, switch to the next test included.

The logger is abstracted to `rows` (held, not committed) and `tsv`, with `files` the tests
whose TSV file exists; the parameters it holds are `logTest`; `meta` is
`test_timestamps.tsv`; `sysTest` is the test whose $SYS file is open. Its calls are
`SetTest`, `Flush`, `Commit` and `WriteMeta`. With `io`, each of them may fail as the code
does, and `run_test` does not ask: the row of the metadata is missing, rows that are flushed or
committed are lost, or the TSV file is not made. A call of `main` while a message is in hand
*overlaps* the callback; no lock keeps the two apart, and what becomes of the rows then is any
part of them (`Left`; `Logger` shows which). Such a test is in `spoiled`, until
`logger_set_test` sets it again without an overlap. `Suite` is the sequence of tests, in the
order of the four loops (`SuiteOf`; `FullSuite` is the code's own).

### Logger

Every access of `count`, `pending_fp` and the buffer that the other thread can observe is a
step of its own. `dump_to_pending` is run by either thread (`dpc[th]`, `di[th]`): check, loop
test, one `fprintf`, `count = 0`. `main` runs `logger_set_test`, an attempt that ends in one
of three ways (`plan`: `commit`, `late`, `retry`), and the matching calls; a retry that cannot
connect goes to the next retry or, at the last, to the next test (`Reconnect`). The callback
thread runs `logger_write`, at any moment; its `count++` is a read and a write, so it may use a
value it had loaded before `main` set `count` to 0. A write through NULL ends the behaviour
(`Stopped`). With `IoFaults`, `fprintf` drops the rest of a dump (`DumpFails`),
`logger_set_test` gets no pending file (`OpenFails`), and `logger_commit` copies a part of the
rows or none (`CopyFails`). `calm` is history: since the last `logger_set_test` no callback has
run inside a call of `main` (`Overlapping`), and no file has failed. Nothing is assumed of it;
the properties speak of calm tests and of what the others may do to them.

### SysMon

The same for `g_fp`: `main` closes, clears and opens it; the callback checks it (`Check`),
calls `get_timestamp_ms` (`Stamp`) and then reads it again for `fprintf` (`Write`). A sample
is known by the number of the `sys_mon_start` call before its `recv_ts`.

### Stats

The files are built first, by every publication, loss, repetition and reordering within the
bounds; then the program runs, a turn of a loop at a time: `ReadSent`, `SortSent`, `ReadGot`,
`SortGot`, `WalkLoss`, `RestLost`, `WalkGaps`. `qsort` is not stable, so `Sorted` offers every
order of rows that compare equal. `program` is the one of the two that computes, chosen in
`TakeWindow`: `report.c` takes the recorded window, `report.py` (`Observed`) the window of the
rows that arrived, and gives up in two places where `stats.c` goes on. Of the mean rate the
divisor is kept (`recv_window`); the variance is left out.

### Report

Operators over the state of `Bench`, no state of their own: the two files of a test by the
parameters in their names (`PubFile`, `AnaFile`), the rows in its window (`InWindow`), the
tests that are reported (`ReadMetadata`, `Reported`: `report.c` leaves a test out when the
analyser's file is missing, or when `calc_test_stats` cannot open the publisher's) and the
counts (`Tried`, `Expected`, `Arrived`, `Missing`), which are those that `Stats` shows the
program to arrive at. As the properties are invariants, they speak of a report made at any
moment.

### Influx

Both threads run `influx_send_point` and `influx_flush` (`spc[th]`): room check (`Room`), post
(`Post`, `Posted`, which sets the position to 0), `memcpy` (`CopyLine`) and `+=`, whose load
may be the one of `memcpy` or a new one (`Reload`, `Advance`). `++g_message_counter` is a load
(`LoadWrite`, `FlushEntry`) and a store (`SampleWrite`, `SampleEntry`). The topic check
(`Arrive`), the entry, its count and the point are steps of the callback, and `logger_set_test`
is three of `main`. A message is known by its number, a point by its message and its tags.
Whether a post succeeds is left open: the program empties the buffer in both cases. A thread
about to copy beyond the buffer ends the behaviour (`Undefined`); when both threads use the
curl handle at once (`HandleShared`), the program may go on or stop. `calm` is as in `Logger`;
`spoilt` are the messages logged when it was not.

## 4. What is checked

### Properties that hold

| Run | Constants | What it shows |
|---|---|---|
| `slow_retry` | one test, `MAX_RETRY` 1, all faults, a publisher's clock behind by as much as is tolerated | types; `TestsInOrder`: no test is concluded twice; `OwnBurstRecorded`: `on_message` does not take a message of the attempt under way for an old one; `NoFriendlyAbort`: no `reset` meant for an earlier attempt aborts the burst being waited for |
| `timely` | two tests of one topic with a reconnect between them, `MAX_RETRY` 1, `drop` `link` `connect` `unopened`, one clock | `NoPartialSuccess`, `WindowIsolation`: a recorded success is a whole burst launched by the very `start` of the window, or one that could not begin and published nothing, and its file holds rows of no other burst, unless a call of that very test overlapped the callback; `WindowsDisjoint`; `ReportTruthful`: the report of a success counts just that burst, in both files, and it has one if both files exist |
| `one_connection` | two tests of different topics on one connection, `MAX_RETRY` 1, `link` `connect` `unopened`, one clock, with fairness | `CommittedOnTopic`, `WindowIsolation`: a message that the callback has in hand while `main` goes on to the next test does no harm but to a test whose own calls it overlaps; `LedgerSpec`: the record refines `SuiteLedger` with its liveness; `Termination`: the suite ends |
| `logger_races` | two tests, buffer of 2, `MAX_RETRY` 1, four messages, failing I/O | types; `BufferInBounds`; `UndisturbedRowsCommitted`: in a calm test, what was logged before the commit is committed, and once; `StoreSpec`: a calm test is kept as `RowStore` says, and nothing ever changes the file of another test |
| `sysmon` | two tests, `MAX_RETRY` 1, four samples, failing I/O | types; `OnlyFirstSampleForeign` |
| `influx` | two tests, `MAX_RETRY` 1, log buffer of 2, one point, rate 2, three messages | types; `PointsInBounds`: in a calm test no line is copied beyond the buffer; `PointsTagged`: points made in a calm test have the tags of their message's test; `NoSampleSkipped`: of `influx_sample_rate` messages in a row that were logged when it was calm, at least one makes a point |
| `stats` | three rows in each file, both programs, any recorded window | types; `LossExact`, `DisorderSeen`, `DuplicatesSound`, `CleanTiming`; `NeverTotalLoss`: a limit of `report.py`, not a merit |

`NoSampleSkipped` is about a habit of the code: `logger_flush` advances the sample counter for
entries that `logger_write` has counted already (`logger.c:247`), and makes points of them.
The sample gets denser for it and never thinner, as the counter comes round at an entry only
when that entry makes the point. Lost updates of the counter, which two threads advance
without a lock, are in the model; they concern messages logged in an overlap.

**Why the bounds are enough.** A stale message needs a source and a victim: an attempt and
its retry (`MAX_RETRY` 1), or two tests. Two tests differ in topic, or share it and are
divided by a reconnect; `timely` has the second case, in which the topic does not tell the
tests apart and both share the publisher's file, and `one_connection` the first, in which
a message may be in hand while `main` goes on. A burst of one message is enough to contaminate
a file. The files of the analyser that fail (`io`) are in `slow_retry` and `logger_races`; for
the properties of `timely` and `one_connection` they are covered by the theorems. The logger's
races need a full buffer (2) and one more message (3), an unfinished one and a commit; the
fourth message of `logger_races` is one that comes after them. The sink's need a full buffer
of points (1), a second line, a position that is set to 0 in between and a message that is
sampled twice. The theorems below lift the bounds for the properties they cover.

**Fairness.** Each `main` goes on as long as it can: its sleeps and its library calls return
(the Paho calls have timeouts, and the loops count seconds). The library's threads deliver
what has arrived. Faults need not happen and nothing is assumed about how often they do; no
strong fairness is used.

**Timeouts.** `Settled` (module `Bench`) is the assumption behind the timeouts: 60 s for a
burst of 30 s, then 5 s for a late `done`, then 3 s around the reconnect. Unless the
environment is `slow`, a wait runs out only when nothing is left under way that could end it.
With `slow`, every wait may run out at any time. `NoPartialSuccess`, `WindowIsolation`,
`ReportTruthful` and `LedgerSpec` need the assumption: without it a late `done` is believed by
the next attempt, or ends a test whose rows are not committed. Four hazards bite only there
(`publisher/src/main.c:215` and `:262`, `analyser/src/main.c:198` and `:257`): these properties
do not notice them, and do not hold when they strike (Disagreements).
`TestsInOrder`, `WindowsDisjoint`, `CommittedOnTopic`, `OwnBurstRecorded`, `NoFriendlyAbort`
and `Termination` do without it, and all of them but `Termination` are proved without it. Those
that need it are proved with it, `LedgerSpec` up to its fairness; the safety part of
`LedgerSpec` also without it, for behaviours without a late `done` (section 5).

### Disagreements

Each of these runs checks one statement made by a comment of the code, and finds a behaviour
of the code that contradicts it.

| Run | Where | What happens |
|---|---|---|
| `late_success` | `analyser/src/main.c:260` | a success by a late `done` is not committed (needs `slow`) |
| `leftover` | `analyser/src/logger.c:37` | rows that arrive between commit and the next test are dropped, without any fault: `done` may overtake the data |
| `logger_lost_rows` | `analyser/src/logger.c:64` | `count = 0` races with `count++`: rows lost or written twice (needs callbacks inside the logger's calls; without, `UndisturbedRowsCommitted` holds) |
| `influx_failed_run` | `analyser/src/logger.c:253` | `logger_flush` posts the points of an attempt before it is known to have failed; `logger_discard` drops only what came after |
| `window_loss` | `report.py:484` | messages lost at the ends of a burst are outside the window, and not counted |

Seen while reading and modelling, but without a run of their own (the models contain the
behaviour):

* `publisher/src/main.c:262`: the nonce of `done` is read after the burst (`SendDone`); a
  `start` that arrived meanwhile has replaced it, and the old burst answers the new `start`
  (needs `slow`; `NoPartialSuccess` fails). A burst that a `reset` has cut short answers, too,
  and in the grace period that is a success.
* `publisher/src/main.c:215`: a `start` right after a `reset` withdraws the abort of a burst
  that has not looked at it yet (`OnStart`; needs `slow`).
* `publisher/src/main.c:168`: rejected messages are written to the TSV file, with their `rc`,
  though the comment at line 99 says otherwise (`PublishMessage`); the statistics rely on it.
* `publisher/src/main.c:138`: a burst that could not begin is answered with a `done` all the
  same (`OpenBurst`).
* `analyser/src/main.c:198`: `g_done` is cleared there, but the nonce is replaced at line 217
  only, after the settle pause. A late `done` of the attempt before is accepted in between and
  ends the new attempt at once (`OnDone`; needs `slow`).
* `analyser/src/main.c:214`: `g_test_start_ts` is set after the settle pause, and the logger is
  set to the test before it: until then a message of an earlier test passes the time check. A
  lost parameter may give a burst the topic of a test still to come on the same connection
  (without its size, the test after `0/0/4000` is sent as `0/100/4000`), and messages of it
  that are late enter the file of that test (`OnCounter`; `WindowIsolation` fails with `drop`
  for two tests of one connection, the one with the publisher's default size last).
* `analyser/src/main.c:257`: a late `done` records the retry count of an earlier test
  (`GraceDone`; needs `slow`, with which `LedgerSpec` fails). It is the one way in which the
  record departs from `SuiteLedger`.
* `analyser/src/main.c:190`: a reconnect that fails at the last retry leaves the test without
  a row (`Continue`; `Skip` in `SuiteLedger`).
* `analyser/src/main.c:122`: a callback that has compared the topic may write after
  `logger_set_test` has switched to the next test, or compare with a mixture of the parameters
  of two tests (`TopicsRead`); the row then goes to the next test's file (`OnCounter`, `Begin`,
  `LogRow` in `Analyser`; `Arrive`, `SetParams`, `StoreEntry` in `Logger`). Without the
  exception for such a test (`spoiled`), `CommittedOnTopic` fails in `one_connection`.
* `analyser/src/main.c:239`: the results of `write_ts_meta` and `logger_commit` are ignored; a
  test whose file or whose row of metadata cannot be written is passed over in silence
  (`WriteMeta`, `Commit`).
* `analyser/src/logger.c:202` and `:247`: `++g_message_counter` is not atomic, and an update
  may be lost (`LoadCounter`, `StoreCounter` in `Influx`).
* `analyser/src/logger.c:83`: both threads may find room for one line and append two, or one
  may revive a position that the other has set to 0 (`Room`, `CopyLine`, `Advance`); the copy
  may then go beyond the buffer (`Undefined`).
* `analyser/src/logger.c:46` and `analyser/src/sys_mon.c:35`: the file is closed by `main`
  between the callback's check and its `fprintf` (`Stopped` in `Logger` and `SysMon`).
* `analyser/src/logger.c:125`: the pending file carries the name of the test before
  (`OpenPending`; harmless by itself).
* `analyser/src/logger.c:116`: a point added by the callback during a post is dropped with the
  points that were posted (`Posted` in `Influx`).
* `analyser/src/logger.c:360`: `logger_close` is never called, so what is unsent at the end of
  the suite stays unsent (`NextTest` in `Influx`).
* `analyser/src/stats.c:85`: with a publisher's clock that is behind by no more than
  `on_message` tolerates, rows are recorded, but their stamps may be before `start_ts`, and
  the report counts neither their publication nor their arrival (`ReportTruthful` fails in
  `timely` with a clock that is two units behind, or one ahead).
* `analyser/src/report.c:31` and `:34`: the header of the report is written twice; the retry
  count of a test, and with it the mark of a failed one, is not read (`ReadMetadata`).
* `analyser/src/stats.c:166`: only duplicates next to each other are counted, though line 164
  says "match to any previous row" (`ReadGot`; `DuplicatesSound` is the half that holds).
* `analyser/src/stats.c:286`: the success rate divides itself, and is 0 (`SortSent`).
* `report.py:484`: the window spans all the runs appended to the files (`ObserveWindow`).

## 5. What is proved

For every value of the constants (suite, `MAX_RETRY`, burst length, faults, skew), in
`BenchProofs`:

* `TypeCorrect`: `Spec => []TypeOK`;
* `OneRowPerTest`: `Spec => []TestsInOrder`;
* `SeparateWindows`: `Spec => []WindowsDisjoint`;
* `FilesOnTopic`: `Spec => []CommittedOnTopic`: a row of another topic can only be in the file
  of a test for which a call of the logger overlapped the callback;
* `SuiteRunsDown`: every step of the analyser's `main()` takes one from `StepsLeft`, a natural
  number that no other step changes. It counts the phases left in the attempt (`PhaseLeft`) and
  eleven for each attempt left to this and the following tests (`AttemptsLeft`), so `main()`
  makes no more than `11 * Len(Suite) * (MAX_RETRY + 1)` steps, whatever is lost, late or
  broken. It is the half of `Termination` that is not about fairness; TLC checks the other,
  that `main()` is never stuck.

Assumptions: `SuiteAssumption` (a suite that is a non-empty sequence), `MaxRetryAssumption`,
`MaxMsgsAssumption`, `FaultsAssumption`, `SkewAssumption`. None of the four properties is
inductive by itself; `IndInv` strengthens them:

* `TestsInOrder` needs `MetaBeforeTest` (every recorded test is before the one in hand, so a
  new row is always the greatest) and `LoggerOnTest` (the row carries the logger's parameters,
  which are those of the test in hand while an attempt is on);
* `WindowsDisjoint` needs `WindowOpen` (the window under way begins after every recorded end,
  and the clock is past it);
* `CommittedOnTopic` needs `HeldOnTopic` (unless an overlap has spoiled the logger's test, the
  rows held and the message in hand have its topic; `main` is about to switch only at `begin`)
  and `FilesBeforeTest` (only a test that is concluded has a file, so that spoiling or setting
  a test says nothing about an older file).

The proof goes step by step: a step of the publisher or a fault leaves the analyser's
variables alone (`PublisherStep`, `EnvironmentStep` by `AnalyserAlone`); the ends of an
attempt add at most one row (`MetaExtended`, `AttemptConcluded`, `ConcludingStep`); the other
steps of the analyser are `ConnectionStep`, `AttemptStep` and `CallbackStep`.

In `NonceProofs`, from the same assumptions and on top of `IndInv`:

* `AbortsAreMeant`: `Spec => NoFriendlyAbort`;
* `ToleranceSuffices`: `Spec => []OwnBurstRecorded`.

`NonceInv` carries them. `NoncesInOrder`: the nonces at the publisher, under way and at the
analyser are ordered, and a nonce that is on its way is older than the clock. `StartIsLast`:
while the analyser waits, nothing follows its `start` on the connection, so once the publisher
has taken that `start`, no `reset` is under way and no abort is pending; this is what makes an
abort of the burst in hand impossible. `StampedAfterStart`: a message is stamped after the
`start` it answers, up to the skew; the rest is arithmetic.

In `LedgerProofs`:

* `LedgerImplemented`: `Spec /\ [][~GraceDone]_vars => Ledger!Spec`: a behaviour in which no
  `done` comes in the grace period implements the safety part of `SuiteLedger`, whatever the
  environment does. With `io`, that is a ledger in which any record may be missing
  (`RecordsFail`); without, only that of a test whose last attempt could not begin. A late
  `done` is excluded because it does break the refinement (its row takes the retry count of
  another test);
* `NoneIsLate`: `Spec => [][~GraceDone]_vars`, for an environment that is not `slow`:
  `PhaseInv` (below) leaves no `done` for the grace period;
* `TimelyLedger`: `Spec => Ledger!Spec`, and `TimelySuccessCommits`: `Spec => SuccessCommits`,
  both for an environment that is not `slow`, the second also without `io` (`logger_commit`
  fails in silence). The second is the statement of `main.c:260` that the run `late_success`
  refutes: late answers, failing files and a callback in the middle of logging are its only
  enemies.

In `TimelyProofs`, on top of `IndInv` and `NonceInv`, and for an environment that is not
`slow`:

* `NoSuccessIsPartial`: `Spec => []NoPartialSuccess`; and `SuccessesAreFull`: without
  `unopened`, every success is a burst that ran its full time (with it, a publisher that cannot
  begin a burst answers `done` all the same);
* `FilesIsolated`: `Spec => []WindowIsolation`, if nothing mixes the tests (`Unmixed`): no
  request is lost on a connection that stays up (`drop`), and the tests of a connection are
  different, or else any two consecutive tests are divided by a reconnect. The suite of the
  code has different tests; with `drop` it fails (Disagreements, `main.c:214`). A test with an
  overlap of its own is excepted, as in `FilesOnTopic`; overlaps of other tests are not;
* `FullSuiteIsolated`: the 54 tests of the code (`FullSuite`) are different (`FullSuiteTests`),
  so that `FilesIsolated` applies to them without `drop`;
* `ReportIsTrue`: `Spec => []ReportTruthful`, if the two clocks agree (`ClocksAgree`): with a
  skew the recorded window may cut off messages of its burst, or reach into the next. Overlaps
  and failing files are no exception here: whatever they leave in a file, the window counts
  what is in it. They may cost the test its report, as the code has it (`Reported`).

`PhaseInv` is what the timeouts are for. `Quiet`: outside the wait for a `done`, the publisher
is idle and no `start` or `done` is left anywhere. `OneAnswer`: during the
wait, there is at any moment one holder of the attempt's nonce: the `start`, the publisher's
flag, the burst, or the `done`. From it each theorem has an invariant of its own. `OnceInv`
says that a burst is launched only once: no message is of a `start` yet to come (`Launched`),
and numbers do not repeat within a burst (`Numbered`). `WholeInv` follows the burst of the
nonce to its `done`: whoever is answered, the burst ran its full time or published nothing
(`WholeAnswer`). `ConfInv` follows the parameters, which are on
their way, set or in the snapshot, to the topic of the burst, and `IsoInv` the messages
(`InFlight`: what is still under way and is not of the attempt cannot pass the topic check of
any test that may run on the connection) and rows (`RowsOwn`, `Concluded`) to the file.
`RepInv` says that whatever arrived was published (`Provenance`), when it was stamped
(`Stamped`), that a window holds its burst and no other (`WindowsTrue`), and that what was
published or committed is in a file that exists (`FilesOpened`); with `OnceInv`,
the rows that the report counts are then those of the burst.

In `LoggerProofs`, for every number of tests, buffer size, number of retries and messages,
with callbacks at any moment, and failing I/O or not (assumption `LoggerAssumption`):

* `TypeCorrect`: `Spec => []TypeOK`;
* `NoOverrun`: `Spec => []BufferInBounds`;
* `StoreImplemented`: `Spec => StoreSpec`: a calm test is kept as the `RowStore` that
  `Analyser` takes the logger for, whatever disturbed the tests before it; in a disturbed one
  anything may become of its rows, but the files of the other tests stay as they are;
* `LoggedAreCommitted`: `Spec => []UndisturbedRowsCommitted`: what the run `logger_lost_rows`
  refutes is true of every test in which the threads do not meet.

`IndInv` of `Logger` adds `RoomForEntry` (when `logger_write` begins, there is room for one
entry: the callback thread itself has emptied a full buffer before it returned, and `main` only
ever lowers `count`), `CountedAreFilled` (what a dump reads has been written) and `CallOrder`
(which calls `run_test` makes in which state). `FilesAhead` says that a test has no rows in its
file before its turn. The refinement rests on `StoreInv`, which holds as long as it is calm
(`StoreInvariance`), and is established anew by every `logger_set_test` that is not overlapped
(`SetTestKeepsOrder`, `SetTestMaps`): calls do not interleave (`OneAtATime`), so a dump has the
count and the file to itself (`DumpUndisturbed`), the pending file is the one of its path and
empty when the parameters are set (`PendingOfPath`), and the message in hand goes into the
entry behind the counted ones (`MessageInHand`). The lemmas about `Entries` say what the rows
held become when an entry is written out or filled; with them every step maps to a step of
`RowStore` or to a stutter (`StepMaps`, which also tells the step that adds a row from the one
that commits and those that give up). `LogInv` carries `LoggedAreCommitted` over these steps: a
message is in one row at most (`OnceEach`, `Younger`), and what was logged while a test is open
is held until `CopyRows` commits it (`Kept`).

In `SysMonProofs`, for every number of tests, retries and samples (assumption
`SysMonAssumption`):

* `TypeCorrect`: `Spec => []TypeOK`;
* `LaterSamplesOwn`: `Spec => []OnlyFirstSampleForeign`.

`IndInv` of `SysMon` adds `StartsCounted` (one call of `sys_mon_start` for each attempt),
`OpenIsLatest` (a file is open only during an attempt, and is the one opened last) and
`ForeignFirst` (a sample of an earlier attempt that is about to be written finds its file
empty, because the callback finishes it before it takes another).

In `InfluxProofs`, for every number of tests and retries, buffer sizes, sample rates and number
of messages (assumption `InfluxAssumption`):

* `TypeCorrect`: `Spec => []TypeOK`;
* `NoOverflow`: `Spec => []PointsInBounds`;
* `TagsTrue`: `Spec => []PointsTagged`.

`IndInv` of `Influx` adds `RoomForEntry` and `CountedAreStored` (as in `Logger`), `CallOrder`
(who calls `influx_send_point` when, and that a callback runs only once the parameters are of
a test), `TakingTurns` (as long as it is calm, the threads do not meet, so the entries counted
are of the test that the parameters are of) and `LinesTagged` (the lines under way are tagged
as those in the buffer). The first three, with the types, hold whatever the interleaving
(`SendData`, `CallbackData`, `MainData`); the rest is proved of calm tests (`SendCalm`,
`CallbackCalm`, `SetTestCalm`, `MainCalm`), and the points of a test that is over stay true
when it is calm no longer, as a point remembers whether it was (`TagsStay`).

In `StatsProofs`, for both programs and files of every length and content that `PublishNext`
and `Receive` can build (assumption `StatsAssumption`; `MaxSent` and `MaxGot` are any numbers):

* `TypeCorrect`: `Spec => []TypeOK`;
* `LossesCounted`: `Spec => []LossExact`;
* `DisorderCounted`: `Spec => []DisorderSeen`;
* `DuplicatesCounted`: `Spec => []DuplicatesSound`;
* `SomethingArrived`: `Spec => []NeverTotalLoss`;
* `GapsMeasured`: `Spec => []CleanTiming`.

`BaseInv` says how far each loop is and what that bounds (`Progress`), that no two messages of
the publisher's file are the same (`SentOrder`) and that what arrived had been accepted
(`GotOfSent`). `RowsInv` relates the arrays to the files at every moment: the publisher's array
holds the accepted messages of the window that have been read, once each (`PubOfSent`), the
analyser's the rows of the window (`AnaOfGot`), and before the walk both are sorted (`InOrder`;
that a sorted sequence is in order throughout is the lemma `SortedThroughout`). `WalkInv` is
the invariant of the merge-walk: what it has counted are the rows without a match (`Unmatched`)
among those it has passed, and no row ahead in the publisher's array has its match behind in
the analyser's. `LostAreUnmatched` then gives the bijection between the rows without a match
and the messages lost. `ArrivalInv` follows the reading of the analyser's file: the row
compared with is the one of the window that arrived last, the count of out-of-order rows is 0
exactly if the rows read so far are ascending, and the duplicates counted are no more than the
repeated rows read. `TimeInv` follows `calc_gaps`: the samples are the pairs of neighbours that
`calc_gaps` measures (`Gaps`), and the sum of the gaps is the number of units of time within
them (`Within`), which do not overlap as long as the times of arrival rise (`Rising`). When a
burst arrived in order (`CleanArrival`), sorting leaves the rows in the order of arrival, and
its numbering (`BurstInv`) makes the measured neighbours the pairs of consecutive messages
(`NextPairs`). Where induction is needed (a sorted sequence, the minimum of a set), a least
counterexample takes its place, by the well-foundedness of the inclusion of finite subsets
(`LeastNumber`).

**Only model-checked.** Liveness: `Termination`, and the fairness of `LedgerSpec`, which are
out of the proof system's reach. `NoSampleSkipped`. The statements of the comments that the
code contradicts (section 4, "Disagreements") are refuted by TLC.

## 6. What is not modelled, and why

* `logger_close` and `correlate_with_sys` of `stats.c`: nothing calls them.
* What follows a copy beyond `influx_buffer`, a write through a closed file or through NULL:
  the behaviour ends there. The bytes of `influx_buffer` are lines of one length, so that two
  copies that overlap in part are not told from copies to the same place; in `Influx` a point
  is tagged with the parameters of one test, and a mixture of two, which only an overlap with
  `logger_set_test` can make, is not told from either.
* Failures of `realloc` in `stats.c`, and of `malloc` or `fopen` while a report is made: a
  report can be made again.
* Payloads, formatting, paths and directories, the statistics' means and percentages: no
  property depends on them. Overflow of `counter` and of timestamps (64 bits) is out of reach
  of a run.
* Clocks that drift or are set back during a suite: the skew between the machines is a
  constant of the model.
* A restart of a program in the middle of a suite: neither program keeps a state it would
  resume from; the analyser begins a new suite that is appended to the old files (`Stats` has
  several bursts in a file for that reason).
* `read_test_metadata` of `report.py` (not called), its `correlate_with_sys`, the plots, the
  monitoring stack, the build and deployment scripts.
* In `Bench`, which rows an overlap of `main` and the callback costs: any of them may be lost
  there, or enter the next test's file. `Logger` has the accesses.
