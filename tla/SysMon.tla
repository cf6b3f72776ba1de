-------------------------------- MODULE SysMon --------------------------------
(***************************************************************************)
(* The $SYS recorder (analyser/src/sys_mon.c): main() opens a file at the  *)
(* start of every attempt at a test and closes it at the end, while        *)
(* on_sys_message, on the thread of a third MQTT client, writes what       *)
(* arrives.  They share g_fp without a lock.  The callback reads g_fp      *)
(* twice, for its check and, after a call of another module, for fprintf.  *)
(***************************************************************************)
EXTENDS Integers, Sequences

CONSTANTS
  N,           \* the tests of the suite are 1 .. N
  MAX_RETRY,
  MaxSamples,  \* bound: $SYS messages that get past the check
  IoFaults     \* fopen may fail

ASSUME SysMonAssumption ==
  /\ N \in Nat \ {0}
  /\ MAX_RETRY \in Nat
  /\ MaxSamples \in Nat
  /\ IoFaults \in BOOLEAN

NULL == 0  \* of g_fp

VARIABLES
  g_fp,     \* the test whose file is open
  closed,   \* g_fp has been closed and is not NULL yet
  files,    \* the $SYS files, by test
  mpc, tnum, retry,
  starts,   \* history: calls of sys_mon_start so far
  opened,   \* history: for each file, the call that opened it last
  cpc, sample,
  taken     \* number of samples taken

mainVars == <<mpc, tnum, retry, starts>>
vars == <<g_fp, closed, files, mainVars, opened, cpc, sample, taken>>

\* A sample is known by the call of sys_mon_start that preceded its recv_ts.
Init ==
  /\ g_fp = NULL /\ closed = FALSE
  /\ files = [t \in 1 .. N |-> << >>]
  /\ mpc = "start" /\ tnum = 1 /\ retry = 0 /\ starts = 0
  /\ opened = [t \in 1 .. N |-> 0]
  /\ cpc = "idle" /\ sample = 0 /\ taken = 0

-----------------------------------------------------------------------------
(* main(): sys_mon_start, the attempt, and sys_mon_stop.                   *)

\* A file left open would be closed here; run_test never leaves one.
Start ==
  /\ mpc = "start"
  /\ mpc' = "open"
  /\ starts' = starts + 1
  /\ g_fp' = NULL
  /\ UNCHANGED <<closed, files, tnum, retry, opened, cpc, sample, taken>>

\* Variant of Truncated: the file is opened to append.
Appended(rows) == rows

Truncated(rows) == << >>

Open ==
  /\ mpc = "open"
  /\ mpc' = "run"
  /\ \/ /\ g_fp' = tnum
        /\ files' = [files EXCEPT ![tnum] = Truncated(@)]
        /\ opened' = [opened EXCEPT ![tnum] = starts]
     \/ IoFaults /\ UNCHANGED <<g_fp, files, opened>>
  /\ UNCHANGED <<closed, tnum, retry, starts, cpc, sample, taken>>

\* sys_mon_stop, at every end of an attempt.
Stop ==
  /\ mpc = "run"
  /\ mpc' = IF g_fp = NULL THEN "stopped" ELSE "null"
  /\ closed' = (g_fp # NULL)
  /\ UNCHANGED <<g_fp, files, tnum, retry, starts, opened, cpc, sample, taken>>

StopNull ==
  /\ mpc = "null"
  /\ mpc' = "stopped"
  /\ g_fp' = NULL /\ closed' = FALSE
  /\ UNCHANGED <<files, tnum, retry, starts, opened, cpc, sample, taken>>

\* Variant of MayRetry: one retry too many.
MayRetryOnceMore == retry <= MAX_RETRY

MayRetry == retry < MAX_RETRY

\* Another attempt at the test, a retry that is used up because the client does not
\* connect, the next test, or the end of the suite.
AfterAttempt ==
  /\ mpc = "stopped"
  /\ \/ MayRetry /\ retry' = retry + 1 /\ UNCHANGED <<mpc, tnum>>
     \/ MayRetry /\ mpc' = "start" /\ retry' = retry + 1 /\ UNCHANGED tnum
     \/ tnum < N /\ mpc' = "start" /\ tnum' = tnum + 1 /\ retry' = 0
     \/ tnum = N /\ mpc' = "end" /\ UNCHANGED <<tnum, retry>>
  /\ UNCHANGED <<g_fp, closed, files, starts, opened, cpc, sample, taken>>

-----------------------------------------------------------------------------
(* on_sys_message.                                                         *)

Check ==
  /\ cpc = "idle"
  /\ taken < MaxSamples
  /\ g_fp # NULL
  /\ cpc' = "stamp"
  /\ taken' = taken + 1
  /\ UNCHANGED <<g_fp, closed, files, mainVars, opened, sample>>

Stamp ==
  /\ cpc = "stamp"
  /\ cpc' = "write"
  /\ sample' = starts
  /\ UNCHANGED <<g_fp, closed, files, mainVars, opened, taken>>

Write ==
  /\ cpc = "write"
  /\ g_fp # NULL /\ ~closed
  /\ cpc' = "idle"
  /\ files' = [files EXCEPT ![g_fp] = Append(@, sample)]
  /\ UNCHANGED <<g_fp, closed, mainVars, opened, sample, taken>>

\* The suite is over, or the program wrote through NULL or a closed file.
Stopped ==
  /\ \/ mpc = "end" /\ cpc = "idle"
     \/ cpc = "write" /\ (g_fp = NULL \/ closed)
  /\ UNCHANGED vars

Next ==
  \/ Start \/ Open \/ Stop \/ StopNull \/ AfterAttempt
  \/ Check \/ Stamp \/ Write
  \/ Stopped

Spec == Init /\ [][Next]_vars

-----------------------------------------------------------------------------
TypeOK ==
  /\ g_fp \in 0 .. N /\ closed \in BOOLEAN
  /\ closed => g_fp # NULL
  /\ mpc \in {"start", "open", "run", "null", "stopped", "end"}
  /\ tnum \in 1 .. N /\ retry \in 0 .. MAX_RETRY
  /\ starts \in 0 .. N * (MAX_RETRY + 1)
  /\ files \in [1 .. N -> Seq(0 .. starts)]
  /\ opened \in [1 .. N -> 0 .. starts]
  /\ cpc \in {"idle", "stamp", "write"}
  /\ sample \in 0 .. starts
  /\ taken \in 0 .. MaxSamples

\* However the callback is delayed, and however often a test is tried, a file holds
\* samples of its last attempt only, but for the first one: the sample that was
\* being written when the file was opened.
OnlyFirstSampleForeign ==
  \A t \in 1 .. N : \A k \in DOMAIN files[t] : k > 1 => files[t][k] = opened[t]

(***************************************************************************)
(* The inductive invariant behind it (module SysMonProofs).                *)
(***************************************************************************)

\* Each attempt calls sys_mon_start once.
StartsCounted ==
  starts <= (tnum - 1) * (MAX_RETRY + 1) + retry + (IF mpc = "start" THEN 0 ELSE 1)

\* A file is open only during an attempt, and it is the one opened last.
OpenIsLatest ==
  /\ g_fp # NULL => mpc \in {"run", "null"} /\ opened[g_fp] = starts
  /\ closed => mpc = "null"

\* A sample of an earlier attempt that is about to be written finds the file empty.
ForeignFirst ==
  cpc = "write" /\ g_fp # NULL /\ sample # starts => files[g_fp] = << >>

IndInv ==
  /\ TypeOK
  /\ StartsCounted /\ OpenIsLatest
  /\ OnlyFirstSampleForeign /\ ForeignFirst

=============================================================================
