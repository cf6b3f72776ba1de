----------------------------- MODULE SuiteLedger -----------------------------
(***************************************************************************)
(* What the analyser promises of a suite, seen from its record of it: the  *)
(* tests are tried one after another, each is recorded at most once, and   *)
(* the record of a test tells how many of its attempts failed before one   *)
(* succeeded, or that all of them failed.  A test has no record only if    *)
(* its last attempt could not begin, if the record could not be written,   *)
(* or if the whole suite was given up.                                     *)
(***************************************************************************)
EXTENDS Integers, Sequences

CONSTANTS
  N,
  MAX_RETRY,
  RecordsFail  \* a record may fail to be written

VARIABLES
  test,     \* the test in hand; N + 1 when the suite is over
  attempt,  \* attempts at it that have failed
  ledger    \* one record per test that was concluded

vars == <<test, attempt, ledger>>

Init == test = 1 /\ attempt = 0 /\ ledger = << >>

NextTest == test' = test + 1 /\ attempt' = 0

Record(r) == ledger' = Append(ledger, [test |-> test, retries |-> r])

Fail ==
  /\ attempt < MAX_RETRY
  /\ attempt' = attempt + 1
  /\ UNCHANGED <<test, ledger>>

Succeed == Record(attempt) /\ NextTest

GiveUp == attempt = MAX_RETRY /\ Record(-1) /\ NextTest

Skip == (attempt = MAX_RETRY \/ RecordsFail) /\ NextTest /\ UNCHANGED ledger

Abandon == test' = N + 1 /\ attempt' = 0 /\ UNCHANGED ledger

Next == test <= N /\ (Fail \/ Succeed \/ GiveUp \/ Skip \/ Abandon)

Spec == Init /\ [][Next]_vars

\* The suite comes to its end.
FairSpec == Spec /\ WF_vars(Next)

=============================================================================
