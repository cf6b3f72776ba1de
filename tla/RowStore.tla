------------------------------- MODULE RowStore -------------------------------
(***************************************************************************)
(* What the analyser relies on when it calls its logger: rows written      *)
(* while a test is open are kept, in order and once each, until they are   *)
(* committed to the file of that very test or given up all together.       *)
(* A test can be disturbed: then its rows may be lost or doubled, but they *)
(* go nowhere else.  Module Analyser uses the logger at this level.        *)
(***************************************************************************)
EXTENDS Integers, Sequences

CONSTANTS N, Ids  \* the tests are 1 .. N

VARIABLES
  owner,  \* the test that was opened last; 0 before
  open,   \* rows are being collected for it
  held,   \* the rows not committed yet
  tsv,    \* the committed rows of each test
  calm    \* nothing has disturbed the current test

vars == <<owner, open, held, tsv, calm>>

Init ==
  /\ owner = 0 /\ open = FALSE
  /\ held = << >>
  /\ tsv = [t \in 1 .. N |-> << >>]
  /\ calm = TRUE

\* A message of the current test's topic is recorded.
Write(id) ==
  /\ calm
  /\ held' = Append(held, [id |-> id, test |-> owner])
  /\ UNCHANGED <<owner, open, tsv, calm>>

\* Whatever was held is dropped.  The test may be disturbed from the start.
Open(t) ==
  /\ owner' = t
  /\ calm' \in BOOLEAN
  /\ open' = calm'
  /\ held' = << >>
  /\ UNCHANGED tsv

Commit ==
  /\ open
  /\ open' = FALSE
  /\ tsv' = [tsv EXCEPT ![owner] = @ \o held]
  /\ held' = << >>
  /\ UNCHANGED <<owner, calm>>

Discard ==
  /\ open
  /\ open' = FALSE
  /\ held' = << >>
  /\ UNCHANGED <<owner, tsv, calm>>

\* Only what is written when no test is open may be lost at any time.
Lose ==
  /\ calm /\ ~open
  /\ held' = << >>
  /\ UNCHANGED <<owner, open, tsv, calm>>

\* Rows are added to s.
Extends(s, r) == Len(s) <= Len(r) /\ \A k \in DOMAIN s : r[k] = s[k]

\* In a disturbed test anything can become of the rows, but only its own file grows.
Disturb ==
  /\ calm' = FALSE /\ open' = FALSE
  /\ held' = << >>
  /\ \A t \in DOMAIN tsv :
       IF t = owner THEN Extends(tsv[t], tsv'[t]) ELSE tsv'[t] = tsv[t]
  /\ UNCHANGED owner

Next ==
  \/ \E id \in Ids : Write(id)
  \/ \E t \in 1 .. N : Open(t)
  \/ Commit
  \/ Discard
  \/ Lose
  \/ Disturb

Spec == Init /\ [][Next]_vars

=============================================================================
