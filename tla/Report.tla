-------------------------------- MODULE Report --------------------------------
(***************************************************************************)
(* The report that analyser/src/report.c makes of what the two programs of *)
(* Bench leave behind: a row for each test of test_timestamps.tsv for      *)
(* which there are a TSV file of the analyser and one of the publisher,    *)
(* from the rows of the two that lie in the window of the test.  The       *)
(* counts are those that module Stats shows calc_test_stats to arrive at.  *)
(***************************************************************************)
EXTENDS Bench, FiniteSets

\* The files by the parameters in their names: the publisher's has no sub_qos, so the
\* tests that differ in nothing else share it.
PubFile(t) == {p \in pubTsv : p.msg.topic = Topic(t)}
AnaFile(t) == {r[2] : r \in {q \in tsv : q[1] = t}}

\* Variant of InWindow: the start is not looked at.
BeforeEnd(row, m) == m.ts <= row.end

InWindow(row, m) == row.start <= m.ts /\ m.ts <= row.end

\* read_test_metadata takes every row, and of a row all but the retries.
ReadMetadata ==
  [i \in DOMAIN meta |-> [test |-> meta[i].test, start |-> meta[i].start, end |-> meta[i].end]]

\* The analyser's file is missing, or read_publisher cannot open the other one: the
\* test is left out.
Reported ==
  {i \in DOMAIN ReadMetadata : /\ ReadMetadata[i].test \in files
                               /\ Topic(ReadMetadata[i].test) \in pubFiles}

Tried(row)    == {p \in PubFile(row.test) : InWindow(row, p.msg)}
Expected(row) == {p.msg : p \in {q \in Tried(row) : q.rc = 0}}
Arrived(row)  == {m \in AnaFile(row.test) : InWindow(row, m)}

\* calc_loss joins the two on counter and pub_timestamp.
Missing(row) ==
  {m \in Expected(row) : \A a \in Arrived(row) : <<a.n, a.ts>> # <<m.n, m.ts>>}

-----------------------------------------------------------------------------
\* The row that the report gives to a successful test tells of the burst that the test's
\* "start" asked for and of nothing else: it counts every message that this burst tried
\* to publish on the test's topic and every one of them that the logger committed, and
\* as lost just those that were published and not committed, whatever earlier attempts
\* and the other tests left in the same files.  If the burst published anything and the
\* logger committed a file, the test has such a row (report.c:73-81).
ReportTruthful ==
  \A i \in DOMAIN meta : meta[i].retries >= 0 =>
    LET row  == ReadMetadata[i]
        file == AnaFile(row.test)
        own  == {p \in PubFile(row.test) : p.msg.burst = row.start}
    IN  /\ own # {} /\ row.test \in files => i \in Reported
        /\ i \in Reported =>
             /\ Tried(row) = own
             /\ Arrived(row) = {m \in file : m.burst = row.start}
             /\ Missing(row) = {p.msg : p \in {q \in own : q.rc = 0}} \ file

=============================================================================
