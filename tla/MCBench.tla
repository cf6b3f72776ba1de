------------------------------- MODULE MCBench -------------------------------
(***************************************************************************)
(* Small suites and sets of faults for model-checking Bench.               *)
(***************************************************************************)
EXTENDS Report

\* One test, for what happens between the attempts at it.
OneTest == SuiteOf(<<0>>, <<1>>, <<0>>, <<1>>)

\* Two tests of different topics that run on one connection.
TwoSizes == SuiteOf(<<0>>, <<1>>, <<0>>, <<1, 1000>>)

\* Two tests of the same topic, with a reconnect between them.
TwoSubs == SuiteOf(<<0, 1>>, <<1>>, <<0>>, <<1>>)

NoFaults  == {}
AllFaults == FaultKinds
OnlySlow  == {"slow"}
Timely    == FaultKinds \ {"slow", "io"}
Lossless  == Timely \ {"drop"}

\* A publisher whose clock is behind by as much as on_message tolerates.
Behind == -PARAM_SETTLE

=============================================================================
