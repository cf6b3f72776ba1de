----------------------------- MODULE SysMonProofs -----------------------------
(***************************************************************************)
(* Proofs about the $SYS recorder, for every number of tests, retries and  *)
(* samples, with files that fail to open: a callback that is overtaken by  *)
(* sys_mon_stop and sys_mon_start spoils one sample of a file, the first.  *)
(***************************************************************************)
EXTENDS SysMon, SequenceTheorems, TLAPS

USE SysMonAssumption DEF NULL, Truncated, MayRetry

\* The bound of the number of sys_mon_start calls, test by test.
LEMMA StartsBound ==
  ASSUME NEW t \in 1 .. N, NEW r \in 0 .. MAX_RETRY
  PROVE  /\ (t - 1) * (MAX_RETRY + 1) \in Nat
         /\ t * (MAX_RETRY + 1) \in Nat
         /\ t * (MAX_RETRY + 1) = (t - 1) * (MAX_RETRY + 1) + MAX_RETRY + 1
         /\ t * (MAX_RETRY + 1) <= N * (MAX_RETRY + 1)
         /\ (t - 1) * (MAX_RETRY + 1) + r + 1 <= N * (MAX_RETRY + 1)
<1>1. \A a, k \in Nat : a * k \in Nat
  BY SMT
<1>2. \A a, b, k \in Nat : a <= b => a * k <= b * k
  BY SMT
<1>3. \A a, k \in Nat : a > 0 => a * k = (a - 1) * k + k
  BY SMT
<1>4. t \in Nat /\ t > 0 /\ t - 1 \in Nat /\ t <= N /\ MAX_RETRY + 1 \in Nat /\ r <= MAX_RETRY
  OBVIOUS
<1> QED
  BY <1>1, <1>2, <1>3, <1>4

\* A file keeps its type when sys_mon_start is called once more.
LEMMA SamplesGrow ==
  ASSUME NEW n \in Nat, NEW s \in Seq(0 .. n)
  PROVE  s \in Seq(0 .. n + 1)
<1>1. 0 .. n \subseteq 0 .. n + 1
  OBVIOUS
<1> QED
  BY <1>1, SMT

\* No file is open, and none has a row.
LEMMA Initially == Init => IndInv
<1> SUFFICES ASSUME Init PROVE IndInv
  OBVIOUS
<1> USE DEF Init
<1>1. 1 \in 1 .. N /\ 0 \in 0 .. MAX_RETRY
  OBVIOUS
<1>2. N * (MAX_RETRY + 1) \in Nat
  BY <1>1, StartsBound
<1>3. files \in [1 .. N -> Seq(0 .. starts)]
  BY EmptySeq
<1>4. TypeOK
  <2>1. 0 \in 0 .. N * (MAX_RETRY + 1) /\ opened \in [1 .. N -> 0 .. starts]
    BY <1>2
  <2>2. closed \in BOOLEAN /\ (closed => g_fp # NULL)
    OBVIOUS
  <2> QED
    BY <1>1, <1>3, <2>1, <2>2 DEF TypeOK
<1>5. StartsCounted
  BY DEF StartsCounted
<1>6. OpenIsLatest /\ ForeignFirst
  BY DEF OpenIsLatest, ForeignFirst
<1>7. OnlyFirstSampleForeign
  BY DEF OnlyFirstSampleForeign
<1> QED
  BY <1>4, <1>5, <1>6, <1>7 DEF IndInv

\* sys_mon_start up to the open: one more call, no file is open.
LEMMA StartStep ==
  ASSUME IndInv, Start
  PROVE  IndInv'
<1> USE DEF IndInv, Start
<1>1. /\ tnum \in 1 .. N /\ retry \in 0 .. MAX_RETRY /\ starts \in Nat
      /\ starts <= (tnum - 1) * (MAX_RETRY + 1) + retry
  BY DEF TypeOK, StartsCounted
<1>2. /\ (tnum - 1) * (MAX_RETRY + 1) \in Nat
      /\ (tnum - 1) * (MAX_RETRY + 1) + retry + 1 <= N * (MAX_RETRY + 1)
      /\ N * (MAX_RETRY + 1) \in Nat
  BY <1>1, StartsBound, N \in 1 .. N
<1>3. starts' \in 0 .. N * (MAX_RETRY + 1)
  BY <1>1, <1>2
<1>4. files' \in [1 .. N -> Seq(0 .. starts')]
  BY <1>1, SamplesGrow DEF TypeOK
<1>5. ~closed
  BY DEF OpenIsLatest
<1>6. opened' \in [1 .. N -> 0 .. starts'] /\ sample' \in 0 .. starts'
  BY <1>1 DEF TypeOK
<1>7. TypeOK'
  BY <1>3, <1>4, <1>5, <1>6 DEF TypeOK
<1>8. StartsCounted'
  BY <1>1, <1>2 DEF StartsCounted
<1>9. OpenIsLatest' /\ ForeignFirst'
  BY <1>5 DEF OpenIsLatest, ForeignFirst
<1>10. OnlyFirstSampleForeign'
  BY DEF OnlyFirstSampleForeign
<1> QED
  BY <1>7, <1>8, <1>9, <1>10

\* The open empties the file of the test, so a late sample will be its first.
LEMMA OpenStep ==
  ASSUME IndInv, Open
  PROVE  IndInv'
<1> USE DEF IndInv, Open
<1>1. g_fp = NULL /\ ~closed
  BY DEF OpenIsLatest
<1>2. tnum \in 1 .. N /\ starts \in Nat /\ tnum # NULL
  BY DEF TypeOK
<1>3. CASE /\ g_fp' = tnum
           /\ files' = [files EXCEPT ![tnum] = << >>]
           /\ opened' = [opened EXCEPT ![tnum] = starts]
  <2>1. << >> \in Seq(0 .. starts)
    BY EmptySeq
  <2>2. files' \in [1 .. N -> Seq(0 .. starts)] /\ opened' \in [1 .. N -> 0 .. starts]
    BY <1>2, <1>3, <2>1 DEF TypeOK
  <2>3. TypeOK'
    BY <1>1, <1>2, <1>3, <2>2 DEF TypeOK
  <2>4. files'[tnum] = << >> /\ opened'[tnum] = starts
    BY <1>2, <1>3 DEF TypeOK
  <2>5. \A t \in 1 .. N : t # tnum => files'[t] = files[t] /\ opened'[t] = opened[t]
    BY <1>3 DEF TypeOK
  <2>6. StartsCounted' /\ OpenIsLatest' /\ ForeignFirst'
    BY <1>1, <1>3, <2>4 DEF StartsCounted, OpenIsLatest, ForeignFirst
  <2>7. OnlyFirstSampleForeign'
    BY <2>4, <2>5 DEF OnlyFirstSampleForeign
  <2> QED
    BY <2>3, <2>6, <2>7
<1>4. CASE UNCHANGED <<g_fp, files, opened>>
  <2>1. TypeOK'
    BY <1>4 DEF TypeOK
  <2>2. StartsCounted' /\ OpenIsLatest' /\ ForeignFirst'
    BY <1>1, <1>4 DEF StartsCounted, OpenIsLatest, ForeignFirst
  <2>3. OnlyFirstSampleForeign'
    BY <1>4 DEF OnlyFirstSampleForeign
  <2> QED
    BY <2>1, <2>2, <2>3
<1> QED
  BY <1>3, <1>4

\* sys_mon_stop: the file that is open is closed, then forgotten.
LEMMA StopStep ==
  ASSUME IndInv, Stop \/ StopNull
  PROVE  IndInv'
<1> USE DEF IndInv
<1>1. TypeOK'
  <2>1. CASE Stop
    <3>1. closed' \in BOOLEAN /\ (closed' => g_fp' # NULL)
      BY <2>1 DEF Stop
    <3> QED
      BY <2>1, <3>1 DEF Stop, TypeOK
  <2>2. CASE StopNull
    <3>1. closed' \in BOOLEAN /\ ~closed'
      BY <2>2, Zenon DEF StopNull
    <3>2. g_fp' \in 0 .. N
      BY <2>2 DEF StopNull
    <3> QED
      BY <2>2, <3>1, <3>2 DEF StopNull, TypeOK
  <2> QED
    BY <2>1, <2>2
<1>2. StartsCounted'
  BY DEF Stop, StopNull, StartsCounted
<1>3. OpenIsLatest' /\ ForeignFirst'
  BY DEF Stop, StopNull, OpenIsLatest, ForeignFirst
<1>4. OnlyFirstSampleForeign'
  BY DEF Stop, StopNull, OnlyFirstSampleForeign
<1> QED
  BY <1>1, <1>2, <1>3, <1>4

\* The next attempt or the next test: the calls of the test in hand are all counted.
LEMMA AfterAttemptStep ==
  ASSUME IndInv, AfterAttempt
  PROVE  IndInv'
<1> USE DEF IndInv, AfterAttempt
<1>1. /\ tnum \in 1 .. N /\ retry \in 0 .. MAX_RETRY /\ starts \in Nat
      /\ starts <= (tnum - 1) * (MAX_RETRY + 1) + retry + 1
  BY DEF TypeOK, StartsCounted
<1>2. /\ (tnum - 1) * (MAX_RETRY + 1) \in Nat
      /\ tnum * (MAX_RETRY + 1) = (tnum - 1) * (MAX_RETRY + 1) + MAX_RETRY + 1
  BY <1>1, StartsBound
<1>3. TypeOK'
  <2>1. tnum' \in 1 .. N /\ retry' \in 0 .. MAX_RETRY
    BY <1>1 DEF MayRetry
  <2>2. mpc' \in {"start", "stopped", "end"}
    OBVIOUS
  <2>3. UNCHANGED <<g_fp, closed, files, starts, opened, cpc, sample, taken>>
    OBVIOUS
  <2> HIDE DEF AfterAttempt
  <2> QED
    BY <2>1, <2>2, <2>3 DEF TypeOK
<1>4. StartsCounted'
  <2>1. CASE retry' = retry + 1 /\ tnum' = tnum /\ mpc' = "start"
    BY <1>1, <1>2, <2>1 DEF StartsCounted
  <2>2. CASE tnum' = tnum + 1 /\ retry' = 0 /\ mpc' = "start"
    <3>1. starts <= tnum * (MAX_RETRY + 1) /\ tnum' - 1 = tnum
      BY <1>1, <1>2, <2>2
    <3>2. tnum * (MAX_RETRY + 1) \in Nat
      BY <1>1, StartsBound
    <3> QED
      BY <2>2, <3>1, <3>2 DEF StartsCounted
  <2>3. CASE tnum' = tnum /\ retry' = retry /\ mpc' = "end"
    BY <1>1, <1>2, <2>3 DEF StartsCounted
  <2>4. CASE retry' = retry + 1 /\ tnum' = tnum /\ mpc' = "stopped"
    BY <1>1, <1>2, <2>4 DEF StartsCounted
  <2> QED
    BY <2>1, <2>2, <2>3, <2>4
<1>5. OpenIsLatest' /\ ForeignFirst'
  BY DEF OpenIsLatest, ForeignFirst
<1>6. OnlyFirstSampleForeign'
  BY DEF OnlyFirstSampleForeign
<1> QED
  BY <1>3, <1>4, <1>5, <1>6

\* The callback up to fprintf: a sample just taken is of the attempt under way.
LEMMA SampleStep ==
  ASSUME IndInv, Check \/ Stamp
  PROVE  IndInv'
<1> USE DEF IndInv
<1>1. TypeOK'
  <2>1. CASE Check
    BY <2>1 DEF Check, mainVars, TypeOK
  <2>2. CASE Stamp
    <3>1. sample' \in 0 .. starts'
      BY <2>2 DEF Stamp, mainVars, TypeOK
    <3> QED
      BY <2>2, <3>1 DEF Stamp, mainVars, TypeOK
  <2> QED
    BY <2>1, <2>2
<1>2. StartsCounted' /\ OpenIsLatest' /\ ForeignFirst'
  BY DEF Check, Stamp, mainVars, StartsCounted, OpenIsLatest, ForeignFirst
<1>3. OnlyFirstSampleForeign'
  BY DEF Check, Stamp, mainVars, OnlyFirstSampleForeign
<1> QED
  BY <1>1, <1>2, <1>3

\* The row: of the attempt under way, or the first of its file.
LEMMA WriteStep ==
  ASSUME IndInv, Write
  PROVE  IndInv'
<1> USE DEF IndInv, Write
<1>1. /\ g_fp \in 1 .. N /\ files[g_fp] \in Seq(0 .. starts) /\ sample \in 0 .. starts
      /\ opened[g_fp] = starts
  BY DEF TypeOK, OpenIsLatest
<1> DEFINE f == Append(files[g_fp], sample)
<1>2. /\ f \in Seq(0 .. starts)
      /\ Len(f) = Len(files[g_fp]) + 1
      /\ \A k \in 1 .. Len(files[g_fp]) : f[k] = files[g_fp][k]
      /\ f[Len(files[g_fp]) + 1] = sample
  BY <1>1, AppendProperties
<1>3. /\ files' \in [1 .. N -> Seq(0 .. starts)]
      /\ files'[g_fp] = f
      /\ \A t \in 1 .. N : t # g_fp => files'[t] = files[t]
  BY <1>1, <1>2 DEF TypeOK
<1>4. TypeOK'
  BY <1>3 DEF TypeOK, mainVars
<1>5. StartsCounted' /\ OpenIsLatest' /\ ForeignFirst'
  BY DEF mainVars, StartsCounted, OpenIsLatest, ForeignFirst
<1>6. OnlyFirstSampleForeign'
  <2> SUFFICES ASSUME NEW t \in 1 .. N, NEW k \in DOMAIN files'[t], k > 1
               PROVE  files'[t][k] = opened[t]
    BY DEF OnlyFirstSampleForeign
  <2>1. CASE t # g_fp
    BY <1>3, <2>1 DEF OnlyFirstSampleForeign
  <2>2. CASE t = g_fp /\ k <= Len(files[g_fp])
    <3>1. k \in DOMAIN files[g_fp] /\ files'[t][k] = files[g_fp][k]
      BY <1>1, <1>2, <1>3, <2>2
    <3> QED
      BY <2>2, <3>1 DEF OnlyFirstSampleForeign
  <2>3. CASE t = g_fp /\ k > Len(files[g_fp])
    <3>1. k = Len(files[g_fp]) + 1 /\ files'[t][k] = sample
      BY <1>1, <1>2, <1>3, <2>3
    <3>2. files[g_fp] # << >>
      BY <3>1
    <3>3. sample = starts
      BY <1>1, <3>2 DEF ForeignFirst
    <3> QED
      BY <1>1, <2>3, <3>1, <3>3
  <2> QED
    BY <1>1, <1>2, <1>3, <2>1, <2>2, <2>3
<1> QED
  BY <1>4, <1>5, <1>6

\* The invariant is inductive: every action of the monitor keeps it.
LEMMA Inductive == IndInv /\ [Next]_vars => IndInv'
<1> SUFFICES ASSUME IndInv, [Next]_vars PROVE IndInv'
  OBVIOUS
<1>1. CASE Stopped \/ UNCHANGED vars
  <2>1. UNCHANGED vars
    BY <1>1 DEF Stopped
  <2> QED
    BY <2>1 DEF vars, mainVars, IndInv, TypeOK, StartsCounted, OpenIsLatest,
                ForeignFirst, OnlyFirstSampleForeign
<1> QED
  BY <1>1, StartStep, OpenStep, StopStep, AfterAttemptStep, SampleStep, WriteStep
  DEF Next

\* Every variable of the recorder keeps its type, the counted starts their bound.
THEOREM TypeCorrect == Spec => []TypeOK
<1>1. IndInv => TypeOK
  BY DEF IndInv
<1> QED
  BY Initially, Inductive, <1>1, PTL DEF Spec

\* However sys_mon_stop and sys_mon_start overtake on_sys_message, all the samples of
\* a file but the first are of the attempt that opened it last.
THEOREM LaterSamplesOwn == Spec => []OnlyFirstSampleForeign
<1>1. IndInv => OnlyFirstSampleForeign
  BY DEF IndInv
<1> QED
  BY Initially, Inductive, <1>1, PTL DEF Spec

=============================================================================
