----------------------------- MODULE StatsProofs -----------------------------
(***************************************************************************)
(* Proofs about the statistics of one test, for files of every length:     *)
(* whatever was published, lost, repeated and reordered, and whatever      *)
(* order qsort gives to equal rows, the counts agree with their            *)
(* definitions over the two files.                                         *)
(***************************************************************************)
EXTENDS Stats, FiniteSetTheorems, FunctionTheorems, SequenceTheorems, WellFoundedInduction,
        TLAPS

USE StatsAssumption

SentRows == [counter : Nat, pub_ts : Nat, rc : {0, -1}, burst : Nat]

Same(r, m) == r.counter = m.counter /\ r.pub_ts = m.pub_ts

\* The rows of the two files that have been read.
SentSeen == IF pc \in {"files", "readSent"} THEN i - 1 ELSE Len(sent)
GotSeen  == IF pc \in {"files", "readSent"} THEN 0
            ELSE IF pc = "readGot" THEN i - 1 ELSE Len(got)

\* How far each loop may be, and how far its counters.
Progress ==
  /\ Len(sent) <= MaxSent /\ Len(got) <= MaxGot
  /\ pc = "files" => i = 1
  /\ pc \in {"files", "readSent"} => pub_success_rate = 0
  /\ pc = "readSent" => i <= Len(sent) + 1
  /\ pc = "readGot" => i <= Len(got) + 1
  /\ pc = "loss" => i <= Len(pub) + 1 /\ ai <= Len(ana) + 1
  /\ attempts <= SentSeen /\ successes = Len(pub)
  /\ ooo <= GotSeen /\ dup <= GotSeen /\ Len(ana) <= GotSeen
  /\ pc \in {"files", "readSent", "readGot"} => ai = 1
  /\ pc \in {"files", "readSent", "readGot", "failed"} => loss = 0
  /\ pc = "loss" => loss <= i - 1
  /\ pc \notin {"gaps", "done"} => samples = 0
  /\ pc = "gaps" => samples < i /\ (i = 1 \/ i <= Len(ana))
  /\ \A k \in DOMAIN got : got[k].recv_ts = k - 1
  /\ \A k \in DOMAIN ana : ana[k].recv_ts < Len(got)

\* Messages are sent in the order of their numbers within a burst, and of their stamps.
SentOrder ==
  \A k, l \in DOMAIN sent : k < l =>
    /\ sent[k].burst <= sent[l].burst /\ sent[k].pub_ts <= sent[l].pub_ts
    /\ \/ sent[k].burst = sent[l].burst /\ sent[k].counter < sent[l].counter
       \/ sent[k].pub_ts < sent[l].pub_ts

\* The rows that count, in the publisher's file.
Expected(k) == sent[k].rc = 0 /\ InWindow(sent[k])

\* What arrived had been accepted.
GotOfSent ==
  \A k \in DOMAIN got : \E l \in DOMAIN sent : sent[l].rc = 0 /\ Same(got[k], sent[l])

\* The rows read from the publisher's file are the expected ones, once each.
PubOfSent ==
  /\ \A j \in DOMAIN pub : \E k \in 1 .. SentSeen : Expected(k) /\ Same(pub[j], sent[k])
  /\ pc # "failed" =>
       \A k \in 1 .. SentSeen : Expected(k) => \E j \in DOMAIN pub : Same(pub[j], sent[k])
  /\ \A j, l \in DOMAIN pub : Same(pub[j], pub[l]) => j = l

\* The rows read from the analyser's file are those of the window.
AnaOfGot ==
  /\ \A j \in DOMAIN ana : \E k \in Counted : k <= GotSeen /\ ana[j] = got[k]
  /\ pc # "failed" =>
       \A k \in Counted : k <= GotSeen => \E j \in DOMAIN ana : ana[j] = got[k]
  /\ Observed /\ pc \in {"loss", "gaps", "done"} => ana # << >>

\* Before the walk the rows are sorted, those of the publisher without equals.
InOrder ==
  /\ pc \in {"readGot", "loss"} =>
       \A j, l \in DOMAIN pub : j < l => CmpRowPair(pub[j], pub[l]) < 0
  /\ pc = "loss" =>
       \A j, l \in DOMAIN ana : j < l => CmpRowPair(ana[j], ana[l]) <= 0

BaseInv == TypeOK /\ Progress /\ SentOrder /\ GotOfSent
RowsInv == PubOfSent /\ AnaOfGot /\ InOrder

Matched(k) == \E l \in DOMAIN ana : Same(pub[k], ana[l])
Unmatched(n) == {k \in 1 .. n : ~Matched(k)}

\* The rows that the walk has passed are counted if they have no match, and no row passed in
\* one array is a match for one ahead in the other.
WalkInv ==
  /\ pc = "loss" =>
       /\ loss = Cardinality(Unmatched(i - 1))
       /\ \A k \in DOMAIN pub, l \in DOMAIN ana :
            k >= i /\ l < ai => CmpRowPair(pub[k], ana[l]) > 0
  /\ pc \in {"gaps", "done"} => loss = Cardinality(Unmatched(Len(pub)))

Ascending(n) ==
  \A k, l \in Counted : k < l /\ l <= n => got[k].counter <= got[l].counter
RepeatsSeen(n) == {l \in Repeats : l <= n}

\* The last row read is the one that the next is compared with, and the counters are right
\* about the rows read so far.
ArrivalInv ==
  /\ pc = "readGot" /\ ana # << >> =>
       \E k \in Counted : /\ k <= i - 1 /\ ana[Len(ana)] = got[k]
                          /\ \A l \in Counted : l <= i - 1 => l <= k
  /\ pc # "failed" => (ooo = 0 <=> Ascending(GotSeen))
  /\ dup <= Cardinality(RepeatsSeen(GotSeen))

\* A burst lasts no longer than BURST_SECS, and numbers its messages in the order of sending.
BurstInv ==
  \A k, l \in DOMAIN sent : sent[k].burst = sent[l].burst =>
    /\ sent[l].pub_ts <= sent[k].pub_ts + BURST_SECS
    /\ k < l => sent[k].counter < sent[l].counter

\* The gaps among the first n rows that are measured, and the units of time within them.
Gaps(n)   == {j \in 1 .. n - 1 : Measured(ana[j], ana[j + 1])}
Within(n) == UNION {ana[j].recv_ts + 1 .. ana[j + 1].recv_ts : j \in Gaps(n)}

\* The rows are in the order of arrival.
Rising == \A j, l \in DOMAIN ana : j < l => ana[j].recv_ts < ana[l].recv_ts

\* What has been measured of the first n rows.
GapsTaken(n) == samples = Cardinality(Gaps(n)) /\ (Rising => gap_sum = Cardinality(Within(n)))

\* No row is read twice, the order of the rows outlasts the walks, and the gaps passed have
\* been measured.
TimeInv ==
  /\ \A j, l \in DOMAIN ana : ana[j] = ana[l] => j = l
  /\ pc \in {"loss", "gaps", "done"} =>
       \A j, l \in DOMAIN ana : j < l => CmpRowPair(ana[j], ana[l]) <= 0
  /\ pc \in {"files", "readSent", "readGot", "loss"} => gap_sum = 0
  /\ pc = "gaps" => GapsTaken(i)
  /\ pc = "done" =>
       /\ GapsTaken(Len(ana))
       /\ recv_window = IF Len(ana) >= 2 THEN Max({ana[Len(ana)].recv_ts - ana[1].recv_ts, 0})
                                         ELSE 0

\* One burst has arrived in order and without duplicates, and has been walked through.
CleanArrival ==
  /\ Done /\ Cardinality(Bursts) = 1
  /\ \A k, l \in Counted : k < l => got[k].counter < got[l].counter

\* The place of a row in the analyser's file.
Place(j) == ana[j].recv_ts + 1

\* The rows next to each other in number.
NextPairs == {p \in Counted \X Counted : got[p[2]].counter = got[p[1]].counter + 1}

-----------------------------------------------------------------------------
(* Numbers, and the order of cmp_row_pair.                                 *)

\* A set of natural numbers has a least element.
LEMMA LeastNumber ==
  ASSUME NEW T, T \subseteq Nat, T # {}
  PROVE  \E x \in T : \A y \in T : x <= y
<1> DEFINE F == FiniteSubsetsOf(Nat)
           R == StrictSubsetOrdering(Nat)
           D == {X \in F : \E x \in T : X = 0 .. x}
<1>1. \A x \in T : 0 .. x \in D
  <2> SUFFICES ASSUME NEW x \in T PROVE 0 .. x \in F
    OBVIOUS
  <2>1. IsFiniteSet(0 .. x) /\ 0 .. x \subseteq Nat
    BY FS_Interval
  <2> QED
    BY <2>1 DEF FiniteSubsetsOf
<1>2. D \subseteq F /\ D # {}
  BY <1>1
<1>3. IsWellFoundedOn(R, F)
  BY FS_StrictSubsetOrderingWellFounded
<1>4. PICK X \in D : \A Y \in D : <<Y, X>> \notin R
  <2> HIDE DEF F, R, D
  <2> QED
    BY <1>2, <1>3, WFMin
<1>5. PICK x \in T : X = 0 .. x
  OBVIOUS
<1>6. ASSUME NEW y \in T PROVE x <= y
  <2>1. SUFFICES ASSUME y < x PROVE FALSE
    OBVIOUS
  <2>2. 0 .. y \subseteq 0 .. x /\ 0 .. y # 0 .. x /\ 0 .. y \subseteq Nat /\ 0 .. x \subseteq Nat
    <3>1. x \in 0 .. x /\ x \notin 0 .. y
      BY <2>1
    <3> QED
      BY <2>1, <3>1
  <2>3. <<0 .. y, X>> \in R
    BY <1>5, <2>2 DEF StrictSubsetOrdering
  <2> QED
    BY <1>1, <1>4, <2>3
<1> QED
  BY <1>6

\* What ObserveWindow takes from the stamps, which are bounded.
LEMMA MinMax ==
  ASSUME NEW n \in Nat, NEW T, T \subseteq 0 .. n, T # {}
  PROVE  Min(T) \in T /\ Max(T) \in T /\ \A x \in T : Min(T) <= x /\ x <= Max(T)
<1>0. T \subseteq Nat /\ \A x \in T : n - x \in Nat
  OBVIOUS
<1>1. \E x \in T : \A y \in T : x <= y
  BY <1>0, LeastNumber
<1>2. \E x \in T : \A y \in T : x >= y
  <2> DEFINE U == {n - x : x \in T}
  <2>1. U \subseteq Nat
    BY <1>0
  <2>2. PICK u \in U : \A y \in U : u <= y
    <3>1. U # {}
      OBVIOUS
    <3> QED
      BY <2>1, <3>1, LeastNumber
  <2>3. PICK x \in T : u = n - x
    OBVIOUS
  <2>4. ASSUME NEW y \in T PROVE x >= y
    <3>1. n - y \in U
      OBVIOUS
    <3> QED
      BY <2>2, <2>3, <3>1
  <2> QED
    BY <2>4
<1> QED
  BY <1>1, <1>2 DEF Min, Max

\* A part of a whole, in percent.
LEMMA Percent ==
  ASSUME NEW a \in Nat, NEW b \in Nat \ {0}, a <= b
  PROVE  (a * 100) \div b \in 0 .. 100
<1> DEFINE q == (a * 100) \div b
<1>1. q \in Int /\ b * q <= a * 100 /\ a * 100 < b * q + b
  BY SMT
<1>2. b * q <= b * 100
  BY <1>1
<1>3. q <= 100
  BY <1>1, <1>2, SMTT(30)
<1>4. q >= 0
  BY <1>1, SMTT(30)
<1> QED
  BY <1>1, <1>3, <1>4

\* Rows compare as equal when they are of the same message, and the comparison is an order.
LEMMA RowOrder ==
  ASSUME NEW a \in RowPairs, NEW b \in RowPairs, NEW c \in RowPairs
  PROVE  /\ CmpRowPair(a, b) \in {-1, 0, 1}
         /\ CmpRowPair(a, b) = 0 <=> Same(a, b)
         /\ CmpRowPair(a, b) > 0 <=> CmpRowPair(b, a) < 0
         /\ CmpRowPair(a, b) <= 0 /\ CmpRowPair(b, c) <= 0 => CmpRowPair(a, c) <= 0
         /\ CmpRowPair(a, b) < 0 /\ CmpRowPair(b, c) <= 0 => CmpRowPair(a, c) < 0
         /\ CmpRowPair(a, b) <= 0 /\ CmpRowPair(b, c) < 0 => CmpRowPair(a, c) < 0
  BY DEF RowPairs, CmpRowPair, Compare, Same

\* What is sorted from neighbour to neighbour is sorted throughout.
LEMMA SortedThroughout ==
  ASSUME NEW s \in Seq(RowPairs), IsSorted(s)
  PROVE  \A j, l \in DOMAIN s : j < l => CmpRowPair(s[j], s[l]) <= 0
<1> DEFINE Wrong(j, d) == d > 0 /\ j + d \in DOMAIN s /\ CmpRowPair(s[j], s[j + d]) > 0
           D == {d \in Nat : \E j \in DOMAIN s : Wrong(j, d)}
<1>0. DOMAIN s = 1 .. Len(s) /\ Len(s) \in Nat /\ \A k \in DOMAIN s : s[k] \in RowPairs
  BY LenProperties, ElementOfSeq
<1>1. SUFFICES D = {}
  <2>1. SUFFICES ASSUME D = {}, NEW j \in DOMAIN s, NEW l \in DOMAIN s, j < l
                 PROVE  CmpRowPair(s[j], s[l]) <= 0
    OBVIOUS
  <2>2. l - j \in Nat /\ l - j > 0 /\ j + (l - j) = l
    BY <1>0, <2>1
  <2>3. ~(CmpRowPair(s[j], s[j + (l - j)]) > 0)
    BY <2>1, <2>2
  <2>4. CmpRowPair(s[j], s[l]) \in {-1, 0, 1}
    BY <1>0, RowOrder
  <2> QED
    BY <2>2, <2>3, <2>4
<1>2. SUFFICES ASSUME D # {} PROVE FALSE
  OBVIOUS
<1>3. PICK d \in D : \A e \in D : d <= e
  BY <1>2, LeastNumber
<1>4. PICK j \in DOMAIN s : Wrong(j, d)
  OBVIOUS
<1>5. d - 1 \in Nat /\ j \in 1 .. Len(s) - 1 /\ j + (d - 1) \in DOMAIN s
  BY <1>0, <1>4
<1>6. CASE d = 1
  BY <1>0, <1>4, <1>5, <1>6, RowOrder DEF IsSorted
<1>7. CASE d # 1
  <2>1. d - 1 > 0 /\ d - 1 \notin D
    BY <1>3, <1>5, <1>7
  <2>2. ~(CmpRowPair(s[j], s[j + (d - 1)]) > 0)
    BY <1>4, <1>5, <2>1
  <2>3. j + (d - 1) \in 1 .. Len(s) - 1 /\ j + (d - 1) + 1 = j + d /\ j + d \in DOMAIN s
    BY <1>0, <1>4, <1>5
  <2>4. CmpRowPair(s[j + (d - 1)], s[j + d]) <= 0
    BY <2>3 DEF IsSorted
  <2> HIDE DEF D
  <2>5. CmpRowPair(s[j], s[j + (d - 1)]) <= 0
    BY <1>0, <1>5, <2>2, RowOrder
  <2> QED
    BY <1>0, <1>4, <1>5, <2>3, <2>4, <2>5, RowOrder
<1> QED
  BY <1>6, <1>7

\* What qsort returns has the same rows, each as many times.
LEMMA SortedRows ==
  ASSUME NEW s \in Seq(RowPairs), NEW t \in Sorted(s)
  PROVE  /\ t \in Seq(RowPairs) /\ Len(t) = Len(s)
         /\ \A j, l \in DOMAIN t : j < l => CmpRowPair(t[j], t[l]) <= 0
         /\ \E p \in [DOMAIN s -> DOMAIN s] :
              /\ \A j, l \in DOMAIN s : p[j] = p[l] => j = l
              /\ \A l \in DOMAIN s : \E j \in DOMAIN s : p[j] = l
              /\ \A j \in DOMAIN s : t[j] = s[p[j]]
<1> DEFINE n == Len(s)
<1>0. n \in Nat /\ DOMAIN s = 1 .. n /\ \A k \in 1 .. n : s[k] \in RowPairs
  BY LenProperties, ElementOfSeq
<1>1. PICK p \in [1 .. n -> 1 .. n] :
        /\ \A k, l \in 1 .. n : k # l => p[k] # p[l]
        /\ t = [k \in 1 .. n |-> s[p[k]]]
        /\ IsSorted(t)
  BY DEF Sorted
<1>2. t \in [1 .. n -> RowPairs] /\ \A j \in 1 .. n : t[j] = s[p[j]]
  BY <1>0, <1>1
<1>3. t \in Seq(RowPairs) /\ Len(t) = n /\ DOMAIN t = 1 .. n
  BY <1>0, <1>2
<1>4. \A l \in 1 .. n : \E j \in 1 .. n : p[j] = l
  <2>1. p \in Injection(1 .. n, 1 .. n)
    BY <1>1, Fun_IsInj
  <2>2. IsFiniteSet(1 .. n)
    BY <1>0, FS_Interval
  <2>3. p \in Surjection(1 .. n, 1 .. n)
    BY <2>1, <2>2, FS_Injection
  <2> QED
    BY <2>3 DEF Surjection
<1>5. \A j, l \in DOMAIN t : j < l => CmpRowPair(t[j], t[l]) <= 0
  BY <1>1, <1>3, SortedThroughout
<1> QED
  BY <1>0, <1>1, <1>2, <1>3, <1>4, <1>5

\* The sorted rows are the rows that were to be sorted.
LEMMA SortedFrom ==
  ASSUME NEW s \in Seq(RowPairs), NEW t \in Sorted(s)
  PROVE  \A j \in DOMAIN s : /\ \E l \in DOMAIN s : t[j] = s[l]
                             /\ \E l \in DOMAIN s : t[l] = s[j]
<1>1. PICK p \in [DOMAIN s -> DOMAIN s] :
              /\ \A j, l \in DOMAIN s : p[j] = p[l] => j = l
              /\ \A l \in DOMAIN s : \E j \in DOMAIN s : p[j] = l
              /\ \A j \in DOMAIN s : t[j] = s[p[j]]
  BY SortedRows
<1> QED
  BY <1>1

-----------------------------------------------------------------------------
(* Types, the progress of the loops, and the files.                        *)

\* The rows of an array.
LEMMA PairsTyped ==
  ASSUME NEW s \in Seq(RowPairs)
  PROVE  /\ Len(s) \in Nat /\ DOMAIN s = 1 .. Len(s) /\ (s # << >> <=> Len(s) # 0)
         /\ \A k \in DOMAIN s : /\ s[k] \in RowPairs /\ s[k].counter \in Nat
                                /\ s[k].pub_ts \in Nat /\ s[k].recv_ts \in Nat
<1>1. Len(s) \in Nat /\ DOMAIN s = 1 .. Len(s) /\ (s # << >> <=> Len(s) # 0)
  BY LenProperties, EmptySeq
<1>2. \A k \in DOMAIN s : s[k] \in RowPairs
  BY <1>1, ElementOfSeq
<1> QED
  BY <1>1, <1>2 DEF RowPairs

\* The rows of the publisher's file.
LEMMA SentTyped ==
  ASSUME TypeOK
  PROVE  /\ sent \in Seq(SentRows) /\ Len(sent) \in Nat /\ DOMAIN sent = 1 .. Len(sent)
         /\ sent # << >> <=> Len(sent) # 0
         /\ \A k \in DOMAIN sent :
              /\ sent[k] \in SentRows /\ sent[k].counter \in Nat /\ sent[k].pub_ts \in Nat
              /\ sent[k].rc \in {0, -1} /\ sent[k].burst \in Nat
<1>1. sent \in Seq(SentRows)
  BY DEF TypeOK, SentRows
<1>2. Len(sent) \in Nat /\ DOMAIN sent = 1 .. Len(sent) /\ (sent # << >> <=> Len(sent) # 0)
  BY <1>1, LenProperties, EmptySeq
<1>3. \A k \in DOMAIN sent : sent[k] \in SentRows
  BY <1>1, <1>2, ElementOfSeq
<1> QED
  BY <1>1, <1>2, <1>3 DEF SentRows

\* The rows of the four arrays.
LEMMA AllTyped ==
  ASSUME TypeOK
  PROVE  \A s \in {got, pub, ana} :
           /\ s \in Seq(RowPairs)
           /\ Len(s) \in Nat /\ DOMAIN s = 1 .. Len(s) /\ (s # << >> <=> Len(s) # 0)
           /\ \A k \in DOMAIN s : /\ s[k] \in RowPairs /\ s[k].counter \in Nat
                                  /\ s[k].pub_ts \in Nat /\ s[k].recv_ts \in Nat
<1>1. got \in Seq(RowPairs) /\ pub \in Seq(RowPairs) /\ ana \in Seq(RowPairs)
  BY DEF TypeOK
<1> QED
  BY <1>1, PairsTyped

\* BaseInv holds at the start: there are no files, and nothing has been counted.
LEMMA BaseInitially == Init => BaseInv
  BY EmptySeq DEF Init, BaseInv, TypeOK, Progress, SentSeen, GotSeen, SentOrder, GotOfSent

\* A message is sent: it gets a stamp that is not before the last one's, and the next
\* number or a later stamp.
LEMMA BasePublish ==
  ASSUME BaseInv, PublishNext
  PROVE  BaseInv'
<1>1. PICK counter, burst, ts, rc :
        /\ Publish(counter, burst, ts, rc)
        /\ counter \in Nat /\ burst \in Nat /\ ts \in Nat /\ rc \in {0, -1}
        /\ sent # << >> =>
             \/ burst = LastSent.burst /\ counter > LastSent.counter /\ ts >= LastSent.pub_ts
             \/ burst > LastSent.burst /\ ts > LastSent.pub_ts
  <2>1. sent # << >> => LastSent \in SentRows
    BY SentTyped DEF BaseInv, LastSent
  <2>2. CASE sent = << >>
    BY <2>2 DEF PublishNext
  <2>3. CASE sent # << >>
    <3>1. /\ LastSent.counter \in Nat /\ LastSent.pub_ts \in Nat /\ LastSent.burst \in Nat
      BY <2>1, <2>3 DEF SentRows
    <3>2. PICK rc \in {0, -1} :
            \/ \E ts \in LastSent.pub_ts .. LastSent.pub_ts + 1 :
                 Publish(LastSent.counter + 1, LastSent.burst, ts, rc)
            \/ \E ts \in {LastSent.pub_ts + 1, LastSent.pub_ts + BURST_SECS + 1} :
                 Publish(0, LastSent.burst + 1, ts, rc)
      BY <2>3 DEF PublishNext
    <3>3. CASE \E ts \in LastSent.pub_ts .. LastSent.pub_ts + 1 :
                 Publish(LastSent.counter + 1, LastSent.burst, ts, rc)
      <4>1. PICK ts \in LastSent.pub_ts .. LastSent.pub_ts + 1 :
              Publish(LastSent.counter + 1, LastSent.burst, ts, rc)
        BY <3>3
      <4> QED
        BY <3>1, <4>1
    <3>4. CASE \E ts \in {LastSent.pub_ts + 1, LastSent.pub_ts + BURST_SECS + 1} :
                 Publish(0, LastSent.burst + 1, ts, rc)
      <4>1. PICK ts \in {LastSent.pub_ts + 1, LastSent.pub_ts + BURST_SECS + 1} :
              Publish(0, LastSent.burst + 1, ts, rc)
        BY <3>4
      <4> QED
        BY <3>1, <4>1
    <3> QED
      BY <3>2, <3>3, <3>4
  <2> QED
    BY <2>2, <2>3
<1> DEFINE m == [counter |-> counter, pub_ts |-> ts, rc |-> rc, burst |-> burst]
<1>2. m \in SentRows /\ sent \in Seq(SentRows) /\ sent' = Append(sent, m)
  BY <1>1 DEF SentRows, Publish, BaseInv, TypeOK
<1>3. /\ sent' \in Seq(SentRows) /\ Len(sent') = Len(sent) + 1
      /\ \A k \in 1 .. Len(sent) : sent'[k] = sent[k]
      /\ sent'[Len(sent) + 1] = m
  BY <1>2, AppendProperties
<1>4. /\ Len(sent) \in Nat /\ DOMAIN sent = 1 .. Len(sent) /\ DOMAIN sent' = 1 .. Len(sent) + 1
      /\ \A k \in DOMAIN sent : sent[k] \in SentRows
  BY <1>2, <1>3, LenProperties, ElementOfSeq
<1>5. /\ pc = "files" /\ Len(sent) < MaxSent
      /\ UNCHANGED <<got, program, start, end, pc, i, ai, pub, ana, counts>>
  BY <1>1 DEF Publish
<1>6. SentOrder'
  <2> SUFFICES ASSUME NEW k \in DOMAIN sent', NEW l \in DOMAIN sent', k < l
               PROVE  /\ sent'[k].burst <= sent'[l].burst /\ sent'[k].pub_ts <= sent'[l].pub_ts
                      /\ \/ sent'[k].burst = sent'[l].burst /\ sent'[k].counter < sent'[l].counter
                         \/ sent'[k].pub_ts < sent'[l].pub_ts
    BY DEF SentOrder
  <2>1. k \in DOMAIN sent /\ sent'[k] = sent[k]
    BY <1>3, <1>4
  <2>2. CASE l \in DOMAIN sent
    BY <1>3, <1>4, <2>1, <2>2 DEF BaseInv, SentOrder
  <2>3. CASE l = Len(sent) + 1
    <3>1. sent'[l] = m /\ LastSent = sent[Len(sent)] /\ sent # << >> /\ Len(sent) \in DOMAIN sent
      BY <1>3, <1>4, <2>1, <2>3, EmptySeq DEF LastSent
    <3>2. sent[k] \in SentRows /\ LastSent \in SentRows
      BY <1>4, <2>1, <3>1
    <3>3. k = Len(sent) \/ k < Len(sent)
      BY <1>4, <2>1
    <3>4. /\ sent[k].burst <= LastSent.burst /\ sent[k].pub_ts <= LastSent.pub_ts
          /\ \/ sent[k].burst = LastSent.burst /\ sent[k].counter <= LastSent.counter
             \/ sent[k].pub_ts < LastSent.pub_ts
      BY <2>1, <3>1, <3>2, <3>3 DEF BaseInv, SentOrder, SentRows
    <3>5. /\ sent'[l].burst = burst /\ sent'[l].pub_ts = ts /\ sent'[l].counter = counter
      BY <3>1
    <3>6. /\ \/ burst = LastSent.burst /\ counter > LastSent.counter /\ ts >= LastSent.pub_ts
             \/ burst > LastSent.burst /\ ts > LastSent.pub_ts
          /\ counter \in Nat /\ burst \in Nat /\ ts \in Nat
      BY <1>1, <3>1
    <3> HIDE DEF m
    <3>7. /\ sent[k].burst \in Nat /\ sent[k].pub_ts \in Nat /\ sent[k].counter \in Nat
          /\ LastSent.burst \in Nat /\ LastSent.pub_ts \in Nat /\ LastSent.counter \in Nat
      BY <3>2 DEF SentRows
    <3> QED
      BY <2>1, <3>4, <3>5, <3>6, <3>7
  <2> QED
    BY <1>4, <2>2, <2>3
<1>7. GotOfSent'
  BY <1>3, <1>4, <1>5 DEF BaseInv, GotOfSent, Same
<1>8. TypeOK'
  BY <1>3, <1>5 DEF BaseInv, TypeOK, SentRows, counts, tried, timing
<1>9. Progress'
  BY <1>3, <1>4, <1>5 DEF BaseInv, Progress, SentSeen, GotSeen, counts, tried, timing
<1> QED
  BY <1>6, <1>7, <1>8, <1>9 DEF BaseInv

\* A message arrives.
LEMMA BaseReceive ==
  ASSUME BaseInv, Receive
  PROVE  BaseInv'
<1>1. PICK k \in DOMAIN sent :
        /\ sent[k].rc = 0
        /\ got' = Append(got, [counter |-> sent[k].counter, pub_ts |-> sent[k].pub_ts,
                               recv_ts |-> Len(got)])
  BY DEF Receive
<1> DEFINE r == [counter |-> sent[k].counter, pub_ts |-> sent[k].pub_ts, recv_ts |-> Len(got)]
<1>2. /\ sent \in Seq(SentRows) /\ got \in Seq(RowPairs)
      /\ Len(got) \in Nat /\ DOMAIN got = 1 .. Len(got)
  BY LenProperties DEF BaseInv, TypeOK, SentRows
<1>3. sent[k] \in SentRows
  BY <1>2, ElementOfSeq, LenProperties
<1>4. r \in RowPairs
  BY <1>2, <1>3 DEF SentRows, RowPairs
<1>5. /\ got' \in Seq(RowPairs) /\ Len(got') = Len(got) + 1
      /\ \A l \in 1 .. Len(got) : got'[l] = got[l]
      /\ got'[Len(got) + 1] = r
  BY <1>1, <1>2, <1>4, AppendProperties
<1>6. DOMAIN got' = 1 .. Len(got) + 1
  BY <1>5, LenProperties
<1>7. /\ pc = "files" /\ Len(got) < MaxGot
      /\ UNCHANGED <<sent, program, start, end, pc, i, ai, pub, ana, counts>>
  BY DEF Receive
<1>8. GotOfSent'
  <2> SUFFICES ASSUME NEW l \in DOMAIN got'
               PROVE  \E h \in DOMAIN sent : sent[h].rc = 0 /\ Same(got'[l], sent[h])
    BY <1>7 DEF GotOfSent
  <2>1. CASE l \in DOMAIN got
    BY <1>2, <1>5, <2>1 DEF BaseInv, GotOfSent
  <2>2. CASE l = Len(got) + 1
    BY <1>1, <1>5, <2>2 DEF Same
  <2> QED
    BY <1>2, <1>6, <2>1, <2>2
<1>9. SentOrder'
  BY <1>7 DEF BaseInv, SentOrder
<1>10. TypeOK'
  BY <1>5, <1>7 DEF BaseInv, TypeOK, counts, tried, timing
<1>11. Progress'
  <2>1. \A l \in DOMAIN got' : got'[l].recv_ts = l - 1
    <3> SUFFICES ASSUME NEW l \in DOMAIN got' PROVE got'[l].recv_ts = l - 1
      OBVIOUS
    <3>1. CASE l \in DOMAIN got
      BY <1>2, <1>5, <3>1 DEF BaseInv, Progress
    <3>2. CASE l = Len(got) + 1
      BY <1>2, <1>5, <3>2
    <3> QED
      BY <1>2, <1>6, <3>1, <3>2
  <2>2. \A l \in DOMAIN ana : ana[l].recv_ts \in Nat
    BY AllTyped DEF BaseInv
  <2> QED
    BY <1>2, <1>5, <1>7, <2>1, <2>2
    DEF BaseInv, Progress, SentSeen, GotSeen, counts, tried, timing
<1> QED
  BY <1>8, <1>9, <1>10, <1>11 DEF BaseInv

\* The window: its ends are numbers, because the rows that arrived have bounded stamps.
LEMMA BaseWindow ==
  ASSUME BaseInv, LeaveOut \/ TakeWindow
  PROVE  BaseInv'
<1>1. /\ UNCHANGED <<sent, got, i, ai, pub, ana, counts>> /\ pc = "files"
      /\ sent # << >>
      /\ \/ pc' = "failed" /\ UNCHANGED <<start, end>>
         \/ pc' = "readSent" /\ (RecordedWindow \/ ObserveWindow)
      /\ program' \in {"report.c", "report.py"}
  BY DEF LeaveOut, TakeWindow
<1>2. /\ sent \in Seq(SentRows) /\ got \in Seq(RowPairs)
      /\ Len(sent) \in Nat /\ DOMAIN sent = 1 .. Len(sent)
      /\ Len(got) \in Nat /\ DOMAIN got = 1 .. Len(got)
      /\ \A k \in DOMAIN sent : sent[k] \in SentRows
      /\ \A k \in DOMAIN got : got[k] \in RowPairs
  BY LenProperties, ElementOfSeq DEF BaseInv, TypeOK, SentRows
<1>3. LastSent.pub_ts \in Nat
  BY <1>1, <1>2, EmptySeq DEF LastSent, SentRows
<1>4. start' \in Nat /\ end' \in Nat
  <2>1. CASE UNCHANGED <<start, end>>
    BY <2>1 DEF BaseInv, TypeOK
  <2>2. CASE RecordedWindow
    BY <1>3, <2>2 DEF RecordedWindow
  <2>3. CASE ObserveWindow
    <3> DEFINE T == {got[k].pub_ts : k \in DOMAIN got}
    <3>1. \A k \in DOMAIN got : got[k].pub_ts \in 0 .. LastSent.pub_ts
      <4> SUFFICES ASSUME NEW k \in DOMAIN got PROVE got[k].pub_ts \in 0 .. LastSent.pub_ts
        OBVIOUS
      <4>1. PICK l \in DOMAIN sent : Same(got[k], sent[l])
        BY DEF BaseInv, GotOfSent
      <4>2. sent[l].pub_ts <= LastSent.pub_ts
        <5>1. Len(sent) \in DOMAIN sent
          BY <1>2
        <5>2. CASE l < Len(sent)
          BY <5>1, <5>2 DEF BaseInv, SentOrder, LastSent
        <5>3. CASE l = Len(sent)
          BY <1>3, <5>3 DEF LastSent
        <5> QED
          BY <1>2, <5>2, <5>3
      <4> QED
        BY <1>2, <1>3, <4>1, <4>2 DEF Same, SentRows
    <3>2. T \subseteq 0 .. LastSent.pub_ts /\ T # {}
      BY <1>2, <2>3, <3>1, EmptySeq DEF ObserveWindow
    <3>3. start' = Min(T) /\ end' = Max(T)
      BY <2>3 DEF ObserveWindow
    <3> HIDE DEF T
    <3>4. Min(T) \in T /\ Max(T) \in T
      BY <1>3, <3>2, MinMax
    <3>5. T \subseteq Nat
      BY <1>3, <3>2
    <3> QED
      BY <3>3, <3>4, <3>5
  <2> QED
    BY <1>1, <2>1, <2>2, <2>3
<1>5. SentOrder' /\ GotOfSent'
  BY <1>1 DEF BaseInv, SentOrder, GotOfSent
<1>6. TypeOK'
  BY <1>1, <1>4 DEF BaseInv, TypeOK, counts, tried, timing
<1>7. Progress'
  <2>1. SentSeen = 0 /\ SentSeen' \in Nat /\ GotSeen = 0 /\ GotSeen' \in Nat
    BY <1>1, <1>2 DEF BaseInv, Progress, SentSeen, GotSeen
  <2>2. /\ attempts' = attempts /\ ooo' = ooo /\ dup' = dup /\ ana' = ana
        /\ attempts \in Nat /\ ooo \in Nat /\ dup \in Nat /\ Len(ana) \in Nat
    BY <1>1, AllTyped DEF BaseInv, TypeOK, counts, tried
  <2>3. attempts' <= SentSeen' /\ ooo' <= GotSeen' /\ dup' <= GotSeen' /\ Len(ana') <= GotSeen'
    BY <2>1, <2>2 DEF BaseInv, Progress
  <2> QED
    BY <1>1, <1>2, <2>3 DEF BaseInv, Progress, counts, tried, timing
<1> QED
  BY <1>5, <1>6, <1>7 DEF BaseInv

\* A row of the publisher's file is read.
LEMMA BaseReadSent ==
  ASSUME BaseInv, ReadSent
  PROVE  BaseInv'
<1> DEFINE r == sent[i]
           m == [counter |-> r.counter, pub_ts |-> r.pub_ts, recv_ts |-> 0]
<1>1. /\ pc = "readSent" /\ i <= Len(sent) /\ i' = i + 1
      /\ UNCHANGED <<files, pc, ai, ana, pub_success_rate, ooo, dup, loss, timing>>
  BY DEF ReadSent
<1>2. i \in DOMAIN sent /\ i \in Nat \ {0} /\ m \in RowPairs
  BY <1>1, SentTyped DEF BaseInv, TypeOK, RowPairs
<1>3. attempts \in Nat /\ successes \in 0 .. attempts /\ attempts <= i - 1 /\ successes = Len(pub)
  BY <1>1 DEF BaseInv, TypeOK, Progress, SentSeen
<1>4. \/ UNCHANGED <<successes, pub>> /\ attempts' \in {attempts, attempts + 1}
      \/ attempts' = attempts + 1 /\ successes' = successes + 1 /\ pub' = Append(pub, m)
  BY DEF ReadSent
<1>5. pub' \in Seq(RowPairs) /\ successes' = Len(pub')
  <2>1. pub \in Seq(RowPairs)
    BY DEF BaseInv, TypeOK
  <2> HIDE DEF m
  <2> QED
    BY <1>2, <1>3, <1>4, <2>1, AppendProperties
<1>6. attempts' \in 0 .. i /\ successes' \in 0 .. attempts' /\ loss = 0
  BY <1>1, <1>2, <1>3, <1>4 DEF BaseInv, Progress
<1>7. Len(sent) \in Nat /\ i <= MaxSent
  BY <1>1, <1>2, SentTyped DEF BaseInv, Progress
<1>8. TypeOK'
  BY <1>1, <1>2, <1>5, <1>6, <1>7 DEF BaseInv, TypeOK, files, timing
<1>9. Progress'
  BY <1>1, <1>2, <1>5, <1>6, <1>7 DEF BaseInv, Progress, SentSeen, GotSeen, files, timing
<1>10. SentOrder' /\ GotOfSent'
  BY <1>1 DEF BaseInv, SentOrder, GotOfSent, files
<1> QED
  BY <1>8, <1>9, <1>10 DEF BaseInv

\* All have been read, and they are sorted.
LEMMA BaseSortSent ==
  ASSUME BaseInv, SortSent
  PROVE  BaseInv'
<1>1. /\ pc = "readSent" /\ i > Len(sent) /\ i' = 1 /\ pc' \in {"failed", "readGot"}
      /\ pub' \in Sorted(pub)
      /\ UNCHANGED <<files, ai, ana, attempts, successes, ooo, dup, loss, timing>>
  BY DEF SortSent
<1>2. pub' \in Seq(RowPairs) /\ Len(pub') = Len(pub)
  BY <1>1, SortedRows DEF BaseInv, TypeOK
<1>3. attempts \in Nat /\ successes \in 0 .. attempts /\ pub_success_rate \in 0 .. 100
  BY DEF BaseInv, TypeOK
<1>4. pub_success_rate' \in 0 .. 100
  <2>1. CASE attempts = 0
    BY <2>1 DEF SortSent
  <2>2. CASE attempts # 0 /\ Observed
    BY <1>3, <2>2, Percent DEF SortSent
  <2>3. CASE attempts # 0 /\ ~Observed
    <3>1. pub_success_rate = 0
      BY <1>1 DEF BaseInv, Progress
    <3> QED
      BY <1>3, <2>3, <3>1, Percent DEF SortSent
  <2> QED
    BY <2>1, <2>2, <2>3
<1>5. TypeOK'
  BY <1>1, <1>2, <1>4 DEF BaseInv, TypeOK, files, timing
<1>6. /\ Len(sent) \in Nat /\ Len(got) \in Nat /\ SentSeen = i - 1 /\ i <= Len(sent) + 1
      /\ i \in Nat /\ GotSeen = 0
      /\ SentSeen' = Len(sent) /\ GotSeen' \in Nat
  <2>1. Len(sent) \in Nat /\ Len(got) \in Nat /\ i \in Nat
    BY SentTyped, AllTyped DEF BaseInv, TypeOK
  <2> QED
    BY <1>1, <2>1 DEF BaseInv, Progress, SentSeen, GotSeen, files
<1>7. /\ attempts' <= SentSeen' /\ ooo' <= GotSeen' /\ dup' <= GotSeen'
      /\ Len(ana') <= GotSeen'
  <2>1. ooo \in Nat /\ dup \in Nat /\ Len(ana) \in Nat
    BY AllTyped DEF BaseInv, TypeOK
  <2> QED
    BY <1>1, <1>3, <1>6, <2>1 DEF BaseInv, Progress
<1>8. Progress'
  BY <1>1, <1>2, <1>6, <1>7 DEF BaseInv, Progress, files, timing
<1>9. SentOrder' /\ GotOfSent'
  BY <1>1 DEF BaseInv, SentOrder, GotOfSent, files
<1> QED
  BY <1>5, <1>8, <1>9 DEF BaseInv

\* A row of the analyser's file is read.
LEMMA BaseReadGot ==
  ASSUME BaseInv, ReadGot
  PROVE  BaseInv'
<1>1. /\ pc = "readGot" /\ i <= Len(got) /\ i' = i + 1
      /\ ooo' \in {ooo, ooo + 1} /\ dup' \in {dup, dup + 1}
      /\ UNCHANGED ana \/ ana' = Append(ana, got[i])
      /\ UNCHANGED <<files, pc, ai, pub, tried, loss, timing>>
  BY DEF ReadGot
<1>2. /\ i \in DOMAIN got /\ i \in Nat \ {0} /\ got[i] \in RowPairs /\ Len(got) \in Nat
      /\ ana \in Seq(RowPairs) /\ Len(ana) \in Nat /\ DOMAIN ana = 1 .. Len(ana)
  BY <1>1, AllTyped DEF BaseInv, TypeOK
<1>3. /\ ana' \in Seq(RowPairs) /\ Len(ana') \in Nat /\ Len(ana') <= Len(ana) + 1
      /\ \A k \in DOMAIN ana' : ana'[k].recv_ts < Len(got)
  <2>0. \A k \in DOMAIN ana : ana[k].recv_ts < Len(got)
    BY DEF BaseInv, Progress
  <2>1. CASE UNCHANGED ana
    BY <1>2, <2>0, <2>1
  <2>2. CASE ana' = Append(ana, got[i])
    <3>1. /\ ana' \in Seq(RowPairs) /\ Len(ana') = Len(ana) + 1
          /\ \A k \in 1 .. Len(ana) : ana'[k] = ana[k]
          /\ ana'[Len(ana) + 1] = got[i]
      BY <1>2, <2>2, AppendProperties
    <3>2. DOMAIN ana' = 1 .. Len(ana) + 1
      BY <3>1, LenProperties
    <3>3. got[i].recv_ts = i - 1
      BY <1>2 DEF BaseInv, Progress
    <3>4. ASSUME NEW k \in DOMAIN ana' PROVE ana'[k].recv_ts < Len(got)
      <4>1. CASE k \in DOMAIN ana
        BY <1>2, <2>0, <3>1, <4>1
      <4>2. CASE k = Len(ana) + 1
        BY <1>1, <1>2, <3>1, <3>3, <4>2
      <4> QED
        BY <1>2, <3>2, <4>1, <4>2
    <3> QED
      BY <3>1, <3>4
  <2> QED
    BY <1>1, <2>1, <2>2
<1>4. /\ ooo <= i - 1 /\ dup <= i - 1 /\ Len(ana) <= i - 1 /\ ooo \in Nat /\ dup \in Nat
      /\ i <= MaxGot
  BY <1>1, <1>2 DEF BaseInv, TypeOK, Progress, GotSeen
<1>5. TypeOK'
  BY <1>1, <1>2, <1>3, <1>4 DEF BaseInv, TypeOK, files, tried, timing
<1>6. GotSeen' = i /\ SentSeen' = SentSeen
  BY <1>1, <1>2 DEF SentSeen, GotSeen, files
<1>7. ooo' <= GotSeen' /\ dup' <= GotSeen' /\ Len(ana') <= GotSeen'
  BY <1>1, <1>2, <1>3, <1>4, <1>6
<1>8. Progress'
  BY <1>1, <1>2, <1>3, <1>6, <1>7 DEF BaseInv, Progress, files, tried, timing
<1>9. SentOrder' /\ GotOfSent'
  BY <1>1 DEF BaseInv, SentOrder, GotOfSent, files
<1> QED
  BY <1>5, <1>8, <1>9 DEF BaseInv

\* The rows of the analyser are sorted, and the walks begin.
LEMMA BaseSortGot ==
  ASSUME BaseInv, SortGot
  PROVE  BaseInv'
<1>1. /\ pc = "readGot" /\ i > Len(got) /\ i' = 1 /\ pc' \in {"failed", "loss"}
      /\ ana' \in Sorted(ana)
      /\ UNCHANGED <<files, ai, pub, counts>>
  BY DEF SortGot
<1>2. /\ ana \in Seq(RowPairs) /\ Len(ana) \in Nat /\ DOMAIN ana = 1 .. Len(ana)
      /\ Len(got) \in Nat /\ Len(pub) \in Nat /\ i \in Nat /\ i <= Len(got) + 1
  BY <1>1, AllTyped DEF BaseInv, TypeOK, Progress
<1>3. /\ ana' \in Seq(RowPairs) /\ Len(ana') = Len(ana)
      /\ \A k \in DOMAIN ana' : ana'[k].recv_ts < Len(got)
  <2>1. ana' \in Seq(RowPairs) /\ Len(ana') = Len(ana)
    BY <1>1, <1>2, SortedRows
  <2>2. \A k \in DOMAIN ana : \E l \in DOMAIN ana : ana'[k] = ana[l]
    BY <1>1, <1>2, SortedFrom
  <2>3. DOMAIN ana' = DOMAIN ana
    BY <1>2, <2>1, LenProperties
  <2> QED
    BY <2>1, <2>2, <2>3 DEF BaseInv, Progress
<1>4. TypeOK'
  BY <1>1, <1>3 DEF BaseInv, TypeOK, files, counts, tried, timing
<1>5. SentSeen' = SentSeen /\ GotSeen = Len(got) /\ GotSeen' = Len(got)
  BY <1>1, <1>2 DEF SentSeen, GotSeen, files
<1>6. Progress'
  BY <1>1, <1>2, <1>3, <1>5 DEF BaseInv, Progress, files, counts, tried, timing
<1>7. SentOrder' /\ GotOfSent'
  BY <1>1 DEF BaseInv, SentOrder, GotOfSent, files
<1> QED
  BY <1>4, <1>6, <1>7 DEF BaseInv

\* The walks: a counter advances with its index at most.
LEMMA BaseWalk ==
  ASSUME BaseInv, WalkLoss \/ RestLost \/ WalkGaps \/ GapsDone
  PROVE  BaseInv'
<1>1. UNCHANGED <<files, pub, ana, tried, ooo, dup>> /\ pc \in {"loss", "gaps"}
  BY DEF WalkLoss, RestLost, WalkGaps, GapsDone
<1>2. SentOrder' /\ GotOfSent'
  BY <1>1 DEF BaseInv, SentOrder, GotOfSent, files
<1>3. /\ Len(pub) \in Nat /\ Len(ana) \in Nat /\ Len(got) \in Nat /\ DOMAIN ana = 1 .. Len(ana)
      /\ \A k \in DOMAIN ana : ana[k].recv_ts \in Nat /\ ana[k].recv_ts < Len(got)
      /\ Len(got) <= MaxGot /\ Len(ana) <= Len(got) /\ successes = Len(pub)
      /\ i \in Nat \ {0} /\ ai \in Nat \ {0} /\ loss \in Nat /\ samples \in Nat /\ gap_sum \in Nat
  BY <1>1, AllTyped DEF BaseInv, TypeOK, Progress, GotSeen
<1>4. pc' \in {"loss", "gaps", "done"} /\ SentSeen' = SentSeen /\ GotSeen' = GotSeen
  BY <1>1 DEF SentSeen, GotSeen, files, WalkLoss, RestLost, WalkGaps, GapsDone
<1>5. CASE WalkLoss
  <2>1. /\ pc = "loss" /\ pc' = "loss" /\ i <= Len(pub) /\ ai <= Len(ana) /\ i' \in {i, i + 1}
        /\ ai' \in {ai, ai + 1} /\ UNCHANGED timing
        /\ loss' = loss \/ (i' = i + 1 /\ loss' = loss + 1)
    BY <1>5 DEF WalkLoss, CmpRowPair, Compare
  <2>2. loss <= i - 1 /\ samples = 0
    BY <2>1 DEF BaseInv, Progress
  <2>3. /\ i' \in Nat \ {0} /\ ai' \in Nat \ {0} /\ i' <= Len(pub) + 1 /\ ai' <= Len(ana) + 1
        /\ loss' \in Nat /\ loss' <= i' - 1 /\ loss' <= successes
    BY <1>3, <2>1, <2>2
  <2>4. TypeOK'
    BY <1>1, <1>3, <2>1, <2>3 DEF BaseInv, TypeOK, files, tried, timing
  <2>5. Progress'
    BY <1>1, <1>3, <1>4, <2>1, <2>2, <2>3 DEF BaseInv, Progress, files, tried, timing
  <2> QED
    BY <1>2, <2>4, <2>5 DEF BaseInv
<1>6. CASE RestLost
  <2>1. /\ pc = "loss" /\ pc' = "gaps" /\ i' = 1 /\ ai' = ai /\ UNCHANGED timing
        /\ loss' = loss + (Len(pub) - i + 1)
    BY <1>6 DEF RestLost, Rest
  <2>2. loss <= i - 1 /\ samples = 0 /\ i <= Len(pub) + 1
    BY <2>1 DEF BaseInv, Progress
  <2>3. loss' \in 0 .. successes
    BY <1>3, <2>1, <2>2
  <2>4. TypeOK'
    BY <1>1, <1>3, <2>1, <2>3 DEF BaseInv, TypeOK, files, tried, timing
  <2>5. Progress'
    BY <1>1, <1>3, <1>4, <2>1, <2>2 DEF BaseInv, Progress, files, tried, timing
  <2> QED
    BY <1>2, <2>4, <2>5 DEF BaseInv
<1>7. CASE WalkGaps
  <2>1. /\ pc = "gaps" /\ pc' = "gaps" /\ i < Len(ana) /\ i' = i + 1 /\ ai' = ai
        /\ loss' = loss /\ recv_window' = recv_window
        /\ \/ UNCHANGED <<gap_sum, samples>>
           \/ /\ ana[i + 1].recv_ts >= ana[i].recv_ts /\ samples' = samples + 1
              /\ gap_sum' = gap_sum + (ana[i + 1].recv_ts - ana[i].recv_ts)
    BY <1>7 DEF WalkGaps, Measured
  <2>2. i \in DOMAIN ana /\ i + 1 \in DOMAIN ana /\ samples < i
    BY <1>3, <2>1 DEF BaseInv, Progress
  <2>3. gap_sum' \in Nat /\ samples' \in 0 .. i
    BY <1>3, <2>1, <2>2
  <2>4. TypeOK'
    BY <1>1, <1>3, <2>1, <2>3 DEF BaseInv, TypeOK, files, tried
  <2>5. Progress'
    BY <1>1, <1>3, <1>4, <2>1, <2>3 DEF BaseInv, Progress, files, tried
  <2> QED
    BY <1>2, <2>4, <2>5 DEF BaseInv
<1>8. CASE GapsDone
  <2>1. /\ pc' = "done" /\ UNCHANGED <<i, ai, loss, gap_sum, samples>>
        /\ recv_window' = IF Len(ana) >= 2
                          THEN Max({ana[Len(ana)].recv_ts - ana[1].recv_ts, 0}) ELSE 0
    BY <1>8 DEF GapsDone
  <2>2. recv_window' \in 0 .. MaxGot
    <3>1. CASE Len(ana) >= 2
      <4> DEFINE d == ana[Len(ana)].recv_ts - ana[1].recv_ts
      <4>1. d \in Int /\ d <= MaxGot
        <5>1. 1 \in DOMAIN ana /\ Len(ana) \in DOMAIN ana
          BY <1>3, <3>1
        <5> QED
          BY <1>3, <5>1
      <4> HIDE DEF d
      <4>2. \E x \in {d, 0} : \A y \in {d, 0} : x >= y
        BY <4>1
      <4>3. Max({d, 0}) \in {d, 0} /\ Max({d, 0}) >= 0
        BY <4>2 DEF Max
      <4> QED
        BY <2>1, <3>1, <4>1, <4>3 DEF d
    <3>2. CASE ~(Len(ana) >= 2)
      BY <2>1, <3>2
    <3> QED
      BY <3>1, <3>2
  <2>3. TypeOK'
    BY <1>1, <1>3, <1>4, <2>1, <2>2 DEF BaseInv, TypeOK, files, tried
  <2>4. Progress'
    BY <1>1, <1>3, <1>4, <2>1 DEF BaseInv, Progress, files, tried
  <2> QED
    BY <1>2, <2>3, <2>4 DEF BaseInv
<1> QED
  BY <1>5, <1>6, <1>7, <1>8

\* No step breaks BaseInv.
LEMMA BaseInductive ==
  ASSUME BaseInv, [Next]_vars
  PROVE  BaseInv'
<1>1. CASE UNCHANGED vars
  BY <1>1 DEF BaseInv, TypeOK, Progress, SentSeen, GotSeen, SentOrder, GotOfSent, vars, files,
              counts, tried, timing
<1>2. CASE Next
  BY <1>1, <1>2, BasePublish, BaseReceive, BaseWindow, BaseReadSent, BaseSortSent,
     BaseReadGot, BaseSortGot, BaseWalk
  DEF Next, Reported
<1> QED
  BY <1>1, <1>2

\* How far the loops are, and what was sent and arrived, in every state.
LEMMA BaseInvariance == Spec => []BaseInv
  BY BaseInitially, BaseInductive, PTL DEF Spec

\* Every counter stays within its bounds: no more is lost than was sent successfully, no
\* more is out of order or a duplicate than arrived.
THEOREM TypeCorrect == Spec => []TypeOK
<1>1. BaseInv => TypeOK
  BY DEF BaseInv
<1> QED
  BY <1>1, BaseInvariance, PTL

-----------------------------------------------------------------------------
(* The rows that are read.                                                 *)

\* At the start both arrays are empty.
LEMMA RowsInitially == Init => RowsInv
  BY EmptySeq DEF Init, RowsInv, PubOfSent, AnaOfGot, InOrder, SentSeen, GotSeen, Counted

\* Nothing has been read while the files grow, or when the window is taken.
LEMMA RowsFiles ==
  ASSUME BaseInv, BaseInv', RowsInv, PublishNext \/ Receive \/ LeaveOut \/ TakeWindow
  PROVE  RowsInv'
<1>1. /\ pc = "files" /\ UNCHANGED <<i, pub, ana>>
      /\ pc' \in {"files", "readSent"} \/ (pc' = "failed" /\ got' = << >>)
  BY DEF PublishNext, Publish, Receive, LeaveOut, TakeWindow
<1>2. i = 1 /\ pub = << >> /\ ana = << >>
  <2>1. i = 1 /\ attempts <= 0 /\ successes = Len(pub) /\ Len(ana) <= 0
    BY <1>1 DEF BaseInv, Progress, SentSeen, GotSeen
  <2>2. Len(pub) <= 0
    BY <2>1 DEF BaseInv, TypeOK
  <2>3. Len(pub) = 0 /\ Len(ana) = 0
    BY <2>1, <2>2, AllTyped DEF BaseInv
  <2> QED
    BY <2>1, <2>3, AllTyped DEF BaseInv
<1>3. pub' = << >> /\ ana' = << >> /\ DOMAIN pub' = {} /\ DOMAIN ana' = {}
  BY <1>1, <1>2
<1>4. pc' # "failed" => SentSeen' = 0 /\ GotSeen' = 0
  BY <1>1, <1>2 DEF SentSeen, GotSeen
<1>5. \A k \in Counted' : k \in Nat /\ k > 0
  <2>1. got' \in Seq(RowPairs)
    BY DEF BaseInv, TypeOK
  <2> QED
    BY <2>1, PairsTyped DEF Counted
<1>6. PubOfSent'
  BY <1>3, <1>4 DEF PubOfSent
<1>7. AnaOfGot'
  BY <1>1, <1>3, <1>4, <1>5 DEF AnaOfGot
<1>8. InOrder'
  BY <1>1 DEF InOrder
<1> QED
  BY <1>6, <1>7, <1>8 DEF RowsInv

\* Two messages that are the same are one.
LEMMA SentOnce ==
  ASSUME BaseInv, NEW k \in DOMAIN sent, NEW l \in DOMAIN sent, Same(sent[k], sent[l])
  PROVE  k = l
<1>1. /\ k \in Nat /\ l \in Nat /\ sent[k].counter \in Nat /\ sent[l].counter \in Nat
      /\ sent[k].pub_ts \in Nat /\ sent[l].pub_ts \in Nat
  BY SentTyped DEF BaseInv
<1>2. ~(k < l)
  BY <1>1 DEF BaseInv, SentOrder, Same
<1>3. ~(l < k)
  BY <1>1 DEF BaseInv, SentOrder, Same
<1> QED
  BY <1>1, <1>2, <1>3

\* A row of the publisher's file is read.
LEMMA RowsReadSent ==
  ASSUME BaseInv, RowsInv, ReadSent
  PROVE  RowsInv'
<1> DEFINE r == sent[i]
           m == [counter |-> r.counter, pub_ts |-> r.pub_ts, recv_ts |-> 0]
<1>1. /\ pc = "readSent" /\ i <= Len(sent) /\ i' = i + 1
      /\ UNCHANGED <<sent, got, program, start, end, pc, ana>>
      /\ \/ UNCHANGED pub /\ ~Expected(i)
         \/ pub' = Append(pub, m) /\ Expected(i)
  BY DEF ReadSent, files, Expected
<1>2. /\ i \in DOMAIN sent /\ i \in Nat \ {0} /\ Len(sent) \in Nat /\ m \in RowPairs
      /\ DOMAIN sent = 1 .. Len(sent)
      /\ pub \in Seq(RowPairs) /\ Len(pub) \in Nat /\ DOMAIN pub = 1 .. Len(pub)
  BY <1>1, SentTyped, AllTyped DEF BaseInv, TypeOK, RowPairs
<1>3. /\ SentSeen = i - 1 /\ SentSeen' = i /\ GotSeen' = GotSeen /\ Counted' = Counted
      /\ \A k : Expected(k)' = Expected(k)
  BY <1>1, <1>2 DEF SentSeen, GotSeen, Counted, Expected, InWindow
<1>4. AnaOfGot' /\ InOrder'
  BY <1>1, <1>3 DEF RowsInv, AnaOfGot, InOrder, Observed
<1>5. CASE UNCHANGED pub /\ ~Expected(i)
  <2>1. /\ \A j \in DOMAIN pub : \E k \in 1 .. i - 1 : Expected(k) /\ Same(pub[j], sent[k])
        /\ \A k \in 1 .. i - 1 : Expected(k) => \E j \in DOMAIN pub : Same(pub[j], sent[k])
        /\ \A j, l \in DOMAIN pub : Same(pub[j], pub[l]) => j = l
    BY <1>1, <1>3 DEF RowsInv, PubOfSent
  <2>2. /\ \A j \in DOMAIN pub : \E k \in 1 .. i : Expected(k) /\ Same(pub[j], sent[k])
        /\ \A k \in 1 .. i : Expected(k) => \E j \in DOMAIN pub : Same(pub[j], sent[k])
    BY <1>2, <1>5, <2>1
  <2>3. PubOfSent'
    BY <1>1, <1>3, <1>5, <2>1, <2>2 DEF PubOfSent, Same
  <2> QED
    BY <1>4, <2>3 DEF RowsInv
<1>6. CASE pub' = Append(pub, m) /\ Expected(i)
  <2>0. Same(m, sent[i])
    BY DEF Same
  <2> HIDE DEF m
  <2>1. /\ Len(pub') = Len(pub) + 1 /\ pub' \in Seq(RowPairs)
        /\ \A k \in 1 .. Len(pub) : pub'[k] = pub[k]
        /\ pub'[Len(pub) + 1] = m
    BY <1>2, <1>6, AppendProperties
  <2>2. DOMAIN pub' = 1 .. Len(pub) + 1
    BY <2>1, LenProperties
  <2>3. ASSUME NEW j \in DOMAIN pub'
        PROVE  \E k \in 1 .. i : Expected(k) /\ Same(pub'[j], sent[k])
    <3>1. CASE j \in DOMAIN pub
      <4>1. PICK k \in 1 .. i - 1 : Expected(k) /\ Same(pub[j], sent[k])
        BY <1>3, <3>1 DEF RowsInv, PubOfSent
      <4> QED
        BY <1>2, <2>1, <3>1, <4>1
    <3>2. CASE j = Len(pub) + 1
      BY <1>2, <1>6, <2>0, <2>1, <3>2
    <3> QED
      BY <1>2, <2>2, <3>1, <3>2
  <2>4. ASSUME NEW k \in 1 .. i, Expected(k)
        PROVE  \E j \in DOMAIN pub' : Same(pub'[j], sent[k])
    <3>1. CASE k = i
      BY <1>2, <2>0, <2>1, <2>2, <3>1
    <3>2. CASE k \in 1 .. i - 1
      <4>1. PICK j \in DOMAIN pub : Same(pub[j], sent[k])
        BY <1>1, <1>3, <2>4, <3>2 DEF RowsInv, PubOfSent
      <4> QED
        BY <1>2, <2>1, <2>2, <4>1
    <3> QED
      BY <1>2, <3>1, <3>2
  <2>5. ASSUME NEW j \in DOMAIN pub
        PROVE  ~Same(pub[j], m)
    <3>1. PICK k \in 1 .. i - 1 : Same(pub[j], sent[k])
      BY <1>3 DEF RowsInv, PubOfSent
    <3>2. k \in DOMAIN sent /\ k # i
      BY <1>1, <1>2
    <3>3. ~Same(sent[k], sent[i])
      BY <1>2, <3>2, SentOnce
    <3> QED
      BY <2>0, <3>1, <3>3 DEF Same
  <2>6. ASSUME NEW j \in DOMAIN pub', NEW l \in DOMAIN pub', Same(pub'[j], pub'[l])
        PROVE  j = l
    <3>1. CASE j \in DOMAIN pub /\ l \in DOMAIN pub
      BY <1>2, <2>1, <2>6, <3>1 DEF RowsInv, PubOfSent
    <3>2. CASE j \in DOMAIN pub /\ l = Len(pub) + 1
      BY <1>2, <2>1, <2>5, <2>6, <3>2
    <3>3. CASE j = Len(pub) + 1 /\ l \in DOMAIN pub
      <4>1. Same(pub[l], m)
        BY <1>2, <2>1, <2>6, <3>3 DEF Same
      <4> QED
        BY <2>5, <3>3, <4>1
    <3> QED
      BY <1>2, <2>2, <3>1, <3>2, <3>3
  <2>7. PubOfSent'
    BY <1>1, <1>3, <2>3, <2>4, <2>6 DEF PubOfSent, Same
  <2> QED
    BY <1>4, <2>7 DEF RowsInv
<1> QED
  BY <1>1, <1>5, <1>6

\* The rows of the publisher are sorted; none are equal.
LEMMA RowsSortSent ==
  ASSUME BaseInv, RowsInv, SortSent
  PROVE  RowsInv'
<1>1. /\ pc = "readSent" /\ i > Len(sent) /\ i' = 1 /\ pc' \in {"failed", "readGot"}
      /\ pub' \in Sorted(pub)
      /\ UNCHANGED <<sent, got, program, start, end, ana>>
  BY DEF SortSent, files
<1>2. /\ Len(sent) \in Nat /\ Len(got) \in Nat /\ i = Len(sent) + 1
      /\ pub \in Seq(RowPairs) /\ Len(pub) \in Nat /\ DOMAIN pub = 1 .. Len(pub)
  <2>1. Len(sent) \in Nat /\ i \in Nat
    BY SentTyped DEF BaseInv, TypeOK
  <2> QED
    BY <1>1, <2>1, AllTyped DEF BaseInv, TypeOK, Progress
<1>3. /\ SentSeen = Len(sent) /\ SentSeen' = Len(sent) /\ GotSeen = 0
      /\ pc' = "readGot" => GotSeen' = 0
      /\ Counted' = Counted /\ \A k : Expected(k)' = Expected(k)
  BY <1>1, <1>2 DEF SentSeen, GotSeen, Counted, Expected, InWindow
<1>4. ana = << >> /\ DOMAIN ana = {} /\ \A k \in Counted : k \in Nat /\ k > 0
  <2>1. Len(ana) \in Nat /\ Len(ana) <= 0
    BY <1>3, AllTyped DEF BaseInv, Progress
  <2> QED
    BY <2>1, AllTyped DEF BaseInv, Counted
<1>5. AnaOfGot'
  BY <1>1, <1>3, <1>4 DEF AnaOfGot
<1>6. /\ pub' \in Seq(RowPairs) /\ Len(pub') = Len(pub)
      /\ \A j, l \in DOMAIN pub' : j < l => CmpRowPair(pub'[j], pub'[l]) <= 0
  BY <1>1, <1>2, SortedRows
<1>7. DOMAIN pub' = DOMAIN pub /\ \A j \in DOMAIN pub' : pub'[j] \in RowPairs
  BY <1>2, <1>6, PairsTyped
<1>8. \A j, l \in DOMAIN pub' : Same(pub'[j], pub'[l]) => j = l
  <2>1. \E p \in [DOMAIN pub -> DOMAIN pub] :
              /\ \A j, l \in DOMAIN pub : p[j] = p[l] => j = l
              /\ \A l \in DOMAIN pub : \E j \in DOMAIN pub : p[j] = l
              /\ \A j \in DOMAIN pub : pub'[j] = pub[p[j]]
    BY <1>1, <1>2, SortedRows
  <2>2. PICK p \in [DOMAIN pub -> DOMAIN pub] :
              /\ \A j, l \in DOMAIN pub : p[j] = p[l] => j = l
              /\ \A j \in DOMAIN pub : pub'[j] = pub[p[j]]
    BY <2>1
  <2> QED
    BY <1>7, <2>2 DEF RowsInv, PubOfSent
<1>9. InOrder'
  <2>1. ASSUME NEW j \in DOMAIN pub', NEW l \in DOMAIN pub', j < l
        PROVE  CmpRowPair(pub'[j], pub'[l]) < 0
    <3>1. CmpRowPair(pub'[j], pub'[l]) <= 0 /\ ~Same(pub'[j], pub'[l]) /\ j \in Nat /\ l \in Nat
      BY <1>2, <1>6, <1>7, <1>8, <2>1
    <3>2. pub'[j] \in RowPairs /\ pub'[l] \in RowPairs
      BY <1>7
    <3> HIDE <1>6, <1>7, <1>8
    <3> QED
      BY <3>1, <3>2, RowOrder
  <2> QED
    BY <1>1, <2>1 DEF InOrder
<1>10. \A j \in DOMAIN pub' : \E k \in 1 .. Len(sent) : Expected(k) /\ Same(pub'[j], sent[k])
  <2>1. \A j \in DOMAIN pub : \E l \in DOMAIN pub : pub'[j] = pub[l]
    BY <1>1, <1>2, SortedFrom
  <2> QED
    BY <1>3, <1>7, <2>1 DEF RowsInv, PubOfSent
<1>11. \A k \in 1 .. Len(sent) : Expected(k) => \E j \in DOMAIN pub' : Same(pub'[j], sent[k])
  <2>1. \A j \in DOMAIN pub : \E l \in DOMAIN pub : pub'[l] = pub[j]
    BY <1>1, <1>2, SortedFrom
  <2> QED
    BY <1>1, <1>3, <1>7, <2>1 DEF RowsInv, PubOfSent
<1>12. PubOfSent'
  BY <1>1, <1>3, <1>8, <1>10, <1>11 DEF PubOfSent, Same
<1> QED
  BY <1>5, <1>9, <1>12 DEF RowsInv

\* A row of the analyser's file is read.
LEMMA RowsReadGot ==
  ASSUME BaseInv, RowsInv, ReadGot
  PROVE  RowsInv'
<1>1. /\ pc = "readGot" /\ i <= Len(got) /\ i' = i + 1
      /\ UNCHANGED <<sent, got, program, start, end, pc, pub>>
      /\ \/ UNCHANGED ana /\ ~InWindow(got[i])
         \/ ana' = Append(ana, got[i]) /\ InWindow(got[i])
  BY DEF ReadGot, files
<1>2. /\ i \in DOMAIN got /\ i \in Nat \ {0} /\ got[i] \in RowPairs /\ Len(got) \in Nat
      /\ DOMAIN got = 1 .. Len(got)
      /\ ana \in Seq(RowPairs) /\ Len(ana) \in Nat /\ DOMAIN ana = 1 .. Len(ana)
  BY <1>1, AllTyped DEF BaseInv, TypeOK
<1>3. /\ GotSeen = i - 1 /\ GotSeen' = i /\ SentSeen' = SentSeen /\ Counted' = Counted
      /\ \A k : Expected(k)' = Expected(k)
      /\ \A k \in Counted : k \in DOMAIN got /\ InWindow(got[k])
      /\ i \in Counted <=> InWindow(got[i])
  BY <1>1, <1>2 DEF SentSeen, GotSeen, Counted, Expected, InWindow
<1>4. PubOfSent' /\ InOrder'
  BY <1>1, <1>3 DEF RowsInv, PubOfSent, InOrder
<1>5. /\ \A j \in DOMAIN ana : \E k \in Counted : k <= i - 1 /\ ana[j] = got[k]
      /\ \A k \in Counted : k <= i - 1 => \E j \in DOMAIN ana : ana[j] = got[k]
  BY <1>1, <1>3 DEF RowsInv, AnaOfGot
<1>6. CASE UNCHANGED ana /\ ~InWindow(got[i])
  <2>1. \A k \in Counted : k <= i => k <= i - 1
    BY <1>2, <1>3, <1>6
  <2>2. \A j \in DOMAIN ana : \E k \in Counted : k <= i /\ ana[j] = got[k]
    BY <1>2, <1>3, <1>5
  <2>3. AnaOfGot'
    BY <1>1, <1>3, <1>5, <1>6, <2>1, <2>2 DEF AnaOfGot
  <2> QED
    BY <1>4, <2>3 DEF RowsInv
<1>7. CASE ana' = Append(ana, got[i]) /\ InWindow(got[i])
  <2>1. /\ ana' \in Seq(RowPairs) /\ Len(ana') = Len(ana) + 1
        /\ \A k \in 1 .. Len(ana) : ana'[k] = ana[k]
        /\ ana'[Len(ana) + 1] = got[i]
    BY <1>2, <1>7, AppendProperties
  <2>2. DOMAIN ana' = 1 .. Len(ana) + 1
    BY <2>1, LenProperties
  <2>3. ASSUME NEW j \in DOMAIN ana' PROVE \E k \in Counted : k <= i /\ ana'[j] = got[k]
    <3>1. CASE j \in DOMAIN ana
      <4>1. PICK k \in Counted : k <= i - 1 /\ ana[j] = got[k]
        BY <1>5, <3>1
      <4> QED
        BY <1>2, <1>3, <2>1, <3>1, <4>1
    <3>2. CASE j = Len(ana) + 1
      BY <1>2, <1>3, <1>7, <2>1, <3>2
    <3> QED
      BY <1>2, <2>2, <3>1, <3>2
  <2>4. ASSUME NEW k \in Counted, k <= i PROVE \E j \in DOMAIN ana' : ana'[j] = got[k]
    <3>1. CASE k = i
      BY <1>2, <2>1, <2>2, <3>1
    <3>2. CASE k <= i - 1
      <4>1. PICK j \in DOMAIN ana : ana[j] = got[k]
        BY <1>5, <3>2
      <4> QED
        BY <1>2, <2>1, <2>2, <4>1
    <3> QED
      BY <1>2, <1>3, <2>4, <3>1, <3>2
  <2>5. AnaOfGot'
    BY <1>1, <1>3, <2>3, <2>4 DEF AnaOfGot
  <2> QED
    BY <1>4, <2>5 DEF RowsInv
<1> QED
  BY <1>1, <1>6, <1>7

\* The rows of the analyser are sorted; report.py has some.
LEMMA RowsSortGot ==
  ASSUME BaseInv, RowsInv, SortGot
  PROVE  RowsInv'
<1>1. /\ pc = "readGot" /\ i > Len(got) /\ i' = 1
      /\ ana' \in Sorted(ana)
      /\ pc' = IF Observed /\ ana = << >> THEN "failed" ELSE "loss"
      /\ UNCHANGED <<sent, got, program, start, end, pub>>
  BY DEF SortGot, files
<1>2. /\ Len(got) \in Nat /\ i = Len(got) + 1
      /\ ana \in Seq(RowPairs) /\ Len(ana) \in Nat /\ DOMAIN ana = 1 .. Len(ana)
      /\ ana # << >> <=> Len(ana) # 0
  <2>1. Len(got) \in Nat /\ i \in Nat
    BY AllTyped DEF BaseInv, TypeOK
  <2> QED
    BY <1>1, <2>1, AllTyped DEF BaseInv, Progress
<1>3. /\ GotSeen = Len(got) /\ GotSeen' = Len(got) /\ SentSeen' = SentSeen
      /\ Counted' = Counted /\ \A k : Expected(k)' = Expected(k)
  BY <1>1, <1>2 DEF SentSeen, GotSeen, Counted, Expected, InWindow
<1>4. /\ ana' \in Seq(RowPairs) /\ Len(ana') = Len(ana)
      /\ \A j, l \in DOMAIN ana' : j < l => CmpRowPair(ana'[j], ana'[l]) <= 0
  BY <1>1, <1>2, SortedRows
<1>5. DOMAIN ana' = DOMAIN ana /\ (ana' # << >> <=> ana # << >>)
  BY <1>2, <1>4, PairsTyped
<1>6. \A j \in DOMAIN ana : /\ \E l \in DOMAIN ana : ana'[j] = ana[l]
                            /\ \E l \in DOMAIN ana : ana'[l] = ana[j]
  BY <1>1, <1>2, SortedFrom
<1>7. ASSUME NEW j \in DOMAIN ana'
      PROVE  \E k \in Counted : k <= Len(got) /\ ana'[j] = got[k]
  <2>1. PICK l \in DOMAIN ana : ana'[j] = ana[l]
    BY <1>5, <1>6
  <2> QED
    BY <1>3, <2>1 DEF RowsInv, AnaOfGot
<1>8. ASSUME NEW k \in Counted, k <= Len(got)
      PROVE  \E j \in DOMAIN ana' : ana'[j] = got[k]
  <2>1. PICK j \in DOMAIN ana : ana[j] = got[k]
    BY <1>1, <1>3, <1>8 DEF RowsInv, AnaOfGot
  <2>2. PICK l \in DOMAIN ana : ana'[l] = ana[j]
    BY <1>6
  <2> QED
    BY <1>5, <2>1, <2>2
<1>9. AnaOfGot'
  BY <1>1, <1>3, <1>5, <1>7, <1>8 DEF AnaOfGot, Observed
<1>10. PubOfSent'
  BY <1>1, <1>3 DEF RowsInv, PubOfSent
<1>11. InOrder'
  BY <1>1, <1>4 DEF RowsInv, InOrder
<1> QED
  BY <1>9, <1>10, <1>11 DEF RowsInv

\* The walks change no row.
LEMMA RowsWalk ==
  ASSUME RowsInv, WalkLoss \/ RestLost \/ WalkGaps \/ GapsDone
  PROVE  RowsInv'
<1>1. /\ UNCHANGED <<sent, got, program, start, end, pub, ana>>
      /\ pc \in {"loss", "gaps"} /\ pc' \in {pc, "gaps", "done"}
  BY DEF WalkLoss, RestLost, WalkGaps, GapsDone, files
<1>2. /\ GotSeen' = GotSeen /\ SentSeen' = SentSeen
      /\ Counted' = Counted /\ \A k : Expected(k)' = Expected(k)
  BY <1>1 DEF SentSeen, GotSeen, Counted, Expected, InWindow
<1> QED
  BY <1>1, <1>2 DEF RowsInv, PubOfSent, AnaOfGot, InOrder, Observed

\* No step breaks RowsInv.
LEMMA RowsInductive ==
  ASSUME BaseInv, BaseInv', RowsInv, [Next]_vars
  PROVE  RowsInv'
<1>1. CASE UNCHANGED vars
  BY <1>1 DEF RowsInv, PubOfSent, AnaOfGot, InOrder, SentSeen, GotSeen, Counted, Expected,
              Observed, InWindow, vars, files
<1>2. CASE Next
  BY <1>1, <1>2, RowsFiles, RowsReadSent, RowsSortSent, RowsReadGot, RowsSortGot, RowsWalk
  DEF Next, Reported
<1> QED
  BY <1>1, <1>2

\* What the arrays hold of the files, in every state.
LEMMA RowsInvariance == Spec => []RowsInv
<1>1. RowsInv /\ [BaseInv /\ BaseInv' /\ Next]_vars => RowsInv'
  BY RowsInductive DEF RowsInv, PubOfSent, AnaOfGot, InOrder, SentSeen, GotSeen, Counted,
                       Expected, Observed, InWindow, vars, files
<1> QED
  BY <1>1, RowsInitially, BaseInvariance, PTL DEF Spec

-----------------------------------------------------------------------------
(* The merge-walk.                                                         *)

\* The rows without a match, among the first of them.
LEMMA UnmatchedType ==
  ASSUME NEW n \in Nat
  PROVE  /\ IsFiniteSet(Unmatched(n)) /\ Cardinality(Unmatched(n)) \in Nat
         /\ Unmatched(0) = {} /\ Cardinality(Unmatched(0)) = 0
<1>1. IsFiniteSet(1 .. n)
  BY FS_Interval
<1>2. IsFiniteSet(Unmatched(n))
  BY <1>1, FS_Subset DEF Unmatched
<1>3. Unmatched(0) = {}
  BY DEF Unmatched
<1> QED
  BY <1>2, <1>3, FS_CardinalityType, FS_EmptySet

\* One more row has been passed: it is counted if it has no match.
LEMMA UnmatchedNext ==
  ASSUME NEW n \in Nat \ {0}
  PROVE  /\ Matched(n) => Unmatched(n) = Unmatched(n - 1)
         /\ ~Matched(n) => Cardinality(Unmatched(n)) = Cardinality(Unmatched(n - 1)) + 1
<1>1. CASE Matched(n)
  BY <1>1 DEF Unmatched
<1>2. CASE ~Matched(n)
  <2>1. Unmatched(n) = Unmatched(n - 1) \cup {n} /\ n \notin Unmatched(n - 1)
    BY <1>2 DEF Unmatched
  <2>2. IsFiniteSet(Unmatched(n - 1))
    BY UnmatchedType
  <2> QED
    BY <1>2, <2>1, <2>2, FS_AddElement
<1> QED
  BY <1>1, <1>2

\* The rest of the rows are counted when none of them has a match.
LEMMA UnmatchedRest ==
  ASSUME NEW n \in Nat, NEW m \in Nat, m <= n, \A k \in m + 1 .. n : ~Matched(k)
  PROVE  Cardinality(Unmatched(n)) = Cardinality(Unmatched(m)) + (n - m)
<1>1. /\ Unmatched(n) = Unmatched(m) \cup (m + 1 .. n)
      /\ Unmatched(m) \cap (m + 1 .. n) = {}
  BY DEF Unmatched
<1>2. IsFiniteSet(m + 1 .. n) /\ Cardinality(m + 1 .. n) = n - m
  <2>1. m + 1 \in Int /\ n \in Int
    OBVIOUS
  <2>2. /\ IsFiniteSet(m + 1 .. n)
        /\ Cardinality(m + 1 .. n) = IF m + 1 > n THEN 0 ELSE n - (m + 1) + 1
    BY <2>1, FS_Interval
  <2> QED
    BY <2>2
<1>3. IsFiniteSet(Unmatched(m)) /\ Cardinality(Unmatched(m)) \in Nat
  BY UnmatchedType
<1>4. Cardinality(Unmatched(n)) = Cardinality(Unmatched(m)) + (n - m) - Cardinality({})
  BY <1>1, <1>2, <1>3, FS_Union
<1> QED
  BY <1>3, <1>4, FS_EmptySet

\* A turn of the walk: the row it passes is counted just when no row equals it.
LEMMA WalkTurn ==
  ASSUME BaseInv, RowsInv, WalkInv, WalkLoss
  PROVE  WalkInv'
<1> DEFINE cmp == CmpRowPair(pub[i], ana[ai])
<1>1. /\ pc = "loss" /\ pc' = "loss" /\ i <= Len(pub) /\ ai <= Len(ana)
      /\ i' = (IF cmp <= 0 THEN i + 1 ELSE i)
      /\ ai' = (IF cmp >= 0 THEN ai + 1 ELSE ai)
      /\ loss' = (IF cmp < 0 THEN loss + 1 ELSE loss)
      /\ UNCHANGED <<pub, ana>>
  BY DEF WalkLoss
<1>2. /\ i \in DOMAIN pub /\ ai \in DOMAIN ana /\ i \in Nat \ {0} /\ ai \in Nat \ {0}
      /\ Len(pub) \in Nat /\ DOMAIN pub = 1 .. Len(pub)
      /\ Len(ana) \in Nat /\ DOMAIN ana = 1 .. Len(ana)
      /\ \A k \in DOMAIN pub : pub[k] \in RowPairs
      /\ \A k \in DOMAIN ana : ana[k] \in RowPairs
  <2>1. i \in Nat \ {0} /\ ai \in Nat \ {0}
    BY DEF BaseInv, TypeOK
  <2> QED
    BY <1>1, <2>1, AllTyped DEF BaseInv
<1>3. /\ loss = Cardinality(Unmatched(i - 1))
      /\ \A k \in DOMAIN pub, l \in DOMAIN ana :
           k >= i /\ l < ai => CmpRowPair(pub[k], ana[l]) > 0
  BY <1>1 DEF WalkInv
<1>4. /\ \A k, l \in DOMAIN pub : k < l => CmpRowPair(pub[k], pub[l]) < 0
      /\ \A k, l \in DOMAIN ana : k < l => CmpRowPair(ana[k], ana[l]) <= 0
  BY <1>1 DEF RowsInv, InOrder
<1>5. \A n : Unmatched(n)' = Unmatched(n)
  BY <1>1 DEF Unmatched, Matched
<1>6. cmp \in {-1, 0, 1} /\ (cmp = 0 <=> Same(pub[i], ana[ai]))
  BY <1>2, RowOrder
<1>7. ASSUME NEW k \in DOMAIN pub, k >= i
      PROVE  CmpRowPair(pub[i], pub[k]) <= 0 /\ (k > i => CmpRowPair(pub[i], pub[k]) < 0)
  <2>1. CASE k = i
    <3>1. pub[i] \in RowPairs
      BY <1>2
    <3> QED
      BY <1>2, <2>1, <3>1, RowOrder DEF Same
  <2>2. CASE k > i
    <3>1. CmpRowPair(pub[i], pub[k]) < 0 /\ pub[i] \in RowPairs /\ pub[k] \in RowPairs
      BY <1>2, <1>4, <2>2
    <3>2. CmpRowPair(pub[i], pub[k]) \in {-1, 0, 1}
      BY <3>1, RowOrder
    <3> QED
      BY <3>1, <3>2
  <2> QED
    BY <1>2, <1>7, <2>1, <2>2
<1> HIDE DEF cmp
<1>8. CASE cmp < 0
  <2>1. ASSUME NEW l \in DOMAIN ana PROVE ~Same(pub[i], ana[l])
    <3>1. pub[i] \in RowPairs /\ ana[l] \in RowPairs /\ ana[ai] \in RowPairs
      BY <1>2
    <3>2. CASE l < ai
      BY <1>2, <1>3, <3>1, <3>2, RowOrder
    <3>3. CASE l = ai
      BY <1>6, <1>8, <3>3
    <3>4. CASE l > ai
      <4>1. CmpRowPair(ana[ai], ana[l]) <= 0
        BY <1>2, <1>4, <3>4
      <4>2. CmpRowPair(pub[i], ana[l]) < 0
        BY <1>8, <3>1, <4>1, RowOrder DEF cmp
      <4> QED
        BY <3>1, <4>2, RowOrder
    <3> QED
      BY <1>2, <3>2, <3>3, <3>4
  <2>2. ~Matched(i)
    BY <2>1 DEF Matched
  <2>3. i' = i + 1 /\ ai' = ai /\ loss' = loss + 1
    BY <1>1, <1>6, <1>8
  <2>4. loss' = Cardinality(Unmatched(i' - 1))
    <3>1. Cardinality(Unmatched(i)) = Cardinality(Unmatched(i - 1)) + 1 /\ i' - 1 = i
      BY <1>2, <2>2, <2>3, UnmatchedNext
    <3> QED
      BY <1>3, <2>3, <3>1
  <2>5. \A k \in DOMAIN pub, l \in DOMAIN ana :
          k >= i' /\ l < ai' => CmpRowPair(pub[k], ana[l]) > 0
    BY <1>2, <1>3, <2>3
  <2> QED
    BY <1>1, <1>5, <2>4, <2>5 DEF WalkInv
<1>9. CASE cmp >= 0
  <2>1. \A k \in DOMAIN pub : k >= i' => k >= i /\ (cmp = 0 => k > i)
    BY <1>1, <1>2, <1>6
  <2>2. ASSUME NEW k \in DOMAIN pub, k >= i'
        PROVE  CmpRowPair(pub[k], ana[ai]) > 0
    <3>1. pub[k] \in RowPairs /\ pub[i] \in RowPairs /\ ana[ai] \in RowPairs
      BY <1>2
    <3>2. CmpRowPair(ana[ai], pub[i]) <= 0
      BY <1>9, <3>1, RowOrder DEF cmp
    <3>3. CmpRowPair(ana[ai], pub[k]) < 0
      <4>1. CASE cmp = 0
        <5>1. CmpRowPair(pub[i], pub[k]) < 0
          BY <1>7, <2>1, <2>2, <4>1
        <5> QED
          BY <3>1, <3>2, <5>1, RowOrder
      <4>2. CASE cmp > 0
        <5>1. CmpRowPair(pub[i], pub[k]) <= 0
          BY <1>7, <2>1, <2>2
        <5>2. CmpRowPair(ana[ai], pub[i]) < 0
          BY <3>1, <4>2, RowOrder DEF cmp
        <5> QED
          BY <3>1, <5>1, <5>2, RowOrder
      <4> QED
        BY <1>6, <1>9, <4>1, <4>2
    <3> QED
      BY <3>1, <3>3, RowOrder
  <2>3. \A k \in DOMAIN pub, l \in DOMAIN ana :
          k >= i' /\ l < ai' => CmpRowPair(pub[k], ana[l]) > 0
    <3> SUFFICES ASSUME NEW k \in DOMAIN pub, NEW l \in DOMAIN ana, k >= i', l < ai'
                 PROVE  CmpRowPair(pub[k], ana[l]) > 0
      OBVIOUS
    <3>1. ai' = ai + 1
      BY <1>1, <1>9
    <3>2. CASE l = ai
      BY <2>2, <3>2
    <3>3. CASE l < ai
      BY <1>3, <2>1, <3>3
    <3> QED
      BY <1>2, <3>1, <3>2, <3>3
  <2>4. loss' = Cardinality(Unmatched(i' - 1))
    <3>1. CASE cmp = 0
      <4>1. Matched(i)
        BY <1>2, <1>6, <3>1 DEF Matched
      <4>2. Unmatched(i) = Unmatched(i - 1) /\ i' - 1 = i /\ loss' = loss
        BY <1>1, <1>2, <3>1, <4>1, UnmatchedNext
      <4> QED
        BY <1>3, <4>2
    <3>2. CASE cmp > 0
      BY <1>1, <1>3, <1>6, <3>2
    <3> QED
      BY <1>6, <1>9, <3>1, <3>2
  <2> QED
    BY <1>1, <1>5, <2>3, <2>4 DEF WalkInv
<1> QED
  BY <1>6, <1>8, <1>9

\* The walk ends: the rows that are left have no match.
LEMMA WalkEnd ==
  ASSUME BaseInv, RowsInv, WalkInv, RestLost
  PROVE  WalkInv'
<1>1. /\ pc = "loss" /\ pc' = "gaps" /\ (i > Len(pub) \/ ai > Len(ana))
      /\ loss' = loss + (Len(pub) - i + 1) /\ UNCHANGED <<pub, ana>>
  BY DEF RestLost, Rest
<1>2. /\ i \in Nat \ {0} /\ ai \in Nat \ {0} /\ i <= Len(pub) + 1
      /\ Len(pub) \in Nat /\ DOMAIN pub = 1 .. Len(pub)
      /\ Len(ana) \in Nat /\ DOMAIN ana = 1 .. Len(ana)
      /\ \A k \in DOMAIN pub : pub[k] \in RowPairs
      /\ \A k \in DOMAIN ana : ana[k] \in RowPairs
  <2>1. i \in Nat \ {0} /\ ai \in Nat \ {0} /\ i <= Len(pub) + 1
    BY <1>1 DEF BaseInv, TypeOK, Progress
  <2> QED
    BY <1>1, <2>1, AllTyped DEF BaseInv
<1>3. /\ loss = Cardinality(Unmatched(i - 1))
      /\ \A k \in DOMAIN pub, l \in DOMAIN ana :
           k >= i /\ l < ai => CmpRowPair(pub[k], ana[l]) > 0
  BY <1>1 DEF WalkInv
<1>4. ASSUME NEW k \in (i - 1) + 1 .. Len(pub) PROVE ~Matched(k)
  <2>1. SUFFICES ASSUME NEW l \in DOMAIN ana PROVE ~Same(pub[k], ana[l])
    BY DEF Matched
  <2>2. k \in DOMAIN pub /\ k >= i /\ l < ai
    BY <1>1, <1>2
  <2>3. CmpRowPair(pub[k], ana[l]) > 0 /\ pub[k] \in RowPairs /\ ana[l] \in RowPairs
    BY <1>2, <1>3, <2>2
  <2> QED
    BY <2>3, RowOrder
<1>5. i - 1 \in Nat /\ i - 1 <= Len(pub)
  BY <1>2
<1>6. Cardinality(Unmatched(Len(pub))) = Cardinality(Unmatched(i - 1)) + (Len(pub) - (i - 1))
  BY <1>2, <1>4, <1>5, UnmatchedRest
<1>7. \A n : Unmatched(n)' = Unmatched(n)
  BY <1>1 DEF Unmatched, Matched
<1>8. loss' = Cardinality(Unmatched(Len(pub)))
  <2>1. Cardinality(Unmatched(i - 1)) \in Nat
    BY <1>5, UnmatchedType
  <2> QED
    BY <1>1, <1>2, <1>3, <1>6, <2>1
<1> QED
  BY <1>1, <1>7, <1>8 DEF WalkInv

\* No step breaks WalkInv.
LEMMA WalkInductive ==
  ASSUME BaseInv, RowsInv, WalkInv, [Next]_vars
  PROVE  WalkInv'
<1>1. CASE UNCHANGED <<pc, i, ai, pub, ana, loss>>
  <2>1. \A n : Unmatched(n)' = Unmatched(n)
    BY <1>1 DEF Unmatched, Matched
  <2> QED
    BY <1>1, <2>1 DEF WalkInv
<1>2. CASE PublishNext \/ Receive \/ LeaveOut \/ TakeWindow \/ ReadSent \/ SortSent \/ ReadGot
  <2>1. pc' \notin {"loss", "gaps", "done"}
    BY <1>2 DEF PublishNext, Publish, Receive, LeaveOut, TakeWindow, ReadSent, SortSent, ReadGot
  <2> QED
    BY <2>1 DEF WalkInv
<1>3. CASE SortGot
  <2>1. /\ pc = "readGot" /\ pc' \in {"failed", "loss"} /\ i' = 1 /\ ai' = 1 /\ loss' = 0
    BY <1>3 DEF SortGot, counts, BaseInv, Progress
  <2>2. Unmatched(0)' = {} /\ Cardinality({}) = 0
    BY FS_EmptySet DEF Unmatched
  <2>3. \A l \in DOMAIN ana' : ~(l < ai')
    <3>1. ana \in Seq(RowPairs) /\ ana' \in Sorted(ana)
      BY <1>3, AllTyped DEF SortGot, BaseInv
    <3>2. ana' \in Seq(RowPairs)
      BY <3>1, SortedRows
    <3>3. Len(ana') \in Nat /\ DOMAIN ana' = 1 .. Len(ana')
      BY <3>2, PairsTyped
    <3> QED
      BY <2>1, <3>3
  <2>4. i' - 1 = 0
    BY <2>1
  <2> QED
    BY <2>1, <2>2, <2>3, <2>4 DEF WalkInv
<1>4. CASE WalkGaps \/ GapsDone
  <2>1. /\ pc = "gaps" /\ pc' \in {"gaps", "done"} /\ UNCHANGED <<pub, ana, loss>>
    BY <1>4 DEF WalkGaps, GapsDone
  <2>2. \A n : Unmatched(n)' = Unmatched(n)
    BY <2>1 DEF Unmatched, Matched
  <2> QED
    BY <2>1, <2>2 DEF WalkInv
<1> QED
  BY <1>1, <1>2, <1>3, <1>4, WalkTurn, WalkEnd
  DEF Next, Reported, vars, counts

\* What the walk has counted, in every state.
LEMMA WalkInvariance == Spec => []WalkInv
<1>1. Init => WalkInv
  BY DEF Init, WalkInv
<1>2. WalkInv /\ [BaseInv /\ RowsInv /\ Next]_vars => WalkInv'
  <2>1. WalkInv /\ UNCHANGED vars => WalkInv'
    BY DEF WalkInv, Unmatched, Matched, vars, counts
  <2> QED
    BY <2>1, WalkInductive
<1> QED
  BY <1>1, <1>2, BaseInvariance, RowsInvariance, PTL DEF Spec

\* The rows without a match are those of the messages that are lost.
LEMMA LostAreUnmatched ==
  ASSUME BaseInv, RowsInv, Done
  PROVE  Cardinality({k \in Lost : InWindow(sent[k])}) = Cardinality(Unmatched(Len(pub)))
<1> DEFINE L == {k \in Lost : InWindow(sent[k])}
           U == Unmatched(Len(pub))
           f == [k \in L |-> CHOOSE j \in DOMAIN pub : Same(pub[j], sent[k])]
<1>1. /\ DOMAIN sent = 1 .. Len(sent) /\ Len(sent) \in Nat
      /\ DOMAIN pub = 1 .. Len(pub) /\ Len(pub) \in Nat
      /\ DOMAIN got = 1 .. Len(got) /\ Len(got) \in Nat
      /\ SentSeen = Len(sent) /\ GotSeen = Len(got) /\ pc = "done"
  BY SentTyped, AllTyped DEF BaseInv, SentSeen, GotSeen, Done
<1>2. /\ \A j \in DOMAIN pub : \E k \in DOMAIN sent : Expected(k) /\ Same(pub[j], sent[k])
      /\ \A k \in DOMAIN sent : Expected(k) => \E j \in DOMAIN pub : Same(pub[j], sent[k])
      /\ \A j, l \in DOMAIN pub : Same(pub[j], pub[l]) => j = l
  BY <1>1 DEF RowsInv, PubOfSent
<1>3. /\ \A j \in DOMAIN ana : \E k \in Counted : ana[j] = got[k]
      /\ \A k \in Counted : \E j \in DOMAIN ana : ana[j] = got[k]
  <2>1. \A k \in Counted : k <= GotSeen
    BY <1>1 DEF Counted
  <2> QED
    BY <1>1, <2>1 DEF RowsInv, AnaOfGot
<1>4. \A k : k \in L <=> k \in DOMAIN sent /\ Expected(k) /\ ~Received(sent[k])
  BY DEF Lost, Accepted, Expected
<1>5. \A j : j \in U <=> j \in DOMAIN pub /\ ~Matched(j)
  BY <1>1 DEF Unmatched
<1>6. ASSUME NEW j \in DOMAIN pub, NEW k \in DOMAIN sent, Expected(k), Same(pub[j], sent[k])
      PROVE  Matched(j) <=> Received(sent[k])
  <2>1. ASSUME Matched(j) PROVE Received(sent[k])
    <3>1. PICK l \in DOMAIN ana : Same(pub[j], ana[l])
      BY <2>1 DEF Matched
    <3>2. PICK h \in Counted : ana[l] = got[h]
      BY <1>3
    <3> QED
      BY <1>6, <3>1, <3>2 DEF Same, Received, Counted
  <2>2. ASSUME Received(sent[k]) PROVE Matched(j)
    <3>1. PICK h \in DOMAIN got : got[h].counter = sent[k].counter /\ got[h].pub_ts = sent[k].pub_ts
      BY <2>2 DEF Received
    <3>2. h \in Counted
      BY <1>6, <3>1 DEF Expected, InWindow, Counted
    <3>3. PICK l \in DOMAIN ana : ana[l] = got[h]
      BY <1>3, <3>2
    <3> QED
      BY <1>6, <3>1, <3>3 DEF Same, Matched
  <2> QED
    BY <2>1, <2>2
<1>7. \A k \in L : f[k] \in DOMAIN pub /\ Same(pub[f[k]], sent[k])
  <2> SUFFICES ASSUME NEW k \in L PROVE f[k] \in DOMAIN pub /\ Same(pub[f[k]], sent[k])
    OBVIOUS
  <2>1. \E j \in DOMAIN pub : Same(pub[j], sent[k])
    BY <1>2, <1>4
  <2>2. f[k] = CHOOSE j \in DOMAIN pub : Same(pub[j], sent[k])
    OBVIOUS
  <2> QED
    BY <2>1, <2>2
<1>8. f = [k \in L |-> f[k]]
  OBVIOUS
<1> HIDE DEF L, U, f
<1>9. f \in [L -> U]
  <2>1. ASSUME NEW k \in L PROVE f[k] \in U
    BY <1>4, <1>5, <1>6, <1>7
  <2> QED
    BY <1>8, <2>1
<1>10. ASSUME NEW k \in L, NEW h \in L, f[k] = f[h] PROVE k = h
  <2>1. Same(sent[k], sent[h])
    BY <1>7, <1>10 DEF Same
  <2> QED
    BY <1>4, <2>1, SentOnce
<1>11. ASSUME NEW j \in U PROVE \E k \in L : f[k] = j
  <2>1. PICK k \in DOMAIN sent : Expected(k) /\ Same(pub[j], sent[k])
    BY <1>2, <1>5
  <2>2. k \in L
    BY <1>4, <1>5, <1>6, <2>1
  <2>3. Same(pub[f[k]], pub[j])
    BY <1>7, <2>1, <2>2 DEF Same
  <2> QED
    BY <1>2, <1>5, <1>7, <2>2, <2>3
<1>12. f \in Bijection(L, U)
  BY <1>9, <1>10, <1>11, Fun_IsBij
<1>13. ExistsBijection(L, U)
  BY <1>12, Fun_ExistsBij
<1>14. IsFiniteSet(L)
  <2>1. Len(sent) \in Int /\ 1 \in Int /\ DOMAIN sent = 1 .. Len(sent)
    BY <1>1
  <2>2. IsFiniteSet(1 .. Len(sent))
    BY <2>1, FS_Interval
  <2>3. L \in SUBSET (1 .. Len(sent))
    BY <1>4, <2>1
  <2> QED
    BY <2>2, <2>3, FS_Subset
<1>15. Cardinality(U) = Cardinality(L)
  <2>1. \A S, T : IsFiniteSet(S) /\ ExistsBijection(S, T) => Cardinality(T) = Cardinality(S)
    BY FS_Bijection
  <2> QED
    BY <1>13, <1>14, <2>1
<1> QED
  BY <1>15 DEF L, U

\* For files of every length: the lost messages that the merge-walk reports are the accepted
\* messages of the window that never arrived.
THEOREM LossesCounted == Spec => []LossExact
<1>1. BaseInv /\ RowsInv /\ WalkInv => LossExact
  BY LostAreUnmatched DEF WalkInv, LossExact, Done
<1> QED
  BY <1>1, BaseInvariance, RowsInvariance, WalkInvariance, PTL

\* For files of every length: report.py never reports that everything was lost.
THEOREM SomethingArrived == Spec => []NeverTotalLoss
<1>1. ASSUME BaseInv, RowsInv, WalkInv, Observed, Done PROVE loss < successes
  <2>1. /\ DOMAIN pub = 1 .. Len(pub) /\ Len(pub) \in Nat /\ successes = Len(pub)
        /\ DOMAIN ana = 1 .. Len(ana) /\ Len(ana) \in Nat /\ (ana # << >> <=> Len(ana) # 0)
        /\ DOMAIN sent = 1 .. Len(sent) /\ Len(sent) \in Nat
        /\ SentSeen = Len(sent) /\ pc = "done"
    BY <1>1, SentTyped, AllTyped DEF BaseInv, Progress, SentSeen, Done
  <2>2. 1 \in DOMAIN ana
    BY <1>1, <2>1 DEF RowsInv, AnaOfGot
  <2>3. PICK k \in Counted : ana[1] = got[k]
    BY <1>1, <2>2 DEF RowsInv, AnaOfGot
  <2>4. k \in DOMAIN got /\ InWindow(got[k])
    BY DEF Counted
  <2>5. PICK l \in DOMAIN sent : sent[l].rc = 0 /\ Same(got[k], sent[l])
    BY <1>1, <2>4 DEF BaseInv, GotOfSent
  <2>6. Expected(l)
    BY <2>4, <2>5 DEF Expected, InWindow, Same
  <2>7. PICK j \in DOMAIN pub : Same(pub[j], sent[l])
    BY <1>1, <2>1, <2>6 DEF RowsInv, PubOfSent
  <2>8. Matched(j)
    BY <2>2, <2>3, <2>5, <2>7 DEF Matched, Same
  <2>9. Unmatched(Len(pub)) \subseteq (1 .. Len(pub)) \ {j}
    BY <2>8 DEF Unmatched
  <2>10. IsFiniteSet(1 .. Len(pub)) /\ Cardinality(1 .. Len(pub)) = Len(pub)
    <3>1. /\ IsFiniteSet(1 .. Len(pub))
          /\ Cardinality(1 .. Len(pub)) = IF 1 > Len(pub) THEN 0 ELSE Len(pub) - 1 + 1
      <4>1. 1 \in Int /\ Len(pub) \in Int
        BY <2>1
      <4> QED
        BY <4>1, FS_Interval
    <3> QED
      BY <2>1, <3>1
  <2>11. /\ IsFiniteSet((1 .. Len(pub)) \ {j})
         /\ Cardinality((1 .. Len(pub)) \ {j}) = Len(pub) - 1
    <3>1. j \in 1 .. Len(pub)
      BY <2>1
    <3>2. /\ IsFiniteSet((1 .. Len(pub)) \ {j})
          /\ Cardinality((1 .. Len(pub)) \ {j}) =
               IF j \in 1 .. Len(pub) THEN Cardinality(1 .. Len(pub)) - 1
                                      ELSE Cardinality(1 .. Len(pub))
      BY <2>10, FS_RemoveElement
    <3> QED
      BY <2>10, <3>1, <3>2
  <2>12. Cardinality(Unmatched(Len(pub))) <= Len(pub) - 1
    <3>1. Cardinality(Unmatched(Len(pub))) <= Cardinality((1 .. Len(pub)) \ {j})
      BY <2>9, <2>11, FS_Subset
    <3> QED
      BY <2>11, <3>1
  <2>13. loss = Cardinality(Unmatched(Len(pub))) /\ loss \in Nat
    BY <1>1, <2>1, UnmatchedType DEF WalkInv
  <2> QED
    BY <2>1, <2>12, <2>13
<1>2. BaseInv /\ RowsInv /\ WalkInv => NeverTotalLoss
  BY <1>1 DEF NeverTotalLoss
<1> QED
  BY <1>2, BaseInvariance, RowsInvariance, WalkInvariance, PTL

-----------------------------------------------------------------------------
(* Disorder and duplicates.                                                *)

\* There are finitely many repeated rows, and no fewer when more have been read.
LEMMA RepeatsFinite ==
  ASSUME BaseInv, NEW n \in Int, NEW m \in Int, n <= m
  PROVE  /\ IsFiniteSet(RepeatsSeen(n)) /\ Cardinality(RepeatsSeen(n)) \in Nat
         /\ IsFiniteSet(RepeatsSeen(m)) /\ Cardinality(RepeatsSeen(m)) \in Nat
         /\ Cardinality(RepeatsSeen(n)) <= Cardinality(RepeatsSeen(m))
<1>1. Len(got) \in Int /\ 1 \in Int /\ DOMAIN got = 1 .. Len(got)
  BY AllTyped DEF BaseInv
<1>2. IsFiniteSet(1 .. Len(got))
  BY <1>1, FS_Interval
<1>3. RepeatsSeen(m) \in SUBSET (1 .. Len(got))
  BY <1>1 DEF RepeatsSeen, Repeats, Counted
<1>4. IsFiniteSet(RepeatsSeen(m))
  BY <1>2, <1>3, FS_Subset
<1>5. RepeatsSeen(n) \in SUBSET RepeatsSeen(m)
  <2>1. \A l \in Repeats : l \in Int
    BY <1>1 DEF Repeats, Counted
  <2>2. ASSUME NEW l \in Repeats, l <= n PROVE l <= m
    BY <2>1, <2>2
  <2> QED
    BY <2>2 DEF RepeatsSeen
<1>6. /\ IsFiniteSet(RepeatsSeen(n))
      /\ Cardinality(RepeatsSeen(n)) <= Cardinality(RepeatsSeen(m))
  BY <1>4, <1>5, FS_Subset
<1> QED
  BY <1>4, <1>6, FS_CardinalityType

\* Nothing has been read of the analyser's file.
LEMMA ArrivalStart == BaseInv /\ GotSeen = 0 => ArrivalInv
<1> SUFFICES ASSUME BaseInv, GotSeen = 0 PROVE ArrivalInv
  OBVIOUS
<1>1. ooo = 0 /\ dup = 0 /\ ana = << >>
  <2>1. ooo \in Nat /\ dup \in Nat /\ ooo <= 0 /\ dup <= 0 /\ Len(ana) <= 0
    BY DEF BaseInv, TypeOK, Progress
  <2> QED
    BY <2>1, AllTyped DEF BaseInv
<1>2. \A l \in Counted : l \in Nat /\ l > 0
  BY AllTyped DEF BaseInv, Counted
<1>3. Ascending(0)
  BY <1>2 DEF Ascending
<1>4. Cardinality(RepeatsSeen(0)) \in Nat
  BY RepeatsFinite
<1> QED
  BY <1>1, <1>3, <1>4 DEF ArrivalInv

\* The same, of the state after a step.
LEMMA ArrivalStarts == (BaseInv /\ GotSeen = 0)' => ArrivalInv'
  BY ArrivalStart, PTL

\* The test is left out before a row is read.
LEMMA ArrivalFailed ==
  ASSUME BaseInv, BaseInv', SortSent
  PROVE  ArrivalInv'
<1>1. /\ pc = "readSent" /\ pc' \in {"failed", "readGot"} /\ i' = 1
      /\ UNCHANGED <<ana, ooo, dup, got, start, end>>
  BY DEF SortSent, files
<1>2. CASE pc' = "readGot"
  <2>1. (GotSeen = 0)'
    BY <1>1, <1>2 DEF GotSeen
  <2> QED
    BY <2>1, ArrivalStarts
<1>3. CASE pc' = "failed"
  <2>1. dup' = 0
    BY <1>1 DEF BaseInv, TypeOK, Progress, GotSeen
  <2>2. Len(got) \in Int
    BY AllTyped DEF BaseInv
  <2>3. Cardinality(RepeatsSeen(Len(got))) \in Nat
    BY <2>2, RepeatsFinite, Len(got) <= Len(got)
  <2>4. GotSeen' = Len(got)
    BY <1>1, <1>3 DEF GotSeen
  <2>5. RepeatsSeen(Len(got))' = RepeatsSeen(Len(got))
    BY <1>1 DEF RepeatsSeen, Repeats, Counted, InWindow
  <2> QED
    BY <1>1, <1>3, <2>1, <2>3, <2>4, <2>5 DEF ArrivalInv
<1> QED
  BY <1>1, <1>2, <1>3

\* A row is compared with the last one read, which is the one that arrived last.
LEMMA ArrivalReadGot ==
  ASSUME BaseInv, RowsInv, ArrivalInv, ReadGot
  PROVE  ArrivalInv'
<1>1. /\ pc = "readGot" /\ i <= Len(got) /\ i' = i + 1 /\ pc' = pc
      /\ UNCHANGED <<got, start, end>>
  BY DEF ReadGot, files
<1>2. /\ i \in Nat \ {0} /\ i \in DOMAIN got /\ got[i] \in RowPairs
      /\ Len(got) \in Nat /\ DOMAIN got = 1 .. Len(got)
      /\ \A k \in DOMAIN got : got[k].counter \in Nat /\ got[k].pub_ts \in Nat
      /\ ana \in Seq(RowPairs) /\ Len(ana) \in Nat /\ DOMAIN ana = 1 .. Len(ana)
      /\ (ana # << >> <=> Len(ana) # 0) /\ ooo \in Nat /\ dup \in Nat
  BY <1>1, AllTyped DEF BaseInv, TypeOK
<1>3. /\ GotSeen = i - 1 /\ GotSeen' = i
      /\ Counted' = Counted /\ Repeats' = Repeats
      /\ \A k \in Counted : k \in DOMAIN got /\ k \in Int
      /\ i \in Counted <=> InWindow(got[i])
  BY <1>1, <1>2 DEF GotSeen, Counted, Repeats, InWindow
<1>4. \A n : Ascending(n)' = Ascending(n) /\ RepeatsSeen(n)' = RepeatsSeen(n)
  BY <1>1, <1>3 DEF Ascending, RepeatsSeen
<1>5. /\ ooo = 0 <=> Ascending(i - 1)
      /\ dup <= Cardinality(RepeatsSeen(i - 1))
  BY <1>1, <1>3 DEF ArrivalInv
<1>6. /\ IsFiniteSet(RepeatsSeen(i - 1))
      /\ Cardinality(RepeatsSeen(i - 1)) \in Nat /\ Cardinality(RepeatsSeen(i)) \in Nat
      /\ Cardinality(RepeatsSeen(i - 1)) <= Cardinality(RepeatsSeen(i))
  BY <1>2, RepeatsFinite, i - 1 \in Int, i \in Int, i - 1 <= i
<1>7. CASE ~InWindow(got[i])
  <2>1. UNCHANGED <<ooo, dup, ana>>
    BY <1>7 DEF ReadGot
  <2>2. \A l \in Counted : l <= i <=> l <= i - 1
    BY <1>2, <1>3, <1>7
  <2>3. Ascending(i) <=> Ascending(i - 1)
    BY <2>2 DEF Ascending
  <2>4. ana # << >> => \E k \in Counted : /\ k <= i /\ ana[Len(ana)] = got[k]
                                          /\ \A l \in Counted : l <= i => l <= k
    BY <1>1, <2>2 DEF ArrivalInv
  <2>5. dup <= Cardinality(RepeatsSeen(i))
    BY <1>2, <1>5, <1>6
  <2>6. i' - 1 = i
    BY <1>1, <1>2
  <2> QED
    BY <1>1, <1>3, <1>4, <1>5, <2>1, <2>3, <2>4, <2>5, <2>6 DEF ArrivalInv
<1>8. CASE InWindow(got[i])
  <2>1. /\ ana' = Append(ana, got[i])
        /\ ooo' = IF ana # << >> /\ OutOfOrder(got[i], ana[Len(ana)]) THEN ooo + 1 ELSE ooo
        /\ dup' = IF ana # << >> /\ Duplicate(got[i], ana[Len(ana)]) THEN dup + 1 ELSE dup
    BY <1>8 DEF ReadGot
  <2>2. Len(ana') = Len(ana) + 1 /\ ana'[Len(ana')] = got[i]
    BY <1>2, <2>1, AppendProperties
  <2>3. i \in Counted /\ i' - 1 = i
    BY <1>1, <1>2, <1>3, <1>8
  <2>4. \E k \in Counted : /\ k <= i' - 1 /\ ana'[Len(ana')] = got'[k]
                           /\ \A l \in Counted : l <= i' - 1 => l <= k
    BY <1>1, <1>2, <2>2, <2>3
  <2>5. Ascending(i) => Ascending(i - 1)
    BY <1>2, <1>3 DEF Ascending
  <2>6. CASE ana = << >>
    <3>1. \A k \in Counted : ~(k <= i - 1)
      BY <1>1, <1>2, <1>3, <2>6 DEF RowsInv, AnaOfGot
    <3>2. Ascending(i)
      BY <1>2, <1>3, <3>1 DEF Ascending
    <3>3. (ooo' = 0 <=> Ascending(i)) /\ dup' <= Cardinality(RepeatsSeen(i))
      BY <1>2, <1>5, <1>6, <2>1, <2>5, <2>6, <3>2
    <3> QED
      BY <1>1, <1>3, <1>4, <2>4, <3>3 DEF ArrivalInv
  <2>7. CASE ana # << >>
    <3>1. PICK h \in Counted : /\ h <= i - 1 /\ ana[Len(ana)] = got[h]
                               /\ \A l \in Counted : l <= i - 1 => l <= h
      BY <1>1, <2>7 DEF ArrivalInv
    <3>2. /\ h \in DOMAIN got /\ h \in Int /\ h < i /\ got[h].counter \in Nat
          /\ got[i].counter \in Nat
      BY <1>2, <1>3, <3>1
    <3>3. /\ ooo' = IF got[i].counter < got[h].counter THEN ooo + 1 ELSE ooo
          /\ dup' = IF Duplicate(got[i], got[h]) THEN dup + 1 ELSE dup
      BY <2>1, <2>7, <3>1 DEF OutOfOrder
    <3>4. ooo' = 0 <=> Ascending(i)
      <4>1. CASE got[i].counter < got[h].counter
        <5>1. ~Ascending(i)
          BY <1>2, <2>3, <3>2, <4>1 DEF Ascending
        <5> QED
          BY <1>2, <3>3, <4>1, <5>1
      <4>2. CASE ~(got[i].counter < got[h].counter)
        <5>1. ASSUME Ascending(i - 1), NEW k \in Counted, NEW l \in Counted, k < l, l <= i
              PROVE  got[k].counter <= got[l].counter
          <6>1. k \in DOMAIN got /\ l \in DOMAIN got /\ k \in Int /\ l \in Int
            BY <1>3
          <6>2. CASE l <= i - 1
            BY <5>1, <6>2 DEF Ascending
          <6>3. CASE l = i
            <7>1. k <= i - 1
              BY <1>2, <5>1, <6>1, <6>3
            <7>2. k <= h
              BY <3>1, <7>1
            <7>3. got[k].counter <= got[h].counter
              <8>1. CASE k = h
                BY <3>2, <8>1
              <8>2. CASE k < h
                BY <3>1, <5>1, <8>2 DEF Ascending
              <8> QED
                BY <3>2, <6>1, <7>2, <8>1, <8>2
            <7>4. got[k].counter \in Nat
              BY <1>2, <6>1
            <7> QED
              BY <3>2, <4>2, <6>3, <7>3, <7>4
          <6> QED
            BY <1>2, <5>1, <6>1, <6>2, <6>3
        <5>2. Ascending(i - 1) => Ascending(i)
          BY <5>1 DEF Ascending
        <5> QED
          BY <1>5, <2>5, <3>3, <4>2, <5>2
      <4> QED
        BY <4>1, <4>2
    <3>5. dup' <= Cardinality(RepeatsSeen(i))
      <4>1. CASE Duplicate(got[i], got[h])
        <5>1. i \in Repeats
          BY <2>3, <3>1, <3>2, <4>1 DEF Repeats, Duplicate
        <5>2. \A l \in Repeats : l \in Int
          BY <1>3 DEF Repeats
        <5>3. RepeatsSeen(i) = RepeatsSeen(i - 1) \cup {i}
          <6>1. \A l \in Repeats : l <= i <=> l <= i - 1 \/ l = i
            BY <1>2, <5>2
          <6> QED
            BY <5>1, <6>1 DEF RepeatsSeen
        <5>4. i \notin RepeatsSeen(i - 1)
          BY <1>2 DEF RepeatsSeen
        <5>5. Cardinality(RepeatsSeen(i - 1) \cup {i}) = Cardinality(RepeatsSeen(i - 1)) + 1
          BY <1>6, <5>4, FS_AddElement
        <5> QED
          BY <1>2, <1>5, <1>6, <3>3, <4>1, <5>3, <5>5
      <4>2. CASE ~Duplicate(got[i], got[h])
        BY <1>2, <1>5, <1>6, <3>3, <4>2
      <4> QED
        BY <4>1, <4>2
    <3> QED
      BY <1>1, <1>3, <1>4, <2>4, <3>4, <3>5 DEF ArrivalInv
  <2> QED
    BY <2>6, <2>7
<1> QED
  BY <1>7, <1>8

\* Sorting and walking leave the two counters, and what they count.
LEMMA ArrivalLater ==
  ASSUME BaseInv, ArrivalInv, SortGot \/ WalkLoss \/ RestLost \/ WalkGaps \/ GapsDone
  PROVE  ArrivalInv'
<1>1. /\ UNCHANGED <<got, start, end, ooo, dup>>
      /\ \/ pc = "readGot" /\ i > Len(got) /\ pc' \in {"failed", "loss"}
         \/ pc \in {"loss", "gaps"} /\ pc' \in {"loss", "gaps", "done"}
  BY DEF SortGot, WalkLoss, RestLost, WalkGaps, GapsDone, files, counts
<1>2. GotSeen = Len(got) /\ GotSeen' = Len(got)
  <2>1. i \in Nat /\ Len(got) \in Nat /\ (pc = "readGot" => i <= Len(got) + 1)
    BY AllTyped DEF BaseInv, TypeOK, Progress
  <2> QED
    BY <1>1, <2>1 DEF GotSeen
<1>3. Counted' = Counted /\ Repeats' = Repeats
  BY <1>1 DEF Counted, Repeats, InWindow
<1>4. \A n : Ascending(n)' = Ascending(n) /\ RepeatsSeen(n)' = RepeatsSeen(n)
  BY <1>1, <1>3 DEF Ascending, RepeatsSeen
<1> QED
  BY <1>1, <1>2, <1>4 DEF ArrivalInv

\* No step breaks ArrivalInv.
LEMMA ArrivalInductive ==
  ASSUME BaseInv, BaseInv', RowsInv, ArrivalInv, Next
  PROVE  ArrivalInv'
<1>1. CASE PublishNext \/ Receive \/ LeaveOut \/ TakeWindow \/ ReadSent
  <2>1. CASE LeaveOut
    <3>1. pc' = "failed" /\ got' = << >> /\ pc = "files" /\ dup' = dup
      BY <2>1 DEF LeaveOut, counts
    <3>2. (GotSeen = 0)'
      BY <3>1 DEF GotSeen
    <3> QED
      BY <3>2, ArrivalStarts
  <2>2. CASE PublishNext \/ Receive \/ TakeWindow \/ ReadSent
    <3>1. pc' \in {"files", "readSent"}
      BY <2>2 DEF PublishNext, Publish, Receive, TakeWindow, ReadSent
    <3>2. (GotSeen = 0)'
      BY <3>1 DEF GotSeen
    <3> QED
      BY <3>2, ArrivalStarts
  <2> QED
    BY <1>1, <2>1, <2>2
<1>2. CASE Reported
  BY <1>2 DEF Reported, ArrivalInv, Ascending, RepeatsSeen, Repeats, Counted, InWindow, GotSeen,
              vars, files, counts
<1> QED
  BY <1>1, <1>2, ArrivalFailed, ArrivalReadGot, ArrivalLater DEF Next

\* What has been counted as out of order and as duplicate, in every state.
LEMMA ArrivalInvariance == Spec => []ArrivalInv
<1>1. Init => ArrivalInv
  <2>1. Init => GotSeen = 0
    BY DEF Init, GotSeen
  <2> QED
    BY <2>1, BaseInitially, ArrivalStart
<1>2. ArrivalInv /\ [BaseInv /\ BaseInv' /\ RowsInv /\ Next]_vars => ArrivalInv'
  <2>1. ArrivalInv /\ UNCHANGED vars => ArrivalInv'
    BY DEF ArrivalInv, Ascending, RepeatsSeen, Repeats, Counted, InWindow, GotSeen,
           vars, files, counts
  <2> QED
    BY <2>1, ArrivalInductive
<1> QED
  BY <1>1, <1>2, BaseInvariance, RowsInvariance, PTL DEF Spec

\* For files of every length: the out-of-order count, which compares neighbouring rows only,
\* is not zero exactly if some row of the window arrived after one with a greater number.
THEOREM DisorderCounted == Spec => []DisorderSeen
<1>1. ASSUME BaseInv, ArrivalInv, Done
      PROVE  ooo = 0 <=> \A k, l \in Counted : k < l => got[k].counter <= got[l].counter
  <2>1. GotSeen = Len(got) /\ pc = "done"
    BY <1>1 DEF GotSeen, Done
  <2>2. \A l \in Counted : l <= Len(got)
    BY <1>1, AllTyped DEF BaseInv, Counted
  <2> QED
    BY <1>1, <2>1, <2>2 DEF ArrivalInv, Ascending
<1>2. BaseInv /\ ArrivalInv => DisorderSeen
  BY <1>1 DEF DisorderSeen
<1> QED
  BY <1>2, BaseInvariance, ArrivalInvariance, PTL

\* For files of every length: no more duplicates are reported than rows of the window arrived
\* again.
THEOREM DuplicatesCounted == Spec => []DuplicatesSound
<1>1. ASSUME BaseInv, ArrivalInv, Done
      PROVE  dup <= Cardinality(Repeats)
  <2>1. GotSeen = Len(got)
    BY <1>1 DEF GotSeen, Done
  <2>2. RepeatsSeen(Len(got)) = Repeats
    BY <1>1, AllTyped DEF BaseInv, Repeats, Counted, RepeatsSeen
  <2> QED
    BY <1>1, <2>1, <2>2 DEF ArrivalInv
<1>2. BaseInv /\ ArrivalInv => DuplicatesSound
  BY <1>1 DEF DuplicatesSound
<1> QED
  BY <1>2, BaseInvariance, ArrivalInvariance, PTL

-----------------------------------------------------------------------------
(* Gaps: how long a burst lasts, and in which order its messages are sent. *)

\* A burst starts with the first of its rows.
LEMMA BurstStarts ==
  ASSUME BaseInv, sent # << >>
  PROVE  /\ BurstStart(LastSent.burst) \in Nat
         /\ \A k \in DOMAIN sent :
              sent[k].burst = LastSent.burst => BurstStart(LastSent.burst) <= sent[k].pub_ts
<1> DEFINE b == LastSent.burst
           T == {sent[k].pub_ts : k \in {l \in DOMAIN sent : sent[l].burst = b}}
<1>1. /\ Len(sent) \in Nat /\ DOMAIN sent = 1 .. Len(sent) /\ Len(sent) \in DOMAIN sent
      /\ LastSent = sent[Len(sent)]
      /\ \A k \in DOMAIN sent : sent[k].pub_ts \in Nat /\ sent[k].burst \in Nat
  BY SentTyped DEF BaseInv, LastSent
<1>2. LastSent.pub_ts \in Nat
  BY <1>1
<1>3. ASSUME NEW k \in DOMAIN sent PROVE sent[k].pub_ts \in 0 .. LastSent.pub_ts
  <2>1. k = Len(sent) \/ k < Len(sent)
    BY <1>1
  <2>2. sent[k].pub_ts <= LastSent.pub_ts
    BY <1>1, <2>1 DEF BaseInv, SentOrder
  <2> QED
    BY <1>1, <1>2, <2>2
<1>4. T \subseteq 0 .. LastSent.pub_ts /\ T # {}
  BY <1>1, <1>3
<1>5. Min(T) \in T /\ \A x \in T : Min(T) <= x
  <2> HIDE DEF T
  <2> QED
    BY <1>2, <1>4, MinMax
<1>6. BurstStart(b) = Min(T)
  BY DEF BurstStart
<1>7. /\ BurstStart(b) \in Nat
      /\ \A k \in DOMAIN sent : sent[k].burst = b => BurstStart(b) <= sent[k].pub_ts
  BY <1>4, <1>5, <1>6
<1> QED
  BY <1>7

\* The next message of a burst comes within BURST_SECS of its start.
LEMMA BurstPublish ==
  ASSUME BaseInv, BurstInv, PublishNext
  PROVE  BurstInv'
<1>0. /\ Len(sent) \in Nat /\ DOMAIN sent = 1 .. Len(sent) /\ sent \in Seq(SentRows)
      /\ (sent # << >> <=> Len(sent) # 0)
      /\ \A k \in DOMAIN sent : /\ sent[k].pub_ts \in Nat /\ sent[k].burst \in Nat
                                /\ sent[k].counter \in Nat
  BY SentTyped DEF BaseInv
<1>1. PICK counter, burst, ts, rc :
        /\ Publish(counter, burst, ts, rc)
        /\ counter \in Nat /\ burst \in Nat /\ ts \in Nat /\ rc \in {0, -1}
        /\ sent # << >> =>
             \/ /\ burst = LastSent.burst /\ counter = LastSent.counter + 1
                /\ ts >= LastSent.pub_ts /\ ts <= BurstStart(burst) + BURST_SECS
             \/ burst > LastSent.burst
  <2>1. CASE sent = << >>
    BY <2>1 DEF PublishNext
  <2>2. CASE sent # << >>
    <3>1. /\ LastSent.counter \in Nat /\ LastSent.pub_ts \in Nat /\ LastSent.burst \in Nat
      BY <1>0, <2>2 DEF LastSent
    <3>2. PICK rc \in {0, -1} :
            \/ \E ts \in LastSent.pub_ts .. LastSent.pub_ts + 1 :
                 /\ ts <= BurstStart(LastSent.burst) + BURST_SECS
                 /\ Publish(LastSent.counter + 1, LastSent.burst, ts, rc)
            \/ \E ts \in {LastSent.pub_ts + 1, LastSent.pub_ts + BURST_SECS + 1} :
                 Publish(0, LastSent.burst + 1, ts, rc)
      BY <2>2 DEF PublishNext
    <3>3. CASE \E ts \in LastSent.pub_ts .. LastSent.pub_ts + 1 :
                 /\ ts <= BurstStart(LastSent.burst) + BURST_SECS
                 /\ Publish(LastSent.counter + 1, LastSent.burst, ts, rc)
      <4>1. PICK ts \in LastSent.pub_ts .. LastSent.pub_ts + 1 :
              /\ ts <= BurstStart(LastSent.burst) + BURST_SECS
              /\ Publish(LastSent.counter + 1, LastSent.burst, ts, rc)
        BY <3>3
      <4>2. ts \in Nat /\ ts >= LastSent.pub_ts /\ LastSent.counter + 1 \in Nat
        BY <3>1, <4>1
      <4> QED
        BY <3>1, <4>1, <4>2
    <3>4. CASE \E ts \in {LastSent.pub_ts + 1, LastSent.pub_ts + BURST_SECS + 1} :
                 Publish(0, LastSent.burst + 1, ts, rc)
      <4>1. PICK ts \in {LastSent.pub_ts + 1, LastSent.pub_ts + BURST_SECS + 1} :
              Publish(0, LastSent.burst + 1, ts, rc)
        BY <3>4
      <4> QED
        BY <3>1, <4>1
    <3> QED
      BY <3>2, <3>3, <3>4
  <2> QED
    BY <2>1, <2>2
<1> DEFINE m == [counter |-> counter, pub_ts |-> ts, rc |-> rc, burst |-> burst]
<1>2. m \in SentRows /\ sent' = Append(sent, m)
  BY <1>1 DEF SentRows, Publish
<1>3. /\ \A k \in DOMAIN sent : sent'[k] = sent[k]
      /\ sent'[Len(sent) + 1] = m
      /\ DOMAIN sent' = 1 .. Len(sent) + 1
  <2>1. /\ sent' \in Seq(SentRows) /\ Len(sent') = Len(sent) + 1
        /\ \A k \in 1 .. Len(sent) : sent'[k] = sent[k]
        /\ sent'[Len(sent) + 1] = m
    BY <1>0, <1>2, AppendProperties
  <2> QED
    BY <1>0, <2>1, LenProperties
<1>4. m.counter = counter /\ m.pub_ts = ts /\ m.burst = burst
  OBVIOUS
<1> HIDE DEF m
<1>5. ASSUME NEW k \in DOMAIN sent, sent[k].burst = burst
      PROVE  /\ ts <= sent[k].pub_ts + BURST_SECS /\ sent[k].pub_ts <= ts + BURST_SECS
             /\ sent[k].counter < counter
  <2>1. sent # << >> /\ Len(sent) \in DOMAIN sent /\ LastSent = sent[Len(sent)]
    BY <1>0 DEF LastSent
  <2>2. k = Len(sent) \/ k < Len(sent)
    BY <1>0
  <2>3. sent[k].burst <= LastSent.burst /\ sent[k].pub_ts <= LastSent.pub_ts
    BY <1>0, <2>1, <2>2 DEF BaseInv, SentOrder
  <2>4. /\ burst = LastSent.burst /\ counter = LastSent.counter + 1
        /\ ts >= LastSent.pub_ts /\ ts <= BurstStart(burst) + BURST_SECS
    BY <1>0, <1>1, <1>5, <2>1, <2>3
  <2>5. BurstStart(burst) \in Nat /\ BurstStart(burst) <= sent[k].pub_ts
    BY <1>5, <2>1, <2>4, BurstStarts
  <2>6. ts <= sent[k].pub_ts + BURST_SECS
    BY <1>0, <1>1, <2>4, <2>5
  <2>7. sent[k].pub_ts <= ts + BURST_SECS
    BY <1>0, <1>1, <2>1, <2>3, <2>4
  <2>8. sent[k].counter <= LastSent.counter
    BY <1>0, <1>5, <2>1, <2>2, <2>4 DEF BurstInv
  <2>9. sent[k].counter < counter
    BY <1>0, <2>1, <2>4, <2>8
  <2> QED
    BY <2>6, <2>7, <2>9
<1>6. ASSUME NEW k \in DOMAIN sent', NEW l \in DOMAIN sent', sent'[k].burst = sent'[l].burst
      PROVE  /\ sent'[l].pub_ts <= sent'[k].pub_ts + BURST_SECS
             /\ k < l => sent'[k].counter < sent'[l].counter
  <2>0. /\ k \in DOMAIN sent \/ k = Len(sent) + 1
        /\ l \in DOMAIN sent \/ l = Len(sent) + 1
    BY <1>0, <1>3
  <2>1. CASE k \in DOMAIN sent /\ l \in DOMAIN sent
    BY <1>3, <1>6, <2>1 DEF BurstInv
  <2>2. CASE k \in DOMAIN sent /\ l = Len(sent) + 1
    BY <1>3, <1>4, <1>5, <1>6, <2>2
  <2>3. CASE k = Len(sent) + 1 /\ l \in DOMAIN sent
    <3>1. ~(k < l)
      BY <1>0, <2>3
    <3> QED
      BY <1>3, <1>4, <1>5, <1>6, <2>3, <3>1
  <2>4. CASE k = Len(sent) + 1 /\ l = Len(sent) + 1
    BY <1>0, <1>1, <1>3, <1>4, <2>4
  <2> QED
    BY <2>0, <2>1, <2>2, <2>3, <2>4
<1> QED
  BY <1>6 DEF BurstInv

\* The file of the publisher, in every state.
LEMMA BurstInvariance == Spec => []BurstInv
<1>1. Init => BurstInv
  BY DEF Init, BurstInv
<1>2. BurstInv /\ [BaseInv /\ Next]_vars => BurstInv'
  <2>1. SUFFICES ASSUME BurstInv, [BaseInv /\ Next]_vars PROVE BurstInv'
    OBVIOUS
  <2>2. CASE UNCHANGED sent
    BY <2>1, <2>2 DEF BurstInv
  <2>3. CASE ~UNCHANGED sent
    <3>1. BaseInv /\ PublishNext
      BY <2>1, <2>3 DEF Next, Receive, LeaveOut, TakeWindow, ReadSent, SortSent, ReadGot, SortGot,
         WalkLoss, RestLost, WalkGaps, GapsDone, Reported, vars, files
    <3> QED
      BY <2>1, <3>1, BurstPublish
  <2> QED
    BY <2>2, <2>3
<1> QED
  BY <1>1, <1>2, BaseInvariance, PTL DEF Spec

-----------------------------------------------------------------------------
(* Gaps: what the walk measures.                                           *)

\* The gaps are finitely many, and so are the units of time within them.
LEMMA GapsFinite ==
  ASSUME BaseInv, NEW n \in Nat, n <= Len(ana)
  PROVE  /\ IsFiniteSet(Gaps(n)) /\ Cardinality(Gaps(n)) \in Nat
         /\ IsFiniteSet(Within(n)) /\ Cardinality(Within(n)) \in Nat
<1>1. /\ Len(ana) \in Nat /\ DOMAIN ana = 1 .. Len(ana) /\ Len(got) \in Nat
      /\ \A j \in DOMAIN ana : ana[j].recv_ts \in Nat /\ ana[j].recv_ts < Len(got)
  BY AllTyped DEF BaseInv, Progress
<1>2. IsFiniteSet(1 .. n - 1) /\ Gaps(n) \in SUBSET (1 .. n - 1)
  <2>1. n - 1 \in Int /\ 1 \in Int
    OBVIOUS
  <2> QED
    BY <2>1, FS_Interval DEF Gaps
<1>3. IsFiniteSet(0 .. Len(got)) /\ Within(n) \in SUBSET (0 .. Len(got))
  <2>1. Len(got) \in Int /\ 0 \in Int
    BY <1>1
  <2>2. ASSUME NEW x \in Within(n) PROVE x \in 0 .. Len(got)
    <3>1. PICK j \in Gaps(n) : x \in ana[j].recv_ts + 1 .. ana[j + 1].recv_ts
      BY DEF Within
    <3>2. j \in DOMAIN ana /\ j + 1 \in DOMAIN ana
      BY <1>1 DEF Gaps
    <3> QED
      BY <1>1, <3>1, <3>2
  <2> QED
    BY <2>1, <2>2, FS_Interval
<1> QED
  BY <1>2, <1>3, FS_Subset, FS_CardinalityType

\* Before the second row there is no gap.
LEMMA GapsNone ==
  ASSUME NEW n \in {0, 1}
  PROVE  Gaps(n) = {} /\ Within(n) = {} /\ Cardinality(Gaps(n)) = 0 /\ Cardinality(Within(n)) = 0
<1>1. 1 .. n - 1 = {}
  OBVIOUS
<1>2. Gaps(n) = {}
  BY <1>1 DEF Gaps
<1>3. Within(n) = {}
  BY <1>2 DEF Within
<1> QED
  BY <1>2, <1>3, FS_EmptySet

\* One more row adds the gap before it, if that is measured.
LEMMA GapsMore ==
  ASSUME BaseInv, NEW n \in Nat \ {0}, n < Len(ana)
  PROVE  /\ Gaps(n + 1) = IF Measured(ana[n], ana[n + 1]) THEN Gaps(n) \cup {n} ELSE Gaps(n)
         /\ n \notin Gaps(n)
<1>1. \A j : j \in 1 .. (n + 1) - 1 <=> j \in 1 .. n - 1 \/ j = n
  OBVIOUS
<1>2. n \notin 1 .. n - 1
  OBVIOUS
<1> QED
  BY <1>1, <1>2 DEF Gaps

\* A gap that is measured adds its length to the time within gaps, when the rows are in the
\* order of arrival.
LEMMA WithinMore ==
  ASSUME BaseInv, NEW n \in Nat \ {0}, n < Len(ana), Rising, Measured(ana[n], ana[n + 1])
  PROVE  Cardinality(Within(n + 1)) =
           Cardinality(Within(n)) + (ana[n + 1].recv_ts - ana[n].recv_ts)
<1> DEFINE lo == ana[n].recv_ts
           hi == ana[n + 1].recv_ts
           U  == lo + 1 .. hi
<1>1. /\ Len(ana) \in Nat /\ DOMAIN ana = 1 .. Len(ana)
      /\ n \in DOMAIN ana /\ n + 1 \in DOMAIN ana
      /\ \A j \in DOMAIN ana : ana[j].recv_ts \in Nat
  BY AllTyped DEF BaseInv
<1>2. lo \in Nat /\ hi \in Nat /\ lo < hi
  BY <1>1 DEF Rising
<1>3. Within(n + 1) = Within(n) \cup U
  <2>1. Gaps(n + 1) = Gaps(n) \cup {n}
    BY GapsMore
  <2> QED
    BY <2>1 DEF Within
<1>4. Within(n) \cap U = {}
  <2>1. SUFFICES ASSUME NEW x \in Within(n), x \in U PROVE FALSE
    OBVIOUS
  <2>2. PICK j \in Gaps(n) : x \in ana[j].recv_ts + 1 .. ana[j + 1].recv_ts
    BY DEF Within
  <2>3. j \in 1 .. n - 1
    BY DEF Gaps
  <2>4. j + 1 \in DOMAIN ana /\ (j + 1 = n \/ j + 1 < n)
    BY <1>1, <2>3
  <2>5. ana[j + 1].recv_ts <= lo
    BY <1>1, <2>4 DEF Rising
  <2>6. j \in DOMAIN ana
    BY <1>1, <2>3
  <2> QED
    BY <1>1, <1>2, <2>1, <2>2, <2>4, <2>5, <2>6
<1>5. IsFiniteSet(U) /\ Cardinality(U) = hi - lo
  <2>1. lo + 1 \in Int /\ hi \in Int
    BY <1>2
  <2>2. /\ IsFiniteSet(lo + 1 .. hi)
        /\ Cardinality(lo + 1 .. hi) = IF lo + 1 > hi THEN 0 ELSE hi - (lo + 1) + 1
    BY <2>1, FS_Interval
  <2> QED
    BY <1>2, <2>2
<1>6. IsFiniteSet(Within(n)) /\ Cardinality(Within(n)) \in Nat
  BY <1>1, GapsFinite
<1> HIDE DEF lo, hi, U
<1>7. Cardinality(Within(n) \cup U) = Cardinality(Within(n)) + Cardinality(U)
  <2>1. Cardinality(Within(n) \cup U) =
          Cardinality(Within(n)) + Cardinality(U) - Cardinality(Within(n) \cap U)
    BY <1>5, <1>6, FS_Union
  <2>2. Cardinality(Within(n) \cap U) = 0
    BY <1>4, FS_EmptySet
  <2> QED
    BY <1>2, <1>5, <1>6, <2>1, <2>2
<1> QED
  BY <1>3, <1>5, <1>7 DEF lo, hi

\* What is measured is the same after a step that leaves the rows.
LEMMA GapsLeft ==
  ASSUME UNCHANGED ana
  PROVE  /\ \A n : Gaps(n)' = Gaps(n) /\ Within(n)' = Within(n)
         /\ Rising' = Rising
  BY DEF Gaps, Within, Rising

\* A turn of calc_gaps measures one more gap.
LEMMA TimeWalkGaps ==
  ASSUME BaseInv, TimeInv, WalkGaps
  PROVE  TimeInv'
<1>1. /\ pc = "gaps" /\ i < Len(ana) /\ i' = i + 1 /\ pc' = pc /\ UNCHANGED ana
      /\ IF Measured(ana[i], ana[i + 1])
         THEN gap_sum' = gap_sum + (ana[i + 1].recv_ts - ana[i].recv_ts) /\ samples' = samples + 1
         ELSE UNCHANGED <<gap_sum, samples>>
  BY DEF WalkGaps
<1>2. i \in Nat \ {0} /\ Len(ana) \in Nat /\ i <= Len(ana)
  BY <1>1, AllTyped DEF BaseInv, TypeOK
<1>3. GapsTaken(i)
  BY <1>1 DEF TimeInv
<1>4. IsFiniteSet(Gaps(i)) /\ Cardinality(Gaps(i)) \in Nat
  BY <1>2, GapsFinite
<1>5. samples' = Cardinality(Gaps(i + 1))
  <2>1. CASE Measured(ana[i], ana[i + 1])
    <3>1. Gaps(i + 1) = Gaps(i) \cup {i} /\ i \notin Gaps(i)
      BY <1>1, <1>2, <2>1, GapsMore
    <3>2. Cardinality(Gaps(i) \cup {i}) = Cardinality(Gaps(i)) + 1
      BY <1>4, <3>1, FS_AddElement
    <3> QED
      BY <1>1, <1>3, <2>1, <3>1, <3>2 DEF GapsTaken
  <2>2. CASE ~Measured(ana[i], ana[i + 1])
    BY <1>1, <1>2, <1>3, <2>2, GapsMore DEF GapsTaken
  <2> QED
    BY <2>1, <2>2
<1>6. Rising => gap_sum' = Cardinality(Within(i + 1))
  <2>1. SUFFICES ASSUME Rising PROVE gap_sum' = Cardinality(Within(i + 1))
    OBVIOUS
  <2>2. gap_sum = Cardinality(Within(i))
    BY <1>3, <2>1 DEF GapsTaken
  <2>3. CASE Measured(ana[i], ana[i + 1])
    BY <1>1, <1>2, <2>1, <2>2, <2>3, WithinMore
  <2>4. CASE ~Measured(ana[i], ana[i + 1])
    <3>1. Gaps(i + 1) = Gaps(i)
      BY <1>1, <1>2, <2>4, GapsMore
    <3> QED
      BY <1>1, <2>2, <2>4, <3>1 DEF Within
  <2> QED
    BY <2>3, <2>4
<1>7. GapsTaken(i)'
  BY <1>1, <1>5, <1>6, GapsLeft DEF GapsTaken
<1> QED
  BY <1>1, <1>7 DEF TimeInv

\* calc_gaps starts with nothing measured.
LEMMA TimeRestLost ==
  ASSUME BaseInv, TimeInv, RestLost
  PROVE  TimeInv'
<1>1. /\ pc = "loss" /\ pc' = "gaps" /\ i' = 1 /\ UNCHANGED <<ana, gap_sum, samples>>
  BY DEF RestLost, timing
<1>2. samples = 0 /\ gap_sum = 0
  BY <1>1 DEF BaseInv, Progress, TimeInv
<1>3. Cardinality(Gaps(1)) = 0 /\ Cardinality(Within(1)) = 0
  BY GapsNone
<1>4. GapsTaken(i)'
  BY <1>1, <1>2, <1>3, GapsLeft DEF GapsTaken
<1> QED
  BY <1>1, <1>4 DEF TimeInv

\* The last turn has passed every gap.
LEMMA TimeGapsDone ==
  ASSUME BaseInv, TimeInv, GapsDone
  PROVE  TimeInv'
<1>1. /\ pc = "gaps" /\ pc' = "done" /\ i >= Len(ana) /\ UNCHANGED <<ana, gap_sum, samples>>
      /\ recv_window' = IF Len(ana) >= 2 THEN Max({ana[Len(ana)].recv_ts - ana[1].recv_ts, 0})
                                         ELSE 0
  BY DEF GapsDone
<1>2. i \in Nat \ {0} /\ Len(ana) \in Nat /\ (i = 1 \/ i <= Len(ana))
  BY <1>1, AllTyped DEF BaseInv, TypeOK, Progress
<1>3. GapsTaken(i)
  BY <1>1 DEF TimeInv
<1>4. GapsTaken(Len(ana))
  <2>1. CASE i = Len(ana)
    BY <1>3, <2>1
  <2>2. CASE i # Len(ana)
    <3>1. i = 1 /\ Len(ana) = 0
      BY <1>1, <1>2, <2>2
    <3> QED
      BY <1>3, <3>1, GapsNone DEF GapsTaken
  <2> QED
    BY <2>1, <2>2
<1>5. GapsTaken(Len(ana))'
  BY <1>1, <1>4, GapsLeft DEF GapsTaken
<1> QED
  BY <1>1, <1>5 DEF TimeInv

\* A row is read once.
LEMMA TimeReadGot ==
  ASSUME BaseInv, RowsInv, TimeInv, ReadGot
  PROVE  TimeInv'
<1>1. pc = "readGot" /\ i <= Len(got) /\ pc' = pc /\ UNCHANGED <<got, start, end, gap_sum>>
  BY DEF ReadGot, files, timing
<1>2. /\ i \in Nat \ {0} /\ i \in DOMAIN got /\ got[i] \in RowPairs
      /\ Len(got) \in Nat /\ DOMAIN got = 1 .. Len(got) /\ \A k \in DOMAIN got : k \in Int
      /\ ana \in Seq(RowPairs) /\ Len(ana) \in Nat /\ DOMAIN ana = 1 .. Len(ana)
      /\ \A k \in DOMAIN got : got[k].recv_ts = k - 1
      /\ GotSeen = i - 1
  BY <1>1, AllTyped DEF BaseInv, TypeOK, Progress, GotSeen
<1>3. \A j \in DOMAIN ana : ana[j] # got[i]
  <2>1. SUFFICES ASSUME NEW j \in DOMAIN ana, ana[j] = got[i] PROVE FALSE
    OBVIOUS
  <2>2. PICK k \in Counted : k <= i - 1 /\ ana[j] = got[k]
    BY <1>2 DEF RowsInv, AnaOfGot
  <2>3. k \in DOMAIN got
    BY DEF Counted
  <2>4. k - 1 = i - 1
    BY <1>2, <2>1, <2>2, <2>3
  <2> QED
    BY <1>2, <2>2, <2>3, <2>4
<1>4. \A j, l \in DOMAIN ana : ana[j] = ana[l] => j = l
  BY DEF TimeInv
<1>5. CASE UNCHANGED ana
  BY <1>1, <1>4, <1>5 DEF TimeInv
<1>6. CASE ana' = Append(ana, got[i])
  <2>1. /\ DOMAIN ana' = 1 .. Len(ana) + 1
        /\ \A j \in DOMAIN ana : ana'[j] = ana[j]
        /\ ana'[Len(ana) + 1] = got[i]
    <3>1. /\ ana' \in Seq(RowPairs) /\ Len(ana') = Len(ana) + 1
          /\ \A j \in 1 .. Len(ana) : ana'[j] = ana[j]
          /\ ana'[Len(ana) + 1] = got[i]
      BY <1>2, <1>6, AppendProperties
    <3> QED
      BY <1>2, <3>1, LenProperties
  <2>2. \A j \in DOMAIN ana' : j \in DOMAIN ana \/ j = Len(ana) + 1
    BY <1>2, <2>1
  <2>3. \A j, l \in DOMAIN ana' : ana'[j] = ana'[l] => j = l
    BY <1>3, <1>4, <2>1, <2>2
  <2>4. gap_sum' = 0
    BY <1>1 DEF TimeInv
  <2> QED
    BY <1>1, <2>3, <2>4 DEF TimeInv
<1> QED
  BY <1>5, <1>6 DEF ReadGot

\* Sorting repeats no row.
LEMMA TimeSortGot ==
  ASSUME BaseInv, TimeInv, SortGot
  PROVE  TimeInv'
<1>1. /\ pc = "readGot" /\ ana' \in Sorted(ana) /\ pc' \in {"failed", "loss"} /\ gap_sum' = gap_sum
  BY DEF SortGot, counts, timing
<1>2. ana \in Seq(RowPairs) /\ DOMAIN ana = 1 .. Len(ana)
  BY AllTyped DEF BaseInv
<1>3. /\ ana' \in Seq(RowPairs) /\ Len(ana') = Len(ana)
      /\ \A j, l \in DOMAIN ana' : j < l => CmpRowPair(ana'[j], ana'[l]) <= 0
  BY <1>1, <1>2, SortedRows
<1>4. PICK p \in [DOMAIN ana -> DOMAIN ana] :
              /\ \A j, l \in DOMAIN ana : p[j] = p[l] => j = l
              /\ \A l \in DOMAIN ana : \E j \in DOMAIN ana : p[j] = l
              /\ \A j \in DOMAIN ana : ana'[j] = ana[p[j]]
  BY <1>1, <1>2, SortedRows
<1>5. DOMAIN ana' = DOMAIN ana
  BY <1>2, <1>3, LenProperties
<1>6. \A j, l \in DOMAIN ana' : ana'[j] = ana'[l] => j = l
  BY <1>4, <1>5 DEF TimeInv
<1>7. gap_sum' = 0
  BY <1>1 DEF TimeInv
<1> QED
  BY <1>1, <1>3, <1>6, <1>7 DEF TimeInv

\* The other steps leave the rows, and measure nothing.
LEMMA TimeOther ==
  ASSUME TimeInv, [PublishNext \/ Receive \/ LeaveOut \/ TakeWindow
                     \/ ReadSent \/ SortSent \/ WalkLoss \/ Reported]_vars
  PROVE  TimeInv'
<1>1. CASE UNCHANGED vars
  <2>1. UNCHANGED <<pc, ana, gap_sum, samples, recv_window, i>>
    BY <1>1 DEF vars, counts, timing
  <2> QED
    BY <2>1, GapsLeft DEF TimeInv, GapsTaken
<1>2. CASE PublishNext \/ Receive \/ LeaveOut \/ TakeWindow \/ ReadSent \/ SortSent \/ WalkLoss
  <2>1. /\ pc \in {"files", "readSent", "loss"}
        /\ pc' \in {"files", "readSent", "readGot", "loss", "failed"}
        /\ pc' = "loss" => pc = "loss"
        /\ UNCHANGED <<ana, gap_sum>>
    BY <1>2 DEF PublishNext, Publish, Receive, LeaveOut, TakeWindow, ReadSent, SortSent, WalkLoss,
                files, counts, timing
  <2> QED
    BY <2>1 DEF TimeInv
<1> QED
  BY <1>1, <1>2 DEF Reported

\* The rows of the analyser's file, and what has been measured of them, in every state.
LEMMA TimeInvariance == Spec => []TimeInv
<1>1. Init => TimeInv
  BY DEF Init, TimeInv
<1>2. TimeInv /\ [BaseInv /\ RowsInv /\ Next]_vars => TimeInv'
  BY TimeWalkGaps, TimeRestLost, TimeGapsDone, TimeReadGot, TimeSortGot, TimeOther DEF Next
<1> QED
  BY <1>1, <1>2, BaseInvariance, RowsInvariance, PTL DEF Spec

-----------------------------------------------------------------------------
(* Gaps: what one burst, arrived in order, is found to be.                 *)

\* The messages of the window are of one burst.
LEMMA OneBurst ==
  ASSUME BaseInv, Cardinality(Bursts) = 1
  PROVE  \A k, l \in DOMAIN sent :
           InWindow(sent[k]) /\ InWindow(sent[l]) => sent[k].burst = sent[l].burst
<1> DEFINE S == {l \in DOMAIN sent : InWindow(sent[l])}
           f == [k \in S |-> sent[k].burst]
<1>1. IsFiniteSet(S)
  <2>1. Len(sent) \in Int /\ 1 \in Int /\ DOMAIN sent = 1 .. Len(sent)
    BY SentTyped DEF BaseInv
  <2>2. IsFiniteSet(1 .. Len(sent)) /\ S \in SUBSET (1 .. Len(sent))
    BY <2>1, FS_Interval
  <2> QED
    BY <2>2, FS_Subset
<1>2. f \in Surjection(S, Bursts)
  BY DEF Surjection, Bursts
<1>3. IsFiniteSet(Bursts)
  <2> HIDE DEF S, f
  <2> QED
    BY <1>1, <1>2, FS_Surjection
<1>4. PICK b : Bursts = {b}
  BY <1>3, FS_Singleton
<1>5. \A k \in S : sent[k].burst = b
  BY <1>4 DEF Bursts
<1> QED
  BY <1>5

\* The rows read are those of the window, each at its place.
LEMMA Places ==
  ASSUME BaseInv, RowsInv, Done
  PROVE  /\ \A j \in DOMAIN ana : Place(j) \in Counted /\ got[Place(j)] = ana[j]
         /\ \A k \in Counted : \E j \in DOMAIN ana : Place(j) = k
         /\ \A k \in Counted : k \in DOMAIN got /\ k \in Nat
<1>1. /\ Len(got) \in Nat /\ DOMAIN got = 1 .. Len(got)
      /\ \A k \in DOMAIN got : got[k].recv_ts = k - 1
      /\ GotSeen = Len(got) /\ pc = "done"
  BY AllTyped DEF BaseInv, Progress, Done, GotSeen
<1>2. \A k \in Counted : k \in DOMAIN got /\ k \in Nat /\ k <= GotSeen /\ got[k].recv_ts + 1 = k
  BY <1>1 DEF Counted
<1>3. \A j \in DOMAIN ana : \E k \in Counted : ana[j] = got[k]
  BY DEF RowsInv, AnaOfGot
<1>4. \A k \in Counted : \E j \in DOMAIN ana : ana[j] = got[k]
  BY <1>1, <1>2 DEF RowsInv, AnaOfGot
<1> QED
  BY <1>2, <1>3, <1>4 DEF Place

\* A burst that arrives in order is read in order.
LEMMA CleanOrder ==
  ASSUME BaseInv, RowsInv, TimeInv, CleanArrival
  PROVE  /\ \A j, l \in DOMAIN ana : j < l => ana[j].counter < ana[l].counter
         /\ Rising
<1>1. /\ Len(ana) \in Nat /\ DOMAIN ana = 1 .. Len(ana)
      /\ \A j \in DOMAIN ana : /\ ana[j] \in RowPairs /\ ana[j].counter \in Nat
                               /\ ana[j].recv_ts \in Nat
  BY AllTyped DEF BaseInv
<1>2. ASSUME NEW j \in DOMAIN ana, NEW l \in DOMAIN ana, j < l
      PROVE  ana[j].counter < ana[l].counter /\ ana[j].recv_ts < ana[l].recv_ts
  <2>1. /\ Place(j) \in Counted /\ got[Place(j)] = ana[j]
        /\ Place(l) \in Counted /\ got[Place(l)] = ana[l]
        /\ Place(j) \in Nat /\ Place(l) \in Nat
    BY Places DEF CleanArrival
  <2>2. Place(j) # Place(l)
    BY <1>1, <1>2, <2>1 DEF TimeInv
  <2>3. Place(j) < Place(l) => ana[j].counter < ana[l].counter
    BY <2>1 DEF CleanArrival
  <2>4. Place(l) < Place(j) => ana[l].counter < ana[j].counter
    BY <2>1 DEF CleanArrival
  <2>5. CmpRowPair(ana[j], ana[l]) <= 0
    BY <1>2 DEF TimeInv, CleanArrival, Done
  <2>6. ana[j].counter <= ana[l].counter
    BY <1>1, <2>5 DEF CmpRowPair, Compare
  <2>7. Place(j) < Place(l)
    BY <1>1, <2>1, <2>2, <2>4, <2>6
  <2> QED
    BY <1>1, <2>3, <2>7 DEF Place
<1> QED
  BY <1>2 DEF Rising

\* A gap is measured if no message is missing in between.
LEMMA CleanMeasured ==
  ASSUME BaseInv, RowsInv, TimeInv, BurstInv, CleanArrival,
         NEW j \in DOMAIN ana, j + 1 \in DOMAIN ana
  PROVE  Measured(ana[j], ana[j + 1]) <=> ana[j + 1].counter = ana[j].counter + 1
<1>1. /\ Len(ana) \in Nat /\ DOMAIN ana = 1 .. Len(ana)
      /\ \A h \in DOMAIN ana : /\ ana[h].counter \in Nat /\ ana[h].pub_ts \in Nat
                               /\ ana[h].recv_ts \in Nat
  BY AllTyped DEF BaseInv
<1>2. j < j + 1
  BY <1>1
<1>3. ana[j].counter < ana[j + 1].counter /\ ana[j].recv_ts < ana[j + 1].recv_ts
  BY <1>2, CleanOrder DEF Rising
<1>4. ASSUME NEW h \in DOMAIN ana
      PROVE  \E k \in DOMAIN sent : Same(ana[h], sent[k]) /\ InWindow(sent[k])
  <2>1. Place(h) \in Counted /\ got[Place(h)] = ana[h]
    BY Places DEF CleanArrival
  <2>2. Place(h) \in DOMAIN got /\ InWindow(ana[h])
    BY <2>1 DEF Counted
  <2>3. PICK k \in DOMAIN sent : Same(ana[h], sent[k])
    BY <2>1, <2>2 DEF BaseInv, GotOfSent
  <2> QED
    BY <2>2, <2>3 DEF Same, InWindow
<1>5. PICK k \in DOMAIN sent : Same(ana[j], sent[k]) /\ InWindow(sent[k])
  BY <1>4
<1>6. PICK l \in DOMAIN sent : Same(ana[j + 1], sent[l]) /\ InWindow(sent[l])
  BY <1>4
<1>7. sent[k].burst = sent[l].burst
  BY <1>5, <1>6, OneBurst DEF CleanArrival
<1>8. sent[k].counter < sent[l].counter
  BY <1>3, <1>5, <1>6 DEF Same
<1>9. k < l
  <2>1. k \in Int /\ l \in Int /\ sent[k].counter \in Nat /\ sent[l].counter \in Nat
    BY SentTyped DEF BaseInv
  <2>2. l < k => sent[l].counter < sent[k].counter
    BY <1>7 DEF BurstInv
  <2> QED
    BY <1>8, <2>1, <2>2
<1>10. sent[k].pub_ts <= sent[l].pub_ts /\ sent[l].pub_ts <= sent[k].pub_ts + BURST_SECS
  BY <1>7, <1>9 DEF BurstInv, BaseInv, SentOrder
<1>11. ana[j].pub_ts <= ana[j + 1].pub_ts /\ ana[j + 1].pub_ts <= ana[j].pub_ts + BURST_SECS
  BY <1>5, <1>6, <1>10 DEF Same
<1>12. ana[j + 1].pub_ts - ana[j].pub_ts \in 0 .. BURST_SECS /\ ana[j + 1].recv_ts >= ana[j].recv_ts
  BY <1>1, <1>3, <1>11
<1> QED
  BY <1>12 DEF Measured, Consecutive

\* The gaps measured are those between rows next to each other in number.
LEMMA CleanPairs ==
  ASSUME BaseInv, RowsInv, TimeInv, BurstInv, CleanArrival
  PROVE  NextPairs = {<<Place(j), Place(j + 1)>> : j \in Gaps(Len(ana))}
<1> DEFINE n == Len(ana)
<1>1. /\ n \in Nat /\ DOMAIN ana = 1 .. n
      /\ \A j \in DOMAIN ana : ana[j].counter \in Nat /\ ana[j].recv_ts \in Nat
  BY AllTyped DEF BaseInv
<1>2. \A j \in Gaps(n) : /\ j \in DOMAIN ana /\ j + 1 \in DOMAIN ana
                         /\ Measured(ana[j], ana[j + 1])
  BY <1>1 DEF Gaps
<1>3. ASSUME NEW j \in Gaps(n) PROVE <<Place(j), Place(j + 1)>> \in NextPairs
  <2>1. ana[j + 1].counter = ana[j].counter + 1
    BY <1>2, CleanMeasured
  <2>2. /\ Place(j) \in Counted /\ got[Place(j)] = ana[j]
        /\ Place(j + 1) \in Counted /\ got[Place(j + 1)] = ana[j + 1]
    BY <1>2, Places DEF CleanArrival
  <2> QED
    BY <2>1, <2>2 DEF NextPairs
<1>4. ASSUME NEW p \in NextPairs PROVE \E j \in Gaps(n) : p = <<Place(j), Place(j + 1)>>
  <2>1. /\ p \in Counted \X Counted /\ p = <<p[1], p[2]>> /\ p[1] \in Counted /\ p[2] \in Counted
        /\ got[p[2]].counter = got[p[1]].counter + 1
    BY DEF NextPairs
  <2>2. PICK j \in DOMAIN ana : Place(j) = p[1]
    BY <2>1, Places DEF CleanArrival
  <2>3. PICK l \in DOMAIN ana : Place(l) = p[2]
    BY <2>1, Places DEF CleanArrival
  <2>4. ana[l].counter = ana[j].counter + 1
    BY <2>1, <2>2, <2>3, Places DEF CleanArrival
  <2>5. l = j + 1
    <3>1. ~(l < j) /\ l # j
      BY <1>1, <2>4, CleanOrder
    <3>2. CASE j + 1 < l
      <4>1. j + 1 \in DOMAIN ana /\ j < j + 1
        BY <1>1, <3>2
      <4>2. ana[j].counter < ana[j + 1].counter /\ ana[j + 1].counter < ana[l].counter
        BY <3>2, <4>1, CleanOrder
      <4> QED
        BY <1>1, <2>4, <4>1, <4>2
    <3> QED
      BY <1>1, <3>1, <3>2
  <2>6. Measured(ana[j], ana[j + 1])
    BY <2>4, <2>5, CleanMeasured
  <2>7. j \in Gaps(n)
    BY <1>1, <2>5, <2>6 DEF Gaps
  <2> QED
    BY <2>1, <2>2, <2>3, <2>5, <2>7
<1> QED
  BY <1>3, <1>4

\* There are as many.
LEMMA CleanSamples ==
  ASSUME BaseInv, RowsInv, TimeInv, BurstInv, CleanArrival
  PROVE  Cardinality(NextPairs) = Cardinality(Gaps(Len(ana)))
<1> DEFINE G == Gaps(Len(ana))
           f == [j \in G |-> <<Place(j), Place(j + 1)>>]
<1>1. /\ Len(ana) \in Nat /\ DOMAIN ana = 1 .. Len(ana)
      /\ \A j \in DOMAIN ana : ana[j].recv_ts \in Nat
  BY AllTyped DEF BaseInv
<1>2. IsFiniteSet(G) /\ \A j \in G : j \in DOMAIN ana
  <2>1. Len(ana) <= Len(ana)
    BY <1>1
  <2> QED
    BY <1>1, <2>1, GapsFinite DEF Gaps
<1>3. f \in Surjection(G, NextPairs)
  BY CleanPairs DEF Surjection
<1>4. ASSUME NEW j \in G, NEW l \in G, f[j] = f[l] PROVE j = l
  <2>1. Place(j) = Place(l)
    BY <1>4
  <2>2. ~(j < l) /\ ~(l < j)
    BY <1>1, <1>2, <2>1, CleanOrder DEF Place, Rising
  <2> QED
    BY <1>1, <1>2, <2>2
<1>5. f \in Injection(G, NextPairs)
  <2>1. f \in [G -> NextPairs]
    BY <1>3 DEF Surjection
  <2> HIDE DEF G, f
  <2> QED
    BY <1>4, <2>1, Fun_IsInj
<1> HIDE DEF G, f
<1>6. Cardinality(NextPairs) = Cardinality(G)
  BY <1>2, <1>3, <1>5, FS_Surjection
<1> QED
  BY <1>6 DEF G

\* The time from the first row to the last is that from the first arrival to the last.
LEMMA CleanWindow ==
  ASSUME BaseInv, RowsInv, TimeInv, CleanArrival,
         NEW first \in Counted, NEW last \in Counted,
         \A k \in Counted : first <= k /\ k <= last
  PROVE  recv_window = got[last].recv_ts - got[first].recv_ts
<1> DEFINE n == Len(ana)
<1>1. /\ n \in Nat /\ DOMAIN ana = 1 .. n
      /\ \A j \in DOMAIN ana : ana[j].recv_ts \in Nat
  BY AllTyped DEF BaseInv
<1>2. PICK f \in DOMAIN ana : Place(f) = first
  BY Places DEF CleanArrival
<1>3. PICK l \in DOMAIN ana : Place(l) = last
  BY Places DEF CleanArrival
<1>4. 1 \in DOMAIN ana /\ n \in DOMAIN ana
  BY <1>1, <1>2
<1>5. \A j \in DOMAIN ana : Place(j) \in Counted /\ got[Place(j)] = ana[j]
  BY Places DEF CleanArrival
<1>6. f = 1
  <2>1. first <= Place(1)
    BY <1>4, <1>5
  <2>2. 1 < f => ana[1].recv_ts < ana[f].recv_ts
    BY <1>4, CleanOrder DEF Rising
  <2> QED
    BY <1>1, <1>2, <1>4, <2>1, <2>2 DEF Place
<1>7. l = n
  <2>1. Place(n) <= last
    BY <1>4, <1>5
  <2>2. l < n => ana[l].recv_ts < ana[n].recv_ts
    BY <1>4, CleanOrder DEF Rising
  <2> QED
    BY <1>1, <1>3, <1>4, <2>1, <2>2 DEF Place
<1>8. got[first] = ana[1] /\ got[last] = ana[n]
  BY <1>2, <1>3, <1>5, <1>6, <1>7
<1>9. recv_window = IF n >= 2 THEN Max({ana[n].recv_ts - ana[1].recv_ts, 0}) ELSE 0
  BY DEF TimeInv, CleanArrival, Done
<1>10. CASE n >= 2
  <2> DEFINE d == ana[n].recv_ts - ana[1].recv_ts
  <2>1. 1 < n
    BY <1>1, <1>10
  <2>2. d \in Nat
    <3>1. ana[1].recv_ts < ana[n].recv_ts
      BY <1>4, <2>1, CleanOrder DEF Rising
    <3> QED
      BY <1>1, <1>4, <3>1
  <2> HIDE DEF d
  <2>3. {d, 0} \subseteq 0 .. d /\ {d, 0} # {} /\ d \in {d, 0}
    BY <2>2
  <2>4. Max({d, 0}) \in {d, 0} /\ d <= Max({d, 0})
    BY <2>2, <2>3, MinMax
  <2>5. Max({d, 0}) = d
    BY <2>2, <2>4
  <2> QED
    BY <1>8, <1>9, <1>10, <2>5 DEF d
<1>11. CASE ~(n >= 2)
  <2>1. n = 1
    BY <1>1, <1>4, <1>11
  <2> QED
    BY <1>1, <1>4, <1>8, <1>9, <1>11, <2>1
<1> QED
  BY <1>10, <1>11

\* For files of every length: when one burst arrives in order and without duplicates, calc_gaps
\* takes just the gaps in which no message is missing, adds up all the time within them, and the
\* mean rate is taken over the time from the first arrival to the last.
THEOREM GapsMeasured == Spec => []CleanTiming
<1>1. ASSUME BaseInv, RowsInv, TimeInv, BurstInv, CleanArrival
      PROVE  /\ samples = Cardinality(NextPairs)
             /\ gap_sum = Cardinality(UNION {got[p[1]].recv_ts + 1 .. got[p[2]].recv_ts :
                                               p \in NextPairs})
  <2>1. GapsTaken(Len(ana))
    BY <1>1 DEF TimeInv, CleanArrival, Done
  <2>2. samples = Cardinality(NextPairs)
    BY <1>1, <2>1, CleanSamples DEF GapsTaken
  <2>3. gap_sum = Cardinality(Within(Len(ana)))
    BY <1>1, <2>1, CleanOrder DEF GapsTaken
  <2>4. Within(Len(ana)) = UNION {got[p[1]].recv_ts + 1 .. got[p[2]].recv_ts : p \in NextPairs}
    <3>1. \A j \in Gaps(Len(ana)) :
            got[Place(j)].recv_ts = ana[j].recv_ts /\ got[Place(j + 1)].recv_ts = ana[j + 1].recv_ts
      <4>1. Len(ana) \in Nat /\ DOMAIN ana = 1 .. Len(ana)
        BY <1>1, AllTyped DEF BaseInv
      <4>2. \A j \in Gaps(Len(ana)) : j \in DOMAIN ana /\ j + 1 \in DOMAIN ana
        BY <4>1 DEF Gaps
      <4> QED
        BY <1>1, <4>2, Places DEF CleanArrival
    <3>2. NextPairs = {<<Place(j), Place(j + 1)>> : j \in Gaps(Len(ana))}
      BY <1>1, CleanPairs
    <3>3. {got[p[1]].recv_ts + 1 .. got[p[2]].recv_ts : p \in NextPairs}
            = {ana[j].recv_ts + 1 .. ana[j + 1].recv_ts : j \in Gaps(Len(ana))}
      <4> DEFINE V(p) == got[p[1]].recv_ts + 1 .. got[p[2]].recv_ts
                 U(j) == ana[j].recv_ts + 1 .. ana[j + 1].recv_ts
                 r(j) == <<Place(j), Place(j + 1)>>
      <4>1. \A j \in Gaps(Len(ana)) : V(r(j)) = U(j)
        BY <3>1
      <4>2. NextPairs = {r(j) : j \in Gaps(Len(ana))}
        BY <3>2
      <4> HIDE DEF V, U, r
      <4>3. {V(p) : p \in NextPairs} = {U(j) : j \in Gaps(Len(ana))}
        BY <4>1, <4>2
      <4> QED
        BY <4>3 DEF V, U
    <3> QED
      BY <3>3 DEF Within
  <2> QED
    BY <2>2, <2>3, <2>4
<1>2. ASSUME BaseInv, RowsInv, TimeInv, BurstInv PROVE CleanTiming
  <2>1. SUFFICES ASSUME CleanArrival
                 PROVE  /\ samples = Cardinality(NextPairs)
                        /\ gap_sum = Cardinality(UNION {got[p[1]].recv_ts + 1 .. got[p[2]].recv_ts :
                                                          p \in NextPairs})
                        /\ \A first, last \in Counted :
                             (\A k \in Counted : first <= k /\ k <= last)
                               => recv_window = got[last].recv_ts - got[first].recv_ts
    BY DEF CleanTiming, CleanArrival, NextPairs
  <2> QED
    BY <1>1, <1>2, <2>1, CleanWindow
<1>3. BaseInv /\ RowsInv /\ TimeInv /\ BurstInv => CleanTiming
  BY <1>2
<1> QED
  BY <1>3, BaseInvariance, RowsInvariance, TimeInvariance, BurstInvariance, PTL

=============================================================================
