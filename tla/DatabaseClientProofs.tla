------------------------ MODULE DatabaseClientProofs ------------------------
(***************************************************************************)
(* Proofs about DatabaseClient, for any number of operations, values,      *)
(* retries, reads, credits by others and failures: no transaction is        *)
(* applied twice, what its callback is told is so, an overwrite that is     *)
(* reported as stored is not undone by an older one, and a client that      *)
(* listens has seen what it is told of.                                    *)
(* None is inductive.  Four invariants are proved one upon the other:      *)
(*  - ClientInv follows a transaction through every place it can be in:    *)
(*    FRepo's queue, the puts FPersistentConnection holds, the request and *)
(*    the answer that travel, the answers held back and those still to be  *)
(*    passed on.  No two of them are of the same transaction, what was not *)
(*    sent was not applied, and an answer says what happened;              *)
(*  - ListenInv counts the listens and the answers to them that travel;    *)
(*  - FlowInv pairs the outstanding puts with the requests and answers     *)
(*    that travel, in their order, and the order in which they are stored; *)
(*  - SeenInv follows a consent of the database from the answer that bears *)
(*    it to the callback: what it is about is seen before, or comes first. *)
(***************************************************************************)
EXTENDS DatabaseClient, FiniteSetTheorems, FunctionTheorems, SequenceTheorems,
        WellFoundedInduction, TLAPS

-----------------------------------------------------------------------------
(* Numbers.                                                                *)

\* A set of naturals that is not empty has a least one.
LEMMA NatMin ==
  ASSUME NEW T \in SUBSET Nat, T # {}
  PROVE  \E n \in T : \A m \in T : n <= m
<1> DEFINE R == {ss \in Nat \X Nat : ss[1] < ss[2]}
<1>1. IsWellFoundedOn(R, Nat)
  BY NatLessThanWellFounded DEF OpToRel
<1>2. PICK n \in T : \A m \in T : <<m, n>> \notin R
  BY <1>1, WFMin
<1>3. ASSUME NEW m \in T PROVE n <= m
  <2>1. m \in Nat /\ n \in Nat /\ ~(m < n)
    BY <1>2
  <2> QED BY <2>1
<1> QED BY <1>3

\* Operations are numbers.
LEMMA MaxOpsType == MaxOps \in Nat /\ Ops \in SUBSET Nat
BY BoundsAssumption DEF Ops

\* Of some operations, one has the greatest number.
LEMMA HasMaximum ==
  ASSUME NEW S \in SUBSET Ops, S # {}, NEW f \in [Ops -> Nat]
  PROVE  \E n \in S : \A m \in S : f[m] <= f[n]
<1> DEFINE Below(k) == S \cap (1 .. k)
           Bad == {k \in Nat : /\ Below(k) # {}
                               /\ ~\E n \in Below(k) : \A m \in Below(k) :
                                      f[m] <= f[n]}
<1>1. MaxOps \in Nat /\ Below(MaxOps) = S /\ S \subseteq Nat
  <2>1. S \subseteq 1 .. MaxOps
    BY DEF Ops
  <2> QED BY <2>1, MaxOpsType
<1>2. ASSUME MaxOps \notin Bad
      PROVE  \E n \in S : \A m \in S : f[m] <= f[n]
  BY <1>1, <1>2
<1>3. SUFFICES ASSUME Bad # {} PROVE FALSE
  BY <1>2
<1>4. PICK k \in Bad : \A j \in Bad : k <= j
  BY <1>3, NatMin
<1>5. k \in Nat /\ k # 0 /\ k - 1 \in Nat /\ k - 1 \notin Bad
  BY <1>4
<1>6. Below(k) = Below(k - 1) \/ (k \in S /\ Below(k) = Below(k - 1) \cup {k})
  BY <1>1, <1>5
<1>7. \A n \in S : f[n] \in Nat
  BY DEF Ops
<1>8. CASE Below(k - 1) = {}
  <2>1. Below(k) = {k} /\ k \in S
    BY <1>4, <1>6, <1>8
  <2> QED BY <1>4, <1>7, <2>1
<1>9. CASE Below(k - 1) # {}
  <2>1. PICK n \in Below(k - 1) : \A m \in Below(k - 1) : f[m] <= f[n]
    BY <1>5, <1>9
  <2>2. CASE Below(k) = Below(k - 1)
    BY <1>4, <2>1, <2>2
  <2>3. CASE k \in S /\ Below(k) = Below(k - 1) \cup {k}
    <3>1. f[k] \in Nat /\ f[n] \in Nat /\ n \in Below(k) /\ k \in Below(k)
      BY <1>7, <2>1, <2>3
    <3>2. CASE f[k] <= f[n]
      BY <1>4, <2>1, <2>3, <3>1, <3>2
    <3>3. CASE f[n] <= f[k]
      <4>1. \A m \in Below(k) : f[m] <= f[k]
        BY <1>7, <2>1, <2>3, <3>1, <3>3
      <4> QED BY <1>4, <3>1, <4>1
    <3> QED BY <3>1, <3>2, <3>3
  <2> QED BY <1>6, <2>2, <2>3
<1> QED BY <1>8, <1>9

\* Sets of operations are finite.
LEMMA OpsFinite == \A S \in SUBSET Ops : IsFiniteSet(S) /\ Cardinality(S) \in Nat
<1> SUFFICES ASSUME NEW S \in SUBSET Ops
             PROVE  IsFiniteSet(S) /\ Cardinality(S) \in Nat
  OBVIOUS
<1>1. IsFiniteSet(Ops)
  BY BoundsAssumption, FS_Interval DEF Ops
<1>2. IsFiniteSet(S)
  BY <1>1, FS_Subset
<1> QED BY <1>2, FS_CardinalityType

\* A part of a finite set has no more elements.
LEMMA PartFinite ==
  ASSUME NEW b \in Nat, NEW S \in SUBSET (1 .. b), NEW T \in SUBSET S
  PROVE  /\ IsFiniteSet(S) /\ Cardinality(S) \in Nat
         /\ IsFiniteSet(T) /\ Cardinality(T) \in Nat
         /\ Cardinality(T) <= Cardinality(S)
         /\ Cardinality(S) = Cardinality(T) => S = T
<1>1. IsFiniteSet(1 .. b)
  BY FS_Interval
<1>2. IsFiniteSet(S)
  BY <1>1, FS_Subset
<1>3. /\ IsFiniteSet(T) /\ Cardinality(T) <= Cardinality(S)
      /\ Cardinality(S) = Cardinality(T) => S = T
  BY <1>2, FS_Subset
<1> QED BY <1>2, <1>3, FS_CardinalityType

\* The rank of a number among some numbers.
LEMMA RankType ==
  ASSUME NEW b \in Nat, NEW S \in SUBSET (1 .. b), NEW i \in S
  PROVE  Rank(i, S) \in 1 .. Cardinality(S) /\ Cardinality(S) \in Nat
<1> DEFINE B == {m \in S : m <= i}
<1>1. /\ IsFiniteSet(B) /\ Cardinality(S) \in Nat /\ Cardinality(B) \in Nat
      /\ Cardinality(B) <= Cardinality(S)
  <2>1. B \in SUBSET S
    OBVIOUS
  <2> HIDE DEF B
  <2> QED BY <2>1, PartFinite
<1>3. Cardinality(B) # 0
  <2>1. i \in B
    OBVIOUS
  <2> QED BY <1>1, <2>1, FS_EmptySet
<1> QED BY <1>1, <1>3 DEF Rank

\* Ranks follow the order of the calls.
LEMMA RankGrows ==
  ASSUME NEW b \in Nat, NEW S \in SUBSET (1 .. b), NEW i \in S, NEW j \in S, i < j
  PROVE  Rank(i, S) < Rank(j, S)
<1> DEFINE B == {m \in S : m <= i}
           C == {m \in S : m <= j}
<1>1. C \in SUBSET (1 .. b) /\ B \in SUBSET C /\ j \in C /\ j \notin B
  <2>1. /\ \A m \in S : m \in Nat /\ m \in 1 .. b
        /\ i \in Nat /\ j \in Nat
    OBVIOUS
  <2>2. \A m \in B : m \in C
    BY <2>1
  <2>3. j \notin B /\ j \in C
    BY <2>1
  <2>4. C \in SUBSET (1 .. b)
    BY <2>1
  <2> QED BY <2>2, <2>3, <2>4
<1>2. Rank(i, S) = Cardinality(B) /\ Rank(j, S) = Cardinality(C)
  BY DEF Rank
<1> HIDE DEF B, C
<1>3. /\ Cardinality(C) \in Nat /\ Cardinality(B) \in Nat
      /\ Cardinality(B) <= Cardinality(C)
      /\ Cardinality(C) = Cardinality(B) => C = B
  BY <1>1, PartFinite
<1> QED BY <1>1, <1>2, <1>3

\* Every place among some numbers is somebody's.
LEMMA RankIsTaken ==
  ASSUME NEW b \in Nat, NEW S \in SUBSET (1 .. b), NEW k \in 1 .. Cardinality(S)
  PROVE  \E i \in S : Rank(i, S) = k
<1> DEFINE f == [i \in S |-> Rank(i, S)]
           T == 1 .. Cardinality(S)
<1>1. IsFiniteSet(S) /\ Cardinality(S) \in Nat
  BY PartFinite
<1>2. \A i \in S : Rank(i, S) \in T
  BY RankType
<1>3. \A i, j \in S : i # j => Rank(i, S) # Rank(j, S)
  <2> SUFFICES ASSUME NEW i \in S, NEW j \in S, i # j
               PROVE  Rank(i, S) # Rank(j, S)
    OBVIOUS
  <2>1. Rank(i, S) \in Nat /\ Rank(j, S) \in Nat
    BY <1>1, <1>2
  <2>0. i \in Nat /\ j \in Nat /\ (i < j \/ j < i)
    OBVIOUS
  <2>2. ASSUME i < j PROVE Rank(i, S) < Rank(j, S)
    BY <2>2, RankGrows
  <2>3. ASSUME j < i PROVE Rank(j, S) < Rank(i, S)
    BY <2>3, RankGrows
  <2> HIDE DEF T
  <2> QED BY <2>0, <2>1, <2>2, <2>3
<1>4. f \in Injection(S, T)
  <2>1. f \in [S -> T] /\ \A i, j \in S : f[i] = f[j] => i = j
    BY <1>2, <1>3
  <2> HIDE DEF f
  <2> QED BY <2>1 DEF Injection, IsInjective
<1>5. IsFiniteSet(T) /\ Cardinality(T) = Cardinality(S)
  BY <1>1, FS_Interval
<1> HIDE DEF T
<1>6. f \in Surjection(S, T)
  BY <1>4, <1>5, FS_Injection
<1> QED BY <1>6 DEF Surjection, T

-----------------------------------------------------------------------------
(* What FRepo's operators return.                                          *)

RepoRecord ==
    [kind : [Ops -> Kinds],
     status : [Ops -> Statuses],
     output : [Ops -> Nat],
     stamp : [Ops -> Nat],
     retries : [Ops -> Nat],
     reason : [Ops -> Outcomes],
     report : [Ops -> Outcomes],
     queue : SUBSET Ops,
     cache : Nat \cup {None},
     seen : Nat,
     posted : Seq(Put)]

\* The newest of some writes is one of them.
LEMMA NewestType ==
  ASSUME NEW r \in RepoRecord, NEW S \in SUBSET Ops, S # {}
  PROVE  Newest(r, S) \in S
<1>1. r.stamp \in [Ops -> Nat]
  BY DEF RepoRecord
<1>2. \E n \in S : \A m \in S : r.stamp[m] <= r.stamp[n]
  BY <1>1, HasMaximum
<1> QED BY <1>2 DEF Newest

\* The last called of some operations is one of them.
LEMMA LastType ==
  ASSUME NEW S \in SUBSET Ops, S # {}
  PROVE  (CHOOSE n \in S : \A m \in S : m <= n) \in S
<1> DEFINE f == [n \in Ops |-> n]
<1>1. f \in [Ops -> Nat]
  BY MaxOpsType
<1>2. PICK n \in S : \A m \in S : f[m] <= f[n]
  BY <1>1, HasMaximum
<1>3. \A m \in S : m <= n
  BY <1>2
<1> QED BY <1>3

\* What the client sees is a figure.
LEMMA LatestType ==
  ASSUME NEW r \in RepoRecord, NEW without
  PROVE  LatestState(r, without) \in Nat
<1> DEFINE over == Pending(r) \ without
<1>1. over \in SUBSET Ops
  BY DEF Pending
<1>2. CASE over # {}
  <2>1. Newest(r, over) \in Ops
    BY <1>1, <1>2, NewestType
  <2> QED BY <1>2, <2>1 DEF LatestState, RepoRecord
<1>3. CASE over = {}
  <2>1. r.cache \in Nat \cup {None}
    BY DEF RepoRecord
  <2> QED BY <1>3, <2>1 DEF LatestState
<1> QED BY <1>2, <1>3

\* Stamps are numbers.
LEMMA TopStampType ==
  ASSUME NEW r \in RepoRecord, NEW S \in SUBSET Ops
  PROVE  TopStamp(r, S) \in Nat
<1>1. CASE S = {}
  BY <1>1 DEF TopStamp
<1>2. CASE S # {}
  <2>1. Newest(r, S) \in Ops
    BY <1>2, NewestType
  <2> QED BY <1>2, <2>1 DEF TopStamp, RepoRecord
<1> QED BY <1>1, <1>2

\* Ranks are numbers.
LEMMA OpsRankType ==
  ASSUME NEW S \in SUBSET Ops, NEW n
  PROVE  Rank(n, S) \in Nat /\ Cardinality(S) \in Nat
<1> DEFINE T == {m \in S : m <= n}
<1>1. T \in SUBSET S /\ S \in SUBSET (1 .. MaxOps) /\ MaxOps \in Nat
  BY MaxOpsType DEF Ops
<1> HIDE DEF T
<1>2. Cardinality(T) \in Nat /\ Cardinality(S) \in Nat
  BY <1>1, PartFinite
<1> QED BY <1>2 DEF Rank, T

\* Completed transactions leave a record of FRepo typed.
LEMMA CompleteType ==
  ASSUME NEW r \in RepoRecord, NEW S \in SUBSET Ops,
         NEW outcome \in [Ops -> Outcomes], NEW s, s = Complete(r, S, outcome)
  PROVE  /\ s \in RepoRecord
         /\ s.kind = r.kind /\ s.output = r.output /\ s.retries = r.retries
         /\ s.reason = r.reason /\ s.cache = r.cache /\ s.seen = r.seen
         /\ s.posted = r.posted
         /\ s.queue = r.queue \ S
         /\ \A n \in Ops : /\ s.status[n] = IF n \in S THEN "completed"
                                           ELSE r.status[n]
                           /\ s.report[n] = IF n \in S THEN outcome[n]
                                           ELSE r.report[n]
BY Zenon DEF Complete, RepoRecord, Statuses

\* Either nothing is sent, or the whole queue is, all of which ran.
LEMMA SendType ==
  ASSUME NEW r \in RepoRecord, NEW s, s = SendAllReady(r), s # r
  PROVE  /\ s \in RepoRecord
         /\ s.kind = r.kind /\ s.report = r.report /\ s.reason = r.reason
         /\ s.queue = r.queue /\ s.seen = r.seen
         /\ r.queue # {} /\ \A n \in r.queue : r.status[n] = "run"
         /\ \A n \in Ops : s.status[n] = IF n \in r.queue THEN "sent"
                                        ELSE r.status[n]
         /\ \E put \in Put : /\ s.posted = Append(r.posted, put)
                            /\ put.of = r.queue /\ ~put.sent
                            /\ put.hash # None
<1>1. r.queue # {} /\ \A n \in r.queue : r.status[n] = "run"
  BY DEF SendAllReady
<1>2. PICK last : last = CHOOSE n \in r.queue : \A m \in r.queue : m <= n
  OBVIOUS
<1>3. PICK put : put = [of |-> r.queue, value |-> r.output[last],
                        hash |-> HashSent(r), sent |-> FALSE]
  OBVIOUS
<1>4. put \in Put /\ put.of = r.queue /\ ~put.sent /\ put.hash # None
  <2>1. last \in Ops
    BY <1>1, <1>2, LastType DEF RepoRecord
  <2>2. HashSent(r) \in Nat
    BY LatestType DEF HashSent
  <2>3. HashSent(r) # None
    BY <2>2 DEF None
  <2> QED BY <1>3, <2>1, <2>2, <2>3 DEF Put, RepoRecord
<1> DEFINE status == [n \in Ops |-> IF n \in r.queue THEN "sent"
                                    ELSE r.status[n]]
           retries == [n \in Ops |-> IF n \in r.queue THEN r.retries[n] + 1
                                     ELSE r.retries[n]]
           posted == Append(r.posted, put)
<1>5. s = [r EXCEPT !.status = status, !.retries = retries, !.posted = posted]
  BY <1>1, <1>2, <1>3 DEF SendAllReady
<1>6. /\ status \in [Ops -> Statuses] /\ retries \in [Ops -> Nat]
      /\ posted \in Seq(Put)
  BY <1>4 DEF RepoRecord, Statuses
<1>7. \A n \in Ops : status[n] = IF n \in r.queue THEN "sent" ELSE r.status[n]
  OBVIOUS
<1> HIDE DEF status, retries
<1> QED BY <1>1, <1>4, <1>5, <1>6, <1>7 DEF RepoRecord

\* Who is given up, and who leaves the queue, when it runs again.
Tired(r) == {n \in r.queue : Exhausted(r, n)}
Ended(r) == Tired(r) \cup {n \in r.queue : r.status[n] = "needsAbort"}

\* So does running the queue again.
LEMMA RerunType ==
  ASSUME NEW r \in RepoRecord, NEW s, s = RerunQueue(r)
  PROVE  /\ s \in RepoRecord
         /\ s.kind = r.kind /\ s.posted = r.posted /\ s.reason = r.reason
         /\ s.queue = r.queue \ Ended(r) /\ s.seen = r.seen
         /\ \A n \in Ops :
               /\ s.status[n] = IF n \in Ended(r) THEN "completed" ELSE r.status[n]
               /\ s.report[n] = IF n \in Tired(r) THEN "retries"
                                ELSE IF n \in Ended(r) THEN r.reason[n]
                                ELSE r.report[n]
<1> DEFINE again == {n \in r.queue \ Tired(r) : r.status[n] = "run"}
<1>0. PICK outcome : outcome = [n \in Ops |-> IF n \in Tired(r) THEN "retries"
                                              ELSE r.reason[n]]
  OBVIOUS
<1>1. PICK base : base = LatestState(r, r.queue)
  OBVIOUS
<1>2. PICK top : top = TopStamp(r, Pending(r) \ (again \cup Ended(r)))
  OBVIOUS
<1>3. PICK done : done = Complete(r, Ended(r), outcome)
  OBVIOUS
<1>4. s = [done EXCEPT
            !.output = [n \in Ops |->
                            IF n \in again THEN base + Rank(n, again) ELSE @[n]],
            !.stamp = [n \in Ops |->
                            IF n \in again THEN top + Rank(n, again) ELSE @[n]]]
  BY <1>0, <1>1, <1>2, <1>3, Zenon DEF RerunQueue, Tired, Ended
<1>5. /\ Tired(r) \in SUBSET Ops /\ Ended(r) \in SUBSET Ops /\ again \in SUBSET Ops
      /\ outcome \in [Ops -> Outcomes]
      /\ \A n \in Ops : outcome[n] = IF n \in Tired(r) THEN "retries"
                                     ELSE r.reason[n]
  BY <1>0 DEF Tired, Ended, RepoRecord, Outcomes
<1>6. base \in Nat /\ top \in Nat /\ \A n \in Ops : Rank(n, again) \in Nat
  <2>1. Pending(r) \ (again \cup Ended(r)) \in SUBSET Ops
    BY DEF Pending
  <2> HIDE DEF again
  <2> QED BY <1>1, <1>2, <1>5, <2>1, LatestType, TopStampType, OpsRankType
<1> HIDE DEF again
<1>7. /\ done \in RepoRecord
      /\ done.kind = r.kind /\ done.posted = r.posted /\ done.reason = r.reason
      /\ done.queue = r.queue \ Ended(r) /\ done.seen = r.seen
      /\ \A n \in Ops : /\ done.status[n] = IF n \in Ended(r) THEN "completed"
                                           ELSE r.status[n]
                        /\ done.report[n] = IF n \in Ended(r) THEN outcome[n]
                                           ELSE r.report[n]
  BY <1>3, <1>5, Zenon DEF Complete, RepoRecord, Statuses
<1> DEFINE output == [n \in Ops |-> IF n \in again THEN base + Rank(n, again)
                                    ELSE done.output[n]]
           stamp == [n \in Ops |-> IF n \in again THEN top + Rank(n, again)
                                   ELSE done.stamp[n]]
<1>8. /\ output \in [Ops -> Nat] /\ stamp \in [Ops -> Nat]
  <2>1. done.output \in [Ops -> Nat] /\ done.stamp \in [Ops -> Nat]
    BY <1>7 DEF RepoRecord
  <2>2. \A n \in Ops : base + Rank(n, again) \in Nat /\ top + Rank(n, again) \in Nat
    BY <1>6
  <2> QED BY <2>1, <2>2
<1>9. s = [done EXCEPT !.output = output, !.stamp = stamp]
  BY <1>4
<1> HIDE DEF output, stamp
<1>10. /\ s \in RepoRecord
       /\ s.kind = done.kind /\ s.posted = done.posted /\ s.reason = done.reason
       /\ s.queue = done.queue /\ s.status = done.status /\ s.report = done.report
       /\ s.seen = done.seen
  BY <1>7, <1>8, <1>9 DEF RepoRecord
<1>11. Tired(r) \subseteq Ended(r)
  BY DEF Ended
<1> QED BY <1>5, <1>7, <1>10, <1>11

\* When those marked were called before all others of a queue, the places up to
\* their number are theirs.
LEMMA RankOfMarked ==
  ASSUME NEW Q \in SUBSET Ops, NEW S \in SUBSET Q,
         \A m \in S, n \in Q \ S : m < n
  PROVE  {n \in Q : Rank(n, Q) <= Cardinality(S)} = S
<1>1. Q \in SUBSET (1 .. MaxOps) /\ MaxOps \in Nat /\ Q \in SUBSET Nat
  BY MaxOpsType DEF Ops
<1>2. ASSUME NEW n \in S PROVE Rank(n, Q) <= Cardinality(S)
  <2> DEFINE B == {m \in Q : m <= n}
  <2>1. \A m \in B : m \in S
    <3> SUFFICES ASSUME NEW m \in B, m \notin S PROVE FALSE
      OBVIOUS
    <3>1. n < m /\ m <= n /\ m \in Nat /\ n \in Nat
      BY <1>1
    <3> QED BY <3>1
  <2>2. B \in SUBSET S /\ S \in SUBSET (1 .. MaxOps)
    BY <1>1, <2>1
  <2> HIDE DEF B
  <2>3. Cardinality(B) <= Cardinality(S)
    BY <1>1, <2>2, PartFinite
  <2> QED BY <2>3 DEF Rank, B
<1>3. ASSUME NEW n \in Q, n \notin S PROVE ~(Rank(n, Q) <= Cardinality(S))
  <2> DEFINE B == {m \in Q : m <= n}
  <2>1. \A m \in S : m \in B
    <3> SUFFICES ASSUME NEW m \in S PROVE m \in B
      OBVIOUS
    <3>1. m < n /\ m \in Nat /\ n \in Nat
      BY <1>1, <1>3
    <3> QED BY <3>1
  <2>2. S \in SUBSET B /\ B \in SUBSET (1 .. MaxOps)
    BY <1>1, <2>1
  <2>3. n \in B /\ S # B
    <3>1. n \in Nat
      BY <1>1
    <3> QED BY <1>3, <3>1
  <2> HIDE DEF B
  <2>4. /\ Cardinality(S) \in Nat /\ Cardinality(B) \in Nat
        /\ Cardinality(S) <= Cardinality(B) /\ Cardinality(B) # Cardinality(S)
    BY <1>1, <2>2, <2>3, PartFinite
  <2>5. Rank(n, Q) = Cardinality(B)
    BY DEF Rank, B
  <2> QED BY <2>4, <2>5
<1> QED BY <1>2, <1>3

Marked(r) == {n \in r.queue : r.status[n] = "sent"}

\* So does aborting it.
LEMMA AbortType ==
  ASSUME NEW r \in RepoRecord, NEW s, s = AbortQueue(r)
  PROVE  /\ s \in RepoRecord
         /\ s.kind = r.kind /\ s.posted = r.posted /\ s.seen = r.seen
         /\ s.queue = {n \in r.queue : Rank(n, r.queue) <= Cardinality(Marked(r))}
         /\ \A n \in Ops :
               /\ s.status[n] = IF n \in Marked(r) THEN "sentNeedsAbort"
                                ELSE IF n \in r.queue \ InFlight(r) THEN "completed"
                                ELSE r.status[n]
               /\ s.reason[n] = IF n \in Marked(r) THEN "set" ELSE r.reason[n]
               /\ s.report[n] = IF n \in r.queue \ InFlight(r) THEN "set"
                                ELSE r.report[n]
<1>0. PICK outcome : outcome = [n \in Ops |-> "set"]
  OBVIOUS
<1>1. PICK ended : ended = r.queue \ InFlight(r)
  OBVIOUS
<1>2. PICK done : done = Complete(r, ended, outcome)
  OBVIOUS
<1> DEFINE status == [n \in Ops |-> IF n \in Marked(r) THEN "sentNeedsAbort"
                                    ELSE done.status[n]]
           reason == [n \in Ops |-> IF n \in Marked(r) THEN "set"
                                    ELSE done.reason[n]]
           queue == {n \in r.queue : Rank(n, r.queue) <= Cardinality(Marked(r))}
<1>3. s = [done EXCEPT !.status = status, !.reason = reason, !.queue = queue]
  BY <1>0, <1>1, <1>2 DEF AbortQueue, Marked
<1>4. /\ ended \in SUBSET Ops /\ outcome \in [Ops -> Outcomes]
      /\ \A n \in Ops : outcome[n] = "set"
  BY <1>0, <1>1 DEF RepoRecord, Outcomes
<1>5. /\ done \in RepoRecord /\ done.seen = r.seen
      /\ done.kind = r.kind /\ done.posted = r.posted /\ done.reason = r.reason
      /\ \A n \in Ops : /\ done.status[n] = IF n \in ended THEN "completed"
                                           ELSE r.status[n]
                        /\ done.report[n] = IF n \in ended THEN outcome[n]
                                           ELSE r.report[n]
  BY <1>2, <1>4, Zenon DEF Complete, RepoRecord, Statuses
<1>6. /\ status \in [Ops -> Statuses] /\ reason \in [Ops -> Outcomes]
      /\ queue \in SUBSET Ops
  BY <1>5 DEF RepoRecord, Statuses, Outcomes
<1>7. \A n \in Ops :
        /\ status[n] = IF n \in Marked(r) THEN "sentNeedsAbort"
                       ELSE IF n \in ended THEN "completed" ELSE r.status[n]
        /\ reason[n] = IF n \in Marked(r) THEN "set" ELSE r.reason[n]
        /\ done.report[n] = IF n \in ended THEN "set" ELSE r.report[n]
  BY <1>4, <1>5
<1>8. queue = {n \in r.queue : Rank(n, r.queue) <= Cardinality(Marked(r))}
  OBVIOUS
<1> HIDE DEF status, reason, queue
<1>9. /\ s \in RepoRecord
      /\ s.kind = r.kind /\ s.posted = r.posted
      /\ s.status = status /\ s.reason = reason /\ s.queue = queue
      /\ s.report = done.report /\ s.seen = done.seen
  BY <1>3, <1>5, <1>6 DEF RepoRecord
<1> QED BY <1>1, <1>5, <1>7, <1>8, <1>9

-----------------------------------------------------------------------------
(* What FRepo's record says of the transactions, given how often each was   *)
(* applied (L) and which puts are still to be answered to it (F).           *)

Flight == {"sent", "sentNeedsAbort"}

\* The queue: transactions waiting or on their way.  Those on their way come
\* first, and an overwrite has marked all of them or none.
QueueOk(r) ==
    /\ \A n \in r.queue : /\ Is(r, n, "transaction")
                          /\ r.status[n] \in {"run", "needsAbort"} \cup Flight
    /\ \A m, n \in r.queue : r.status[m] \in Flight =>
          IF r.status[n] \in Flight THEN r.status[m] = r.status[n] ELSE m < n

\* Between two handlers none of it waits to be aborted.
NoneAborting(r) == \A n \in r.queue : r.status[n] # "needsAbort"

\* Operations are called in the order of their numbers.
CalledInOrder(r) ==
    \A m, n \in Ops : m < n /\ ~Is(r, n, "none") => ~Is(r, m, "none")

\* How often a transaction was applied, by what it is waiting for or was told.
FateOk(r, L, n) ==
    /\ Is(r, n, "none") => L[n] = 0 /\ r.report[n] = "none"
    /\ Is(r, n, "transaction") =>
         /\ L[n] <= 1
         /\ r.status[n] = "run" => L[n] = 0
         /\ r.status[n] = "sentNeedsAbort" => r.reason[n] = "set"
         /\ r.status[n] = "needsAbort" =>
               /\ r.reason[n] \in {"set", "denied", "disconnect"}
               /\ r.reason[n] # "disconnect" => L[n] = 0
         /\ r.status[n] # "completed" => r.report[n] = "none"
         /\ r.report[n] = "ok" => L[n] = 1
         /\ r.report[n] \in {"set", "retries", "denied"} => L[n] = 0

\* A put that FRepo has no answer to yet is of one overwrite, or of transactions
\* on their way: all those of the queue that are, if one is.
PutOk(r, f) ==
    /\ f # {} /\ f \subseteq Ops
    /\ \A n \in f : \/ Is(r, n, "overwrite") /\ f = {n}
                    \/ Is(r, n, "transaction") /\ r.status[n] \in Flight
    /\ \A m, n \in r.queue : m \in f /\ r.status[n] \in Flight => n \in f

FlyingOk(r, F) == \A f \in F : PutOk(r, f)

\* The puts a handler has not handed over yet are new ones.
NewPut(r, F, L, put) ==
    /\ PutOk(r, put.of)
    /\ ~put.sent
    /\ \A n \in put.of : IF Is(r, n, "overwrite") THEN put.hash = None
                         ELSE put.hash # None /\ L[n] = 0
    /\ \A f \in F : f \cap put.of = {}

Distinct(s) == \A i, j \in DOMAIN s : i # j => s[i].of \cap s[j].of = {}

PostedOk(r, F, L) ==
    /\ \A i \in DOMAIN r.posted : NewPut(r, F, L, r.posted[i])
    /\ Distinct(r.posted)

RepoOk(r, F, L) ==
    /\ r \in RepoRecord
    /\ QueueOk(r)
    /\ CalledInOrder(r)
    /\ \A n \in Ops : FateOk(r, L, n)
    /\ FlyingOk(r, F)
    /\ PostedOk(r, F, L)

\* A handler that answers none of the puts, and lets none of the queue take off,
\* keeps what is said of them.
LEMMA KeepsPuts ==
  ASSUME NEW r, NEW s, NEW f, PutOk(r, f), s.kind = r.kind,
         s.queue \subseteq r.queue,
         \A n \in f : r.status[n] \in Flight => s.status[n] \in Flight,
         \A n \in s.queue : s.status[n] \in Flight => r.status[n] \in Flight
  PROVE  PutOk(s, f)
BY DEF PutOk, Is

\* A handler that posts nothing keeps what is said of posted puts.
LEMMA KeepsPosted ==
  ASSUME NEW r, NEW s, NEW F, NEW L, PostedOk(r, F, L), FlyingOk(r, F),
         s.kind = r.kind, s.posted = r.posted,
         s.queue \subseteq r.queue,
         \A n \in Ops : r.status[n] \in Flight => s.status[n] \in Flight,
         \A n \in s.queue : s.status[n] \in Flight => r.status[n] \in Flight
  PROVE  PostedOk(s, F, L) /\ FlyingOk(s, F)
<1>1. \A f : PutOk(r, f) => PutOk(s, f)
  BY KeepsPuts, Zenon DEF PutOk
<1> QED BY <1>1 DEF PostedOk, FlyingOk, NewPut, Is

\* Running the queue again gives up or aborts only what was not applied, or of
\* which nothing is known.
LEMMA RerunQueueOk ==
  ASSUME NEW r, NEW F, NEW L \in [Ops -> Nat], RepoOk(r, F, L),
         NEW s, s = RerunQueue(r)
  PROVE  RepoOk(s, F, L) /\ NoneAborting(s) /\ s.kind = r.kind
<1>1. /\ r \in RepoRecord /\ s \in RepoRecord
      /\ s.kind = r.kind /\ s.posted = r.posted /\ s.reason = r.reason
      /\ s.queue = r.queue \ Ended(r)
      /\ \A n \in Ops :
            /\ s.status[n] = IF n \in Ended(r) THEN "completed" ELSE r.status[n]
            /\ s.report[n] = IF n \in Tired(r) THEN "retries"
                             ELSE IF n \in Ended(r) THEN r.reason[n]
                             ELSE r.report[n]
  BY RerunType DEF RepoOk
<1>2. r.queue \subseteq Ops
  BY <1>1 DEF RepoRecord
<1>3. \A n \in Ended(r) : /\ n \in r.queue /\ Is(r, n, "transaction")
                          /\ r.status[n] \in {"run", "needsAbort"}
                          /\ (n \notin Tired(r) => r.status[n] = "needsAbort")
                          /\ (n \in Tired(r) => r.status[n] = "run")
  BY DEF Ended, Tired, Exhausted, RepoOk, QueueOk
<1>4. QueueOk(s) /\ NoneAborting(s)
  BY <1>1, <1>2 DEF RepoOk, QueueOk, NoneAborting, Ended, Is
<1>5. ASSUME NEW n \in Ops PROVE FateOk(s, L, n)
  <2>1. FateOk(r, L, n) /\ L[n] \in Nat
    BY DEF RepoOk
  <2>2. CASE n \in Ended(r)
    BY <1>1, <1>3, <2>1, <2>2 DEF FateOk, Is
  <2>3. CASE n \notin Ended(r)
    <3>1. n \notin Tired(r)
      BY <2>3 DEF Ended
    <3> QED BY <1>1, <2>1, <2>3, <3>1 DEF FateOk, Is
  <2> QED BY <2>2, <2>3
<1>6. PostedOk(s, F, L) /\ FlyingOk(s, F)
  <2>1. \A n \in Ops : r.status[n] \in Flight => s.status[n] \in Flight
    BY <1>1, <1>3 DEF Flight
  <2>2. \A n \in s.queue : s.status[n] \in Flight => r.status[n] \in Flight
    BY <1>1, <1>2
  <2>3. s.queue \subseteq r.queue
    BY <1>1
  <2> QED BY <1>1, <2>1, <2>2, <2>3, KeepsPosted DEF RepoOk
<1>7. CalledInOrder(s)
  BY <1>1 DEF RepoOk, CalledInOrder, Is
<1> QED BY <1>1, <1>4, <1>5, <1>6, <1>7 DEF RepoOk

\* What is sent was not applied, and nothing else is on its way for it.
LEMMA SendOk ==
  ASSUME NEW r, NEW F, NEW L \in [Ops -> Nat], RepoOk(r, F, L), NoneAborting(r),
         NEW s, s = SendAllReady(r)
  PROVE  RepoOk(s, F, L) /\ NoneAborting(s) /\ s.kind = r.kind
<1>1. CASE s = r
  BY <1>1
<1>2. CASE s # r
  <2>1. r \in RepoRecord /\ r.queue \subseteq Ops
    BY DEF RepoOk, RepoRecord
  <2>2. /\ s \in RepoRecord
        /\ s.kind = r.kind /\ s.report = r.report /\ s.reason = r.reason
        /\ s.queue = r.queue
        /\ r.queue # {} /\ \A n \in r.queue : r.status[n] = "run"
        /\ \A n \in Ops : s.status[n] = IF n \in r.queue THEN "sent"
                                        ELSE r.status[n]
    BY <1>2, <2>1, SendType
  <2>3. PICK put \in Put : /\ s.posted = Append(r.posted, put)
                           /\ put.of = r.queue /\ ~put.sent
                           /\ put.hash # None
    BY <1>2, <2>1, SendType
  <2>4. QueueOk(s) /\ NoneAborting(s)
    BY <2>1, <2>2 DEF RepoOk, QueueOk, NoneAborting, Is, Flight
  <2>5. CalledInOrder(s)
    BY <2>2 DEF RepoOk, CalledInOrder, Is
  <2>6. ASSUME NEW n \in Ops PROVE FateOk(s, L, n)
    <3>1. FateOk(r, L, n)
      BY DEF RepoOk
    <3> QED BY <2>1, <2>2, <3>1 DEF FateOk, Is
  \* No put is of a member of the queue, all of which ran.
  <2>7. ASSUME NEW f, PutOk(r, f) PROVE PutOk(s, f) /\ f \cap r.queue = {}
    <3>1. f \cap r.queue = {}
      BY <2>2, <2>7 DEF RepoOk, QueueOk, PutOk, Is, Flight
    <3>2. PutOk(s, f)
      BY <2>1, <2>2, <2>7, <3>1 DEF PutOk, Is
    <3> QED BY <3>1, <3>2
  <2>8. NewPut(s, F, L, put)
    <3>1. PutOk(s, put.of)
      BY <2>1, <2>2, <2>3 DEF PutOk, Flight, RepoOk, QueueOk, Is
    <3>2. \A n \in put.of : ~Is(s, n, "overwrite") /\ L[n] = 0
      BY <2>1, <2>2, <2>3 DEF RepoOk, QueueOk, FateOk, Is
    <3>3. \A f \in F : f \cap put.of = {}
      BY <2>3, <2>7 DEF RepoOk, FlyingOk
    <3> QED BY <2>3, <3>1, <3>2, <3>3 DEF NewPut
  <2>9. \A i \in DOMAIN r.posted :
            NewPut(s, F, L, r.posted[i]) /\ r.posted[i].of \cap put.of = {}
    BY <2>2, <2>3, <2>7 DEF RepoOk, PostedOk, NewPut, Is
  <2>10. PostedOk(s, F, L)
    <3>1. r.posted \in Seq(Put)
      BY <2>1 DEF RepoRecord
    <3>2. \A i \in DOMAIN s.posted : \/ i \in DOMAIN r.posted /\ s.posted[i] = r.posted[i]
                                     \/ i = Len(r.posted) + 1 /\ s.posted[i] = put
      BY <2>3, <3>1
    <3>3. Distinct(r.posted)
      BY DEF RepoOk, PostedOk
    <3>4. Distinct(s.posted)
      BY <2>9, <3>2, <3>3 DEF Distinct
    <3> QED BY <2>8, <2>9, <3>2, <3>4 DEF PostedOk
  <2>11. FlyingOk(s, F)
    BY <2>7 DEF RepoOk, FlyingOk
  <2> QED BY <2>2, <2>4, <2>5, <2>6, <2>10, <2>11 DEF RepoOk
<1> QED BY <1>1, <1>2

\* The queue run again and sent keeps what is said of FRepo, and none is left to
\* be aborted (rerunTransactionQueue:atPath:).
LEMMA RerunOk ==
  ASSUME NEW r, NEW F, NEW L \in [Ops -> Nat], RepoOk(r, F, L),
         NEW s, s = Rerun(r)
  PROVE  RepoOk(s, F, L) /\ NoneAborting(s) /\ s.kind = r.kind
<1>1. PICK q : q = RerunQueue(r)
  OBVIOUS
<1>2. RepoOk(q, F, L) /\ NoneAborting(q) /\ q.kind = r.kind
  BY <1>1, RerunQueueOk
<1> QED BY <1>1, <1>2, SendOk DEF Rerun

\* An overwrite ends the transactions that wait, which were not applied, and
\* keeps those on their way if it has marked them now.
LEMMA AbortOk ==
  ASSUME NEW r, NEW F, NEW L \in [Ops -> Nat], RepoOk(r, F, L), NoneAborting(r),
         NEW s, s = AbortQueue(r)
  PROVE  RepoOk(s, F, L) /\ s.kind = r.kind
<1>1. /\ r \in RepoRecord /\ s \in RepoRecord
      /\ s.kind = r.kind /\ s.posted = r.posted
      /\ s.queue = {n \in r.queue : Rank(n, r.queue) <= Cardinality(Marked(r))}
      /\ \A n \in Ops :
            /\ s.status[n] = IF n \in Marked(r) THEN "sentNeedsAbort"
                             ELSE IF n \in r.queue \ InFlight(r) THEN "completed"
                             ELSE r.status[n]
            /\ s.reason[n] = IF n \in Marked(r) THEN "set" ELSE r.reason[n]
            /\ s.report[n] = IF n \in r.queue \ InFlight(r) THEN "set"
                             ELSE r.report[n]
  BY AbortType DEF RepoOk
<1>2. /\ r.queue \subseteq Ops /\ Marked(r) \subseteq r.queue
      /\ \A n \in r.queue : n \in InFlight(r) <=> r.status[n] \in Flight
      /\ \A n \in Marked(r) : r.status[n] = "sent"
  BY <1>1 DEF RepoRecord, Marked, InFlight, Flight
<1>3. s.queue = Marked(r)
  <2>1. \A m \in Marked(r), n \in r.queue \ Marked(r) : m < n
    BY <1>2 DEF RepoOk, QueueOk, Marked, Flight
  <2> QED BY <1>1, <1>2, <2>1, RankOfMarked
<1>4. QueueOk(s)
  BY <1>1, <1>2, <1>3 DEF QueueOk, RepoOk, Is, Flight
<1>5. CalledInOrder(s)
  BY <1>1 DEF RepoOk, CalledInOrder, Is
<1>6. ASSUME NEW n \in Ops PROVE FateOk(s, L, n)
  <2>1. FateOk(r, L, n)
    BY DEF RepoOk
  <2>2. CASE n \in Marked(r)
    BY <1>1, <1>2, <2>1, <2>2 DEF FateOk, Is, Flight
  <2>3. CASE n \in r.queue \ InFlight(r)
    <3>1. r.status[n] = "run" /\ Is(r, n, "transaction") /\ n \notin Marked(r)
      BY <1>2, <2>3 DEF RepoOk, QueueOk, NoneAborting, Flight
    <3> QED BY <1>1, <2>1, <2>3, <3>1 DEF FateOk, Is
  <2>4. CASE n \notin Marked(r) /\ n \notin r.queue \ InFlight(r)
    BY <1>1, <2>1, <2>4 DEF FateOk, Is
  <2> QED BY <2>2, <2>3, <2>4
<1>7. PostedOk(s, F, L) /\ FlyingOk(s, F)
  <2>1. \A n \in Ops : r.status[n] \in Flight => s.status[n] \in Flight
    BY <1>1, <1>2 DEF Flight
  <2>2. \A n \in s.queue : s.status[n] \in Flight => r.status[n] \in Flight
    BY <1>2, <1>3 DEF Flight
  <2>3. s.queue \subseteq r.queue
    BY <1>2, <1>3
  <2> QED BY <1>1, <2>1, <2>2, <2>3, KeepsPosted DEF RepoOk
<1> QED BY <1>1, <1>4, <1>5, <1>6, <1>7 DEF RepoOk

\* An answer is true of the operations it is given for.
AnswerTrue(r, L, answer) ==
    \A n \in answer.of :
        /\ Is(r, n, "overwrite") => answer.status \in {"ok", "denied"}
        /\ Is(r, n, "transaction") =>
              /\ answer.status = "ok" => L[n] = 1
              /\ answer.status \in {"datastale", "denied"} => L[n] = 0

\* When the operations of a put are no longer on their way, all others are as
\* they were.
LEMMA OthersStay ==
  ASSUME NEW r, NEW F, NEW L, RepoOk(r, F, L),
         NEW f \in F, \A g \in F : g # f => g \cap f = {},
         NEW t, t.kind = r.kind, t.queue \subseteq r.queue,
         \A n \in Ops \ f : t.status[n] = r.status[n],
         \A n \in f : t.status[n] \notin Flight,
         \A n \in f \cap t.queue : t.status[n] \in {"run", "needsAbort"}
  PROVE  QueueOk(t) /\ FlyingOk(t, F \ {f})
<1>1. r.queue \subseteq Ops /\ PutOk(r, f)
  BY DEF RepoOk, RepoRecord, FlyingOk
<1>2. \A n \in t.queue : t.status[n] \in Flight =>
        n \notin f /\ r.status[n] \in Flight /\ t.status[n] = r.status[n]
  BY <1>1
<1>3. \A n \in t.queue : /\ Is(t, n, "transaction")
                         /\ t.status[n] \in {"run", "needsAbort"} \cup Flight
  BY <1>1 DEF RepoOk, QueueOk, Is
<1>4. ASSUME NEW m \in t.queue, NEW n \in t.queue, t.status[m] \in Flight
      PROVE  IF t.status[n] \in Flight THEN t.status[m] = t.status[n] ELSE m < n
  <2>1. m \notin f /\ r.status[m] \in Flight /\ t.status[m] = r.status[m]
    BY <1>2, <1>4
  \* The put answered was not of the queue: it would have been of m, too.
  <2>2. n \notin f
    BY <1>1, <2>1 DEF PutOk
  <2>3. t.status[n] = r.status[n]
    BY <1>1, <2>2
  <2> QED BY <2>1, <2>3 DEF RepoOk, QueueOk
<1>5. ASSUME NEW g \in F \ {f} PROVE PutOk(t, g)
  <2>1. PutOk(r, g) /\ g \cap f = {}
    BY DEF RepoOk, FlyingOk
  <2>2. \A n \in g : t.status[n] = r.status[n]
    BY <2>1 DEF PutOk
  <2> QED BY <1>2, <2>1, <2>2 DEF PutOk, Is
<1> QED BY <1>3, <1>4, <1>5 DEF QueueOk, FlyingOk

\* What is told to a transaction, or done with it, is what its answer says.
LEMMA TransactionAnsweredOk ==
  ASSUME NEW r, NEW F, NEW L \in [Ops -> Nat], RepoOk(r, F, L), NoneAborting(r),
         r.posted = <<>>, NEW f \in F, \A g \in F : g # f => g \cap f = {},
         \A n \in f : Is(r, n, "transaction"),
         NEW status \in {"ok", "datastale", "denied", "disconnect"},
         AnswerTrue(r, L, [of |-> f, status |-> status]),
         NEW s, s = TransactionAnswered(r, f, status)
  PROVE  RepoOk(s, F \ {f}, L)
<1>1. /\ r \in RepoRecord /\ PutOk(r, f) /\ f \subseteq Ops
      /\ \A n \in Ops : FateOk(r, L, n)
  BY DEF RepoOk, FlyingOk, PutOk
<1>2. \A n \in f : /\ Is(r, n, "transaction") /\ r.status[n] \in Flight
                   /\ (status = "ok" => L[n] = 1)
                   /\ (status \in {"datastale", "denied"} => L[n] = 0)
  <2>1. \A n \in f : r.status[n] \in Flight
    BY <1>1 DEF PutOk, Is
  <2>2. \A n \in f : /\ (status = "ok" => L[n] = 1)
                     /\ (status \in {"datastale", "denied"} => L[n] = 0)
    BY DEF AnswerTrue
  <2> QED BY <2>1, <2>2
<1>3. ASSUME NEW t, t.kind = r.kind, t.posted = <<>>
      PROVE  CalledInOrder(t) /\ PostedOk(t, F \ {f}, L)
  BY <1>3 DEF RepoOk, CalledInOrder, Is, PostedOk, Distinct
<1>4. CASE status = "ok"
  <2>1. PICK outcome : outcome = [n \in Ops |-> "ok"]
    OBVIOUS
  <2>2. PICK t : t = Complete(r, f, outcome)
    OBVIOUS
  <2>3. outcome \in [Ops -> Outcomes] /\ \A n \in Ops : outcome[n] = "ok"
    BY <2>1 DEF Outcomes
  <2>4. /\ t \in RepoRecord
        /\ t.kind = r.kind /\ t.reason = r.reason /\ t.posted = <<>>
        /\ t.queue = r.queue \ f
        /\ \A n \in Ops : /\ t.status[n] = IF n \in f THEN "completed"
                                           ELSE r.status[n]
                          /\ t.report[n] = IF n \in f THEN outcome[n]
                                           ELSE r.report[n]
    BY <1>1, <2>2, <2>3, Zenon DEF Complete, RepoRecord, Statuses
  <2>5. QueueOk(t) /\ FlyingOk(t, F \ {f})
    <3>1. \A n \in f : t.status[n] \notin Flight
      BY <1>1, <2>4 DEF Flight
    <3> QED BY <2>4, <3>1, OthersStay
  <2>6. ASSUME NEW n \in Ops PROVE FateOk(t, L, n)
    <3>1. FateOk(r, L, n)
      BY <1>1
    <3>2. CASE n \in f
      <4>1. /\ Is(t, n, "transaction") /\ L[n] = 1
            /\ t.status[n] = "completed" /\ t.report[n] = "ok"
        BY <1>2, <1>4, <2>3, <2>4, <3>2 DEF Is
      <4> QED BY <4>1 DEF FateOk, Is
    <3>3. CASE n \notin f
      BY <2>4, <3>1, <3>3 DEF FateOk, Is
    <3> QED BY <3>2, <3>3
  <2>7. NoneAborting(t)
    BY <1>1, <2>4 DEF NoneAborting, RepoRecord
  <2>8. RepoOk(t, F \ {f}, L)
    BY <1>3, <2>4, <2>5, <2>6 DEF RepoOk
  <2>9. s = SendAllReady(t)
    BY <1>4, <2>1, <2>2 DEF TransactionAnswered
  <2> QED BY <2>4, <2>7, <2>8, <2>9, SendOk
<1>5. CASE status = "datastale"
  <2> DEFINE status2 == [n \in Ops |->
                            IF n \notin f THEN r.status[n]
                            ELSE IF r.status[n] = "sentNeedsAbort" THEN "needsAbort"
                            ELSE "run"]
  <2>1. s = [r EXCEPT !.status = status2]
    BY <1>5 DEF TransactionAnswered
  <2>2. status2 \in [Ops -> Statuses]
    BY <1>1 DEF RepoRecord, Statuses
  <2>3. \A n \in Ops : status2[n] = IF n \notin f THEN r.status[n]
                                    ELSE IF r.status[n] = "sentNeedsAbort"
                                         THEN "needsAbort" ELSE "run"
    OBVIOUS
  <2> HIDE DEF status2
  <2>4. /\ s \in RepoRecord
        /\ s.kind = r.kind /\ s.reason = r.reason /\ s.posted = <<>>
        /\ s.queue = r.queue /\ s.report = r.report /\ s.status = status2
    BY <1>1, <2>1, <2>2 DEF RepoRecord
  <2>5. QueueOk(s) /\ FlyingOk(s, F \ {f})
    <3>1. \A n \in f : s.status[n] \notin Flight
                       /\ s.status[n] \in {"run", "needsAbort"}
      BY <1>1, <2>3, <2>4 DEF Flight
    <3>2. \A n \in Ops \ f : s.status[n] = r.status[n]
      BY <2>3, <2>4
    <3> QED BY <2>4, <3>1, <3>2, OthersStay
  <2>6. ASSUME NEW n \in Ops PROVE FateOk(s, L, n)
    <3>1. CASE n \in f
      <4> FateOk(r, L, n)
        BY <1>1
      <4>1. /\ Is(s, n, "transaction") /\ Is(r, n, "transaction")
            /\ r.status[n] \in {"sent", "sentNeedsAbort"}
            /\ L[n] = 0 /\ s.report[n] = r.report[n] /\ s.reason[n] = r.reason[n]
        <5>1. Is(s, n, "transaction") /\ Is(r, n, "transaction")
          BY <1>2, <2>4, <3>1 DEF Is
        <5>2. r.status[n] \in {"sent", "sentNeedsAbort"} /\ L[n] = 0
          BY <1>2, <1>5, <3>1 DEF Flight
        <5> QED BY <2>4, <5>1, <5>2
      <4>2. s.status[n] = IF r.status[n] = "sentNeedsAbort" THEN "needsAbort"
                          ELSE "run"
        BY <2>3, <2>4, <3>1
      <4> QED BY <4>1, <4>2 DEF FateOk, Is
    <3>2. CASE n \notin f
      BY <1>1, <2>3, <2>4, <3>2 DEF FateOk, Is
    <3> QED BY <3>1, <3>2
  <2> QED BY <1>3, <2>4, <2>5, <2>6 DEF RepoOk
<1>6. CASE status \in {"denied", "disconnect"}
  <2> DEFINE status2 == [n \in Ops |-> IF n \in f THEN "needsAbort"
                                       ELSE r.status[n]]
             reason2 == [n \in Ops |-> IF n \in f THEN status ELSE r.reason[n]]
  <2>1. s = [r EXCEPT !.status = status2, !.reason = reason2]
    BY <1>6 DEF TransactionAnswered
  <2>2. status2 \in [Ops -> Statuses] /\ reason2 \in [Ops -> Outcomes]
    BY <1>1, <1>6 DEF RepoRecord, Statuses, Outcomes
  <2>3. \A n \in Ops :
          /\ status2[n] = IF n \in f THEN "needsAbort" ELSE r.status[n]
          /\ reason2[n] = IF n \in f THEN status ELSE r.reason[n]
    OBVIOUS
  <2> HIDE DEF status2, reason2
  <2>4. /\ s \in RepoRecord
        /\ s.kind = r.kind /\ s.reason = reason2 /\ s.posted = <<>>
        /\ s.queue = r.queue /\ s.report = r.report /\ s.status = status2
    BY <1>1, <2>1, <2>2 DEF RepoRecord
  <2>5. QueueOk(s) /\ FlyingOk(s, F \ {f})
    <3>1. \A n \in f : s.status[n] \notin Flight
                       /\ s.status[n] \in {"run", "needsAbort"}
      <4>1. \A n \in f : s.status[n] = "needsAbort"
        BY <1>1, <2>3, <2>4
      <4> QED BY <4>1 DEF Flight
    <3>2. \A n \in Ops \ f : s.status[n] = r.status[n]
      BY <2>3, <2>4
    <3>3. s.kind = r.kind /\ s.queue \subseteq r.queue
      BY <2>4
    <3> QED BY <3>1, <3>2, <3>3, OthersStay
  <2>6. ASSUME NEW n \in Ops PROVE FateOk(s, L, n)
    <3>1. CASE n \in f
      <4> FateOk(r, L, n)
        BY <1>1
      <4>1. /\ Is(s, n, "transaction") /\ Is(r, n, "transaction")
            /\ r.status[n] \in {"sent", "sentNeedsAbort"}
            /\ (status = "denied" => L[n] = 0) /\ s.report[n] = r.report[n]
        <5>1. Is(s, n, "transaction") /\ Is(r, n, "transaction")
          BY <1>2, <2>4, <3>1 DEF Is
        <5>2. /\ r.status[n] \in {"sent", "sentNeedsAbort"}
              /\ status = "denied" => L[n] = 0
          BY <1>2, <3>1 DEF Flight
        <5> QED BY <2>4, <5>1, <5>2
      <4>2. s.status[n] = "needsAbort" /\ s.reason[n] = status
        BY <2>3, <2>4, <3>1
      <4> QED BY <1>6, <4>1, <4>2 DEF FateOk, Is
    <3>2. CASE n \notin f
      BY <1>1, <2>3, <2>4, <3>2 DEF FateOk, Is
    <3> QED BY <3>1, <3>2
  <2> QED BY <1>3, <2>4, <2>5, <2>6 DEF RepoOk
<1> QED BY <1>4, <1>5, <1>6

\* The answer to an overwrite touches no transaction.
LEMMA OverwriteAnsweredOk ==
  ASSUME NEW r, NEW F, NEW L, RepoOk(r, F, L), NoneAborting(r),
         r.posted = <<>>, NEW n \in Ops, Is(r, n, "overwrite"),
         NEW status \in {"ok", "denied"},
         NEW s, s = OverwriteAnswered(r, n, status)
  PROVE  RepoOk(s, F \ {{n}}, L) /\ NoneAborting(s)
<1>1. r \in RepoRecord
  BY DEF RepoOk
<1>2. s = [r EXCEPT !.stamp = [r.stamp EXCEPT ![n] = 0],
                    !.report = [r.report EXCEPT ![n] = status]]
  BY DEF OverwriteAnswered
<1>3. /\ [r.stamp EXCEPT ![n] = 0] \in [Ops -> Nat]
      /\ [r.report EXCEPT ![n] = status] \in [Ops -> Outcomes]
  BY <1>1 DEF RepoRecord, Outcomes
<1>4. /\ s \in RepoRecord
      /\ s.kind = r.kind /\ s.status = r.status /\ s.reason = r.reason
      /\ s.queue = r.queue /\ s.posted = r.posted
      /\ s.report = [r.report EXCEPT ![n] = status]
  BY <1>1, <1>2, <1>3 DEF RepoRecord
<1>5. \A m \in Ops : m # n => s.report[m] = r.report[m]
  BY <1>1, <1>4 DEF RepoRecord
<1>6. QueueOk(s) /\ NoneAborting(s) /\ CalledInOrder(s)
  BY <1>4 DEF RepoOk, QueueOk, NoneAborting, CalledInOrder, Is
<1>7. \A m \in Ops : FateOk(s, L, m)
  BY <1>4, <1>5 DEF RepoOk, FateOk, Is
<1>8. FlyingOk(s, F \ {{n}}) /\ PostedOk(s, F \ {{n}}, L)
  <2>1. \A f : PutOk(r, f) => PutOk(s, f)
    BY <1>4 DEF PutOk, Is
  <2> QED BY <1>4, <2>1 DEF RepoOk, FlyingOk, PostedOk, Distinct
<1> QED BY <1>4, <1>6, <1>7, <1>8 DEF RepoOk

\* An answer changes nothing that was called.
LEMMA AnsweredKind ==
  ASSUME NEW r \in RepoRecord, NEW f, NEW status
  PROVE  TransactionAnswered(r, f, status).kind = r.kind
<1>1. \A t : t.kind = r.kind => SendAllReady(t).kind = r.kind
  BY DEF SendAllReady
<1>2. \A outcome : Complete(r, f, outcome).kind = r.kind
  BY DEF Complete, RepoRecord
<1>3. TransactionAnswered(r, f, status).kind = r.kind
  BY <1>1, <1>2 DEF TransactionAnswered, RepoRecord
<1> QED BY <1>3

\* The answer to a put on its way, which shares no operation with the others.
Reply(f, status) == [of |-> f, status |-> status]
Known(status) == status \in {"ok", "datastale", "denied", "disconnect"}
Alone(f, F) == f \in F /\ \A g \in F : g # f => g \cap f = {}

\* FRepo told of an answer, one put fewer being on its way.
LEMMA AnsweredOk ==
  ASSUME NEW r, NEW F, NEW L, L \in [Ops -> Nat], RepoOk(r, F, L), NoneAborting(r),
         r.posted = <<>>, NEW f, Alone(f, F), NEW status, Known(status),
         NEW a, a = Reply(f, status), AnswerTrue(r, L, a),
         NEW s, s = Answered(r, f, status),
         NEW t, t = AnsweredRerun(r, s, f),
         NEW G, G = F \ {f}
  PROVE  RepoOk(t, G, L) /\ NoneAborting(t) /\ t.kind = r.kind
<1>0. /\ f \in F /\ \A g \in F : g # f => g \cap f = {}
      /\ status \in {"ok", "datastale", "denied", "disconnect"}
      /\ AnswerTrue(r, L, [of |-> f, status |-> status])
  BY DEF Alone, Known, Reply
<1>1. PutOk(r, f)
  BY <1>0 DEF RepoOk, FlyingOk
<1>2. CASE \E n \in f : Is(r, n, "overwrite")
  <2>1. PICK n \in f : Is(r, n, "overwrite")
    BY <1>2
  <2>2. f = {n} /\ n \in Ops
    BY <1>1, <2>1 DEF PutOk, Is
  <2>3. status \in {"ok", "denied"}
    BY <1>0, <2>1 DEF AnswerTrue
  <2>4. s = OverwriteAnswered(r, n, status)
    BY <1>2, <2>2 DEF Answered
  <2>5. RepoOk(s, F \ {{n}}, L) /\ NoneAborting(s) /\ s.kind = r.kind
    <3>1. PICK b : b = OverwriteAnswered(r, n, status)
      OBVIOUS
    <3>2. RepoOk(b, F \ {{n}}, L)
      BY <1>0, <2>1, <2>2, <2>3, <3>1, OverwriteAnsweredOk
    <3>3. NoneAborting(b)
      BY <1>0, <2>1, <2>2, <2>3, <3>1, OverwriteAnsweredOk
    <3>4. b.kind = r.kind
      BY <3>1 DEF RepoOk, RepoRecord, OverwriteAnswered
    <3> QED BY <2>4, <3>1, <3>2, <3>3, <3>4
  <2>6. RepoOk(s, G, L)
    BY <2>2, <2>5
  <2>7. t = s \/ t = Rerun(s)
    BY DEF AnsweredRerun
  <2>8. t = Rerun(s) => RepoOk(t, G, L) /\ NoneAborting(t) /\ t.kind = s.kind
    BY <2>6, RerunOk
  <2> QED BY <2>5, <2>6, <2>7, <2>8
<1>3. CASE ~ \E n \in f : Is(r, n, "overwrite")
  <2>1. \A n \in f : Is(r, n, "transaction")
    BY <1>1, <1>3 DEF PutOk
  <2>2. s = TransactionAnswered(r, f, status) /\ t = Rerun(s)
    BY <1>3 DEF Answered, AnsweredRerun
  <2>3. RepoOk(s, F \ {f}, L) /\ s.kind = r.kind
    <3>1. PICK b : b = TransactionAnswered(r, f, status)
      OBVIOUS
    <3>2. RepoOk(b, F \ {f}, L)
      BY <1>0, <2>1, <3>1, TransactionAnsweredOk
    <3>3. b.kind = r.kind
      BY <3>1, AnsweredKind DEF RepoOk
    <3> QED BY <2>2, <3>1, <3>2, <3>3
  <2>4. RepoOk(s, G, L)
    BY <2>3
  <2>5. RepoOk(t, G, L) /\ NoneAborting(t) /\ t.kind = s.kind
    BY <2>2, <2>4, RerunOk
  <2> QED BY <2>3, <2>4, <2>5
<1> QED BY <1>2, <1>3

-----------------------------------------------------------------------------
(* What FRepo's operators leave of the overwrites: they go out in puts of   *)
(* their own, and only an answer tells them something.                     *)

\* What overwrites outside of f were told stays.
Quiet(r, s, f) ==
    \A m \in Ops \ f : Is(r, m, "overwrite") => s.report[m] = r.report[m]

\* A put that was not posted before has no overwrite.
Adds(r, s) ==
    \A j \in DOMAIN s.posted :
        \/ j \in DOMAIN r.posted /\ s.posted[j].of = r.posted[j].of
        \/ \A m \in s.posted[j].of : ~Is(s, m, "overwrite")

Tame(r, s, f) == s.kind = r.kind /\ Quiet(r, s, f) /\ Adds(r, s)

\* Two such steps are one.
LEMMA TameTame ==
  ASSUME NEW r, NEW s, NEW t, NEW f, Tame(r, s, f), Tame(s, t, {})
  PROVE  Tame(r, t, f)
BY DEF Tame, Quiet, Adds, Is

\* Records that agree on what is told and posted.
LEMMA TameSame ==
  ASSUME NEW r, NEW s, s.kind = r.kind, s.report = r.report, s.posted = r.posted
  PROVE  Tame(r, s, {})
BY DEF Tame, Quiet, Adds

\* The queue, which has no overwrite, goes out as one put.
LEMMA SendTame ==
  ASSUME NEW r, NEW F, NEW L, RepoOk(r, F, L), NEW s, s = SendAllReady(r)
  PROVE  Tame(r, s, {})
<1>1. CASE s = r
  BY <1>1, TameSame
<1>2. CASE s # r
  <2>1. r \in RepoRecord /\ QueueOk(r)
    BY DEF RepoOk
  <2>2. s.kind = r.kind /\ s.report = r.report
    BY <1>2, <2>1, SendType
  <2>3. PICK put \in Put : s.posted = Append(r.posted, put) /\ put.of = r.queue
    BY <1>2, <2>1, SendType
  <2>4. r.posted \in Seq(Put)
    BY <2>1 DEF RepoRecord
  <2>5. \A m \in put.of : ~Is(s, m, "overwrite")
    BY <2>1, <2>2, <2>3 DEF QueueOk, Is
  <2>6. ASSUME NEW j \in DOMAIN s.posted
        PROVE  \/ j \in DOMAIN r.posted /\ s.posted[j] = r.posted[j]
               \/ s.posted[j] = put
    BY <2>3, <2>4, <2>6
  <2>7. Adds(r, s)
    BY <2>5, <2>6 DEF Adds
  <2> QED BY <2>2, <2>7 DEF Tame, Quiet
<1> QED BY <1>1, <1>2

\* Running the queue again tells only transactions.
LEMMA RerunTame ==
  ASSUME NEW r, NEW F, NEW L \in [Ops -> Nat], RepoOk(r, F, L), NEW s, s = Rerun(r)
  PROVE  Tame(r, s, {})
<1>1. PICK q : q = RerunQueue(r)
  OBVIOUS
<1>2. RepoOk(q, F, L)
  BY <1>1, RerunQueueOk
<1>3. /\ r \in RepoRecord /\ QueueOk(r) /\ q.kind = r.kind /\ q.posted = r.posted
      /\ \A n \in Ops : q.report[n] = IF n \in Tired(r) THEN "retries"
                                      ELSE IF n \in Ended(r) THEN r.reason[n]
                                      ELSE r.report[n]
  BY <1>1, RerunType DEF RepoOk
<1>4. \A n \in Tired(r) \cup Ended(r) : ~Is(r, n, "overwrite")
  BY <1>3 DEF Tired, Ended, QueueOk, Is
<1>5. Tame(r, q, {})
  BY <1>3, <1>4 DEF Tame, Quiet, Adds
<1>6. Tame(q, s, {})
  BY <1>1, <1>2, SendTame DEF Rerun
<1> QED BY <1>5, <1>6, TameTame

\* So does aborting it.
LEMMA AbortTame ==
  ASSUME NEW r, NEW F, NEW L, RepoOk(r, F, L), NEW s, s = AbortQueue(r)
  PROVE  Tame(r, s, {})
<1>1. /\ QueueOk(r) /\ s.kind = r.kind /\ s.posted = r.posted
      /\ \A n \in Ops : s.report[n] = IF n \in r.queue \ InFlight(r) THEN "set"
                                      ELSE r.report[n]
  BY AbortType DEF RepoOk
<1>2. \A n \in r.queue : ~Is(r, n, "overwrite")
  BY <1>1 DEF QueueOk, Is
<1> QED BY <1>1, <1>2 DEF Tame, Quiet, Adds

\* The answer to a put tells its operations only, and an overwrite what it says.
LEMMA AnsweredTame ==
  ASSUME NEW r, NEW F, NEW L, L \in [Ops -> Nat], RepoOk(r, F, L), NoneAborting(r),
         r.posted = <<>>, NEW f, Alone(f, F), NEW status, Known(status),
         NEW a, a = Reply(f, status), AnswerTrue(r, L, a),
         NEW s, s = Answered(r, f, status),
         NEW t, t = AnsweredRerun(r, s, f)
  PROVE  /\ Tame(r, t, f)
         /\ \A n \in f : Is(r, n, "overwrite") => t.report[n] = status
<1>0. /\ f \in F /\ \A g \in F : g # f => g \cap f = {}
      /\ status \in {"ok", "datastale", "denied", "disconnect"}
      /\ AnswerTrue(r, L, [of |-> f, status |-> status])
  BY DEF Alone, Known, Reply
<1>1. PutOk(r, f) /\ r \in RepoRecord
  BY <1>0 DEF RepoOk, FlyingOk
<1>2. PICK G : G = F \ {f}
  OBVIOUS
<1>3. CASE \E n \in f : Is(r, n, "overwrite")
  <2>1. PICK n \in f : Is(r, n, "overwrite")
    BY <1>3
  <2>2. f = {n} /\ n \in Ops
    BY <1>1, <2>1 DEF PutOk, Is
  <2>3. status \in {"ok", "denied"}
    BY <1>0, <2>1 DEF AnswerTrue
  <2>4. s = OverwriteAnswered(r, n, status)
    BY <1>3, <2>2 DEF Answered
  <2>5. RepoOk(s, G, L)
    <3>1. RepoOk(s, F \ {{n}}, L)
      BY <2>1, <2>2, <2>3, <2>4, OverwriteAnsweredOk
    <3> QED BY <1>2, <2>2, <3>1
  <2>6. /\ s.kind = r.kind /\ s.posted = r.posted /\ s.report[n] = status
        /\ \A m \in Ops : m # n => s.report[m] = r.report[m]
    BY <1>1, <2>2, <2>4, Zenon DEF RepoRecord, OverwriteAnswered
  <2>7. Tame(r, s, f)
    BY <2>2, <2>6 DEF Tame, Quiet, Adds
  <2>8. t = s \/ t = Rerun(s)
    BY DEF AnsweredRerun
  <2>9. Tame(s, t, {})
    <3>1. t = Rerun(s) => Tame(s, t, {})
      BY <2>5, RerunTame
    <3>2. t = s => Tame(s, t, {})
      BY TameSame
    <3> QED BY <2>8, <3>1, <3>2
  <2>10. t.report[n] = status
    BY <2>1, <2>2, <2>6, <2>9 DEF Tame, Quiet, Is
  <2> QED BY <2>2, <2>7, <2>9, <2>10, TameTame
<1>4. CASE ~ \E n \in f : Is(r, n, "overwrite")
  <2>1. \A n \in f : Is(r, n, "transaction")
    BY <1>1, <1>4 DEF PutOk
  <2>2. s = TransactionAnswered(r, f, status) /\ t = Rerun(s)
    BY <1>4 DEF Answered, AnsweredRerun
  <2>3. RepoOk(s, G, L)
    <3>1. RepoOk(s, F \ {f}, L)
      BY <1>0, <2>1, <2>2, TransactionAnsweredOk
    <3> QED BY <1>2, <3>1
  <2>4. Tame(r, s, f)
    <3>1. CASE status = "ok"
      <4>1. PICK outcome \in [Ops -> Outcomes] : outcome = [n \in Ops |-> "ok"]
        BY DEF Outcomes
      <4>2. PICK u : u = Complete(r, f, outcome)
        OBVIOUS
      <4>3. f \in SUBSET Ops
        BY <1>1 DEF PutOk
      <4>4. /\ u.kind = r.kind /\ u.posted = r.posted /\ u.queue = r.queue \ f
            /\ \A n \in Ops : u.report[n] = IF n \in f THEN outcome[n] ELSE r.report[n]
            /\ u \in RepoRecord
        BY <1>1, <4>1, <4>2, <4>3, Zenon DEF Complete, RepoRecord, Statuses
      <4>5. Tame(r, u, f)
        BY <4>4 DEF Tame, Quiet, Adds
      <4>6. s = SendAllReady(u)
        BY <2>2, <3>1, <4>1, <4>2 DEF TransactionAnswered
      <4>7. Tame(u, s, {})
        <5>1. CASE s = u
          BY <5>1, TameSame
        <5>2. CASE s # u
          <6>1. s.kind = u.kind /\ s.report = u.report
            BY <4>4, <4>6, <5>2, SendType
          <6>2. PICK put \in Put : s.posted = Append(u.posted, put)
                                  /\ put.of = u.queue
            BY <4>4, <4>6, <5>2, SendType
          <6>3. \A m \in put.of : ~Is(s, m, "overwrite")
            BY <4>4, <6>1, <6>2 DEF RepoOk, QueueOk, Is
          <6>4. \A j \in DOMAIN s.posted : s.posted[j] = put
            <7>1. u.posted = <<>>
              BY <4>4
            <7>2. s.posted = <<put>>
              BY <6>2, <7>1
            <7> QED BY <7>2
          <6> QED BY <6>1, <6>3, <6>4 DEF Tame, Quiet, Adds
        <5> QED BY <5>1, <5>2
      <4> QED BY <4>5, <4>7, TameTame
    <3>2. CASE status # "ok"
      <4>1. s.report = r.report /\ s.kind = r.kind /\ s.posted = r.posted
        BY <1>1, <2>2, <3>2 DEF TransactionAnswered, RepoRecord
      <4> QED BY <4>1 DEF Tame, Quiet, Adds
    <3> QED BY <3>1, <3>2
  <2>5. Tame(s, t, {})
    BY <2>2, <2>3, RerunTame
  <2>6. \A n \in f : ~Is(r, n, "overwrite")
    BY <1>4
  <2> QED BY <2>4, <2>5, <2>6, TameTame
<1> QED BY <1>3, <1>4

-----------------------------------------------------------------------------
(* What FRepo's operators leave of the watchers and of what is seen.       *)

\* A step of FRepo that sees the same figure, lets nobody start to watch, and tells
\* only transactions and overwrites in f that they are stored.
Steady(r, s, f) ==
    /\ s.seen = r.seen
    /\ Watchers(s) \subseteq Watchers(r)
    /\ \A n \in Ops \ f : s.report[n] = "ok" => r.report[n] = "ok"

\* Two such steps are one.
LEMMA SteadySteady ==
  ASSUME NEW r, NEW s, NEW t, NEW f, Steady(r, s, f), Steady(s, t, {})
  PROVE  Steady(r, t, f)
BY DEF Steady

\* So is none.
LEMMA SteadySame == \A r : Steady(r, r, {})
BY DEF Steady

\* What goes out was not completed, and is told nothing.
LEMMA SendSteady ==
  ASSUME NEW r \in RepoRecord, NEW s, s = SendAllReady(r)
  PROVE  Steady(r, s, {})
<1>1. CASE s = r
  BY <1>1, SteadySame
<1>2. CASE s # r
  <2>1. /\ s.kind = r.kind /\ s.report = r.report /\ s.seen = r.seen
        /\ \A n \in r.queue : r.status[n] = "run"
        /\ \A n \in Ops : s.status[n] = IF n \in r.queue THEN "sent" ELSE r.status[n]
    BY <1>2, SendType
  <2>2. Watchers(s) \subseteq Watchers(r)
    BY <2>1 DEF Watchers, Is
  <2> QED BY <2>1, <2>2 DEF Steady
<1> QED BY <1>1, <1>2

\* Who is given up or aborted when the queue runs again is not told of a success.
LEMMA RerunSteady ==
  ASSUME NEW r, NEW F, NEW L \in [Ops -> Nat], RepoOk(r, F, L), NEW s, s = Rerun(r)
  PROVE  Steady(r, s, {})
<1>1. PICK q : q = RerunQueue(r)
  OBVIOUS
<1>2. RepoOk(q, F, L)
  BY <1>1, RerunQueueOk
<1>3. /\ r \in RepoRecord /\ QueueOk(r) /\ q.kind = r.kind /\ q.seen = r.seen
      /\ \A n \in Ops :
            /\ q.status[n] = IF n \in Ended(r) THEN "completed" ELSE r.status[n]
            /\ q.report[n] = IF n \in Tired(r) THEN "retries"
                             ELSE IF n \in Ended(r) THEN r.reason[n] ELSE r.report[n]
  BY <1>1, RerunType DEF RepoOk
<1>4. ASSUME NEW n \in Ended(r), n \notin Tired(r) PROVE r.reason[n] # "ok"
  <2>1. n \in r.queue /\ r.status[n] = "needsAbort"
    BY <1>4 DEF Ended
  <2>2. n \in Ops /\ Is(r, n, "transaction")
    BY <1>3, <2>1 DEF QueueOk, RepoRecord
  <2>3. FateOk(r, L, n)
    BY <2>2 DEF RepoOk
  <2> QED BY <2>1, <2>2, <2>3 DEF FateOk
<1>5. Watchers(q) \subseteq Watchers(r)
  BY <1>3 DEF Watchers, Is
<1>6. \A n \in Ops : q.report[n] = "ok" => r.report[n] = "ok"
  BY <1>3, <1>4
<1>7. Steady(r, q, {})
  BY <1>3, <1>5, <1>6 DEF Steady
<1>8. Steady(q, s, {})
  BY <1>1, <1>2, SendSteady DEF Rerun, RepoOk
<1> QED BY <1>7, <1>8, SteadySteady

\* Nor is who is aborted for an overwrite.
LEMMA AbortSteady ==
  ASSUME NEW r \in RepoRecord, NEW s, s = AbortQueue(r)
  PROVE  Steady(r, s, {})
<1>1. /\ s.kind = r.kind /\ s.seen = r.seen
      /\ \A n \in Ops :
            /\ s.status[n] = IF n \in Marked(r) THEN "sentNeedsAbort"
                             ELSE IF n \in r.queue \ InFlight(r) THEN "completed"
                             ELSE r.status[n]
            /\ s.report[n] = IF n \in r.queue \ InFlight(r) THEN "set"
                             ELSE r.report[n]
  BY AbortType
<1>2. \A n \in Marked(r) : r.status[n] = "sent"
  BY DEF Marked
<1>3. Watchers(s) \subseteq Watchers(r)
  BY <1>1, <1>2 DEF Watchers, Is
<1> QED BY <1>1, <1>3 DEF Steady

\* The operations an answer tells of a success.
Pleased(f, status) == IF status = "ok" THEN f ELSE {}

\* An answer tells nobody else.
LEMMA AnsweredSteady ==
  ASSUME NEW r, NEW F, NEW L, L \in [Ops -> Nat], RepoOk(r, F, L), NoneAborting(r),
         r.posted = <<>>, NEW f, Alone(f, F), NEW status, Known(status),
         NEW a, a = Reply(f, status), AnswerTrue(r, L, a),
         NEW s, s = Answered(r, f, status),
         NEW t, t = AnsweredRerun(r, s, f)
  PROVE  Steady(r, t, Pleased(f, status))
<1>0. /\ f \in F /\ \A g \in F : g # f => g \cap f = {}
      /\ status \in {"ok", "datastale", "denied", "disconnect"}
      /\ AnswerTrue(r, L, [of |-> f, status |-> status])
  BY DEF Alone, Known, Reply
<1>1. PutOk(r, f) /\ r \in RepoRecord /\ f \in SUBSET Ops
  BY <1>0 DEF RepoOk, FlyingOk, PutOk
<1>2. PICK G : G = F \ {f}
  OBVIOUS
<1>9. PICK p : p = Pleased(f, status)
  OBVIOUS
<1>3. CASE \E n \in f : Is(r, n, "overwrite")
  <2>1. PICK n \in f : Is(r, n, "overwrite")
    BY <1>3
  <2>2. f = {n} /\ n \in Ops
    BY <1>1, <2>1 DEF PutOk, Is
  <2>3. status \in {"ok", "denied"}
    BY <1>0, <2>1 DEF AnswerTrue
  <2>4. s = OverwriteAnswered(r, n, status)
    BY <1>3, <2>2 DEF Answered
  <2>5. RepoOk(s, G, L)
    <3>1. RepoOk(s, F \ {{n}}, L)
      BY <2>1, <2>2, <2>3, <2>4, OverwriteAnsweredOk
    <3> QED BY <1>2, <2>2, <3>1
  <2>6. /\ s.kind = r.kind /\ s.status = r.status /\ s.seen = r.seen
        /\ s.report[n] = status
        /\ \A m \in Ops : m # n => s.report[m] = r.report[m]
    BY <1>1, <2>2, <2>4 DEF RepoRecord, OverwriteAnswered
  <2>7. Steady(r, s, p)
    BY <1>9, <2>2, <2>6 DEF Steady, Pleased, Watchers, Is
  <2>8. t = s \/ t = Rerun(s)
    BY DEF AnsweredRerun
  <2>9. Steady(s, t, {})
    BY <2>5, <2>8, RerunSteady, SteadySame
  <2> QED BY <1>9, <2>7, <2>9, SteadySteady
<1>4. CASE ~ \E n \in f : Is(r, n, "overwrite")
  <2>1. \A n \in f : Is(r, n, "transaction") /\ r.status[n] \in Flight
    BY <1>1, <1>4 DEF PutOk
  <2>2. s = TransactionAnswered(r, f, status) /\ t = Rerun(s)
    BY <1>4 DEF Answered, AnsweredRerun
  <2>3. RepoOk(s, G, L)
    <3>1. RepoOk(s, F \ {f}, L)
      BY <1>0, <2>1, <2>2, TransactionAnsweredOk
    <3> QED BY <1>2, <3>1
  <2>4. Steady(r, s, p)
    <3>1. CASE status = "ok"
      <4>1. PICK outcome \in [Ops -> Outcomes] : outcome = [n \in Ops |-> "ok"]
        BY DEF Outcomes
      <4>2. PICK u : u = Complete(r, f, outcome)
        OBVIOUS
      <4>3. /\ u \in RepoRecord /\ u.kind = r.kind /\ u.seen = r.seen
            /\ \A n \in Ops : /\ u.status[n] = IF n \in f THEN "completed"
                                              ELSE r.status[n]
                              /\ u.report[n] = IF n \in f THEN outcome[n]
                                              ELSE r.report[n]
        BY <1>1, <4>1, <4>2, Zenon DEF Complete, RepoRecord, Statuses
      <4>4. Watchers(u) \subseteq Watchers(r)
        BY <4>3 DEF Watchers, Is
      <4>5. Steady(r, u, p)
        BY <1>9, <3>1, <4>3, <4>4 DEF Steady, Pleased
      <4>6. s = SendAllReady(u)
        BY <2>2, <3>1, <4>1, <4>2 DEF TransactionAnswered
      <4>7. Steady(u, s, {})
        BY <4>3, <4>6, SendSteady
      <4> QED BY <4>5, <4>7, SteadySteady
    <3>2. CASE status # "ok"
      <4>1. /\ s.report = r.report /\ s.kind = r.kind /\ s.seen = r.seen
            /\ \A n \in Ops \ f : s.status[n] = r.status[n]
        BY <1>1, <2>2, <3>2 DEF TransactionAnswered, RepoRecord
      <4>2. Watchers(s) \subseteq Watchers(r)
        <5> SUFFICES ASSUME NEW n \in Watchers(s), n \notin Watchers(r) PROVE FALSE
          OBVIOUS
        <5>1. n \in Ops /\ Is(r, n, "transaction") /\ s.status[n] # "completed"
          BY <4>1 DEF Watchers, Is
        <5>2. r.status[n] = "completed"
          BY <5>1 DEF Watchers
        <5>3. n \in f
          BY <4>1, <5>1, <5>2
        <5> QED BY <2>1, <5>2, <5>3 DEF Flight
      <4> QED BY <4>1, <4>2 DEF Steady
    <3> QED BY <3>1, <3>2
  <2>5. Steady(s, t, {})
    BY <2>2, <2>3, RerunSteady
  <2> QED BY <1>9, <2>4, <2>5, SteadySteady
<1> QED BY <1>3, <1>4

-----------------------------------------------------------------------------
(* Calls.                                                                  *)

\* The operation called next, and the record of FRepo once it runs.
FirstUncalled(r, n) ==
    /\ n \in Ops /\ Is(r, n, "none")
    /\ \A m \in Ops : m < n => ~Is(r, m, "none")
Numbers(v, k) == v \in Nat /\ k \in Nat
Running(r, n, v, k) ==
    [r EXCEPT !.kind[n] = "transaction", !.status[n] = "run",
              !.output[n] = v, !.stamp[n] = k, !.queue = @ \cup {n}]

\* runTransaction lays its write over the cache and queues the transaction.
LEMMA RunOk ==
  ASSUME NEW r, NEW F, NEW L, L \in [Ops -> Nat], RepoOk(r, F, L), NoneAborting(r),
         r.posted = <<>>, NEW n, FirstUncalled(r, n), NEW v, NEW k, Numbers(v, k),
         NEW s, s = Running(r, n, v, k)
  PROVE  /\ RepoOk(s, F, L) /\ NoneAborting(s)
         /\ \A m \in Ops : m # n => s.kind[m] = r.kind[m]
<1>0. /\ n \in Ops /\ Is(r, n, "none") /\ v \in Nat /\ k \in Nat
      /\ \A m \in Ops : m < n => ~Is(r, m, "none")
  BY DEF FirstUncalled, Numbers
<1>1. r \in RepoRecord /\ r.queue \subseteq Ops /\ Ops \in SUBSET Nat
  BY MaxOpsType DEF RepoOk, RepoRecord
<1>2. /\ s \in RepoRecord
      /\ s.kind = [r.kind EXCEPT ![n] = "transaction"]
      /\ s.status = [r.status EXCEPT ![n] = "run"]
      /\ s.queue = r.queue \cup {n} /\ s.posted = <<>>
      /\ s.report = r.report /\ s.reason = r.reason
  BY <1>0, <1>1 DEF RepoRecord, Kinds, Statuses, Running
<1>3. /\ \A m \in Ops : m # n => s.kind[m] = r.kind[m] /\ s.status[m] = r.status[m]
      /\ s.kind[n] = "transaction" /\ s.status[n] = "run"
  BY <1>0, <1>1, <1>2 DEF RepoRecord
<1>4. n \notin r.queue /\ \A f \in F : n \notin f
  BY <1>0 DEF RepoOk, QueueOk, FlyingOk, PutOk, Is
<1>5. \A m \in r.queue : m < n
  <2>1. ASSUME NEW m \in r.queue PROVE m < n
    <3>1. Is(r, m, "transaction") /\ m # n
      BY <1>4 DEF RepoOk, QueueOk
    <3>2. ~(n < m)
      BY <1>0, <1>1, <3>1 DEF RepoOk, CalledInOrder, Is
    <3>3. m \in Nat /\ n \in Nat
      BY <1>0, <1>1
    <3> QED BY <3>1, <3>2, <3>3
  <2> QED BY <2>1
<1>6. QueueOk(s) /\ NoneAborting(s)
  BY <1>0, <1>1, <1>2, <1>3, <1>5 DEF RepoOk, QueueOk, NoneAborting, Is, Flight
<1>7. CalledInOrder(s)
  <2>1. ASSUME NEW m \in Ops, NEW j \in Ops, m < j, ~Is(s, j, "none")
        PROVE  ~Is(s, m, "none")
    <3>1. CASE m = n
      BY <1>0, <1>3, <3>1 DEF Is
    <3>2. CASE m # n /\ j = n
      BY <1>0, <1>3, <2>1, <3>2 DEF Is
    <3>3. CASE m # n /\ j # n
      BY <1>0, <1>3, <2>1, <3>3 DEF RepoOk, CalledInOrder, Is
    <3> QED BY <3>1, <3>2, <3>3
  <2> QED BY <2>1 DEF CalledInOrder
<1>8. ASSUME NEW m \in Ops PROVE FateOk(s, L, m)
  <2>1. FateOk(r, L, m)
    BY DEF RepoOk
  <2>2. CASE m = n
    BY <1>0, <1>2, <1>3, <2>1, <2>2 DEF FateOk, Is
  <2>3. CASE m # n
    BY <1>0, <1>2, <1>3, <2>1, <2>3 DEF FateOk, Is
  <2> QED BY <2>2, <2>3
<1>9. ASSUME NEW f \in F PROVE PutOk(s, f)
  <2>1. PutOk(r, f) /\ n \notin f
    BY <1>4 DEF RepoOk, FlyingOk
  <2>2. \A m \in f : s.kind[m] = r.kind[m] /\ s.status[m] = r.status[m]
    BY <1>3, <2>1 DEF PutOk
  <2>3. \A m \in s.queue : s.status[m] \in Flight => m \in r.queue /\ r.status[m] \in Flight
    BY <1>1, <1>2, <1>3 DEF Flight
  <2> QED BY <1>2, <2>1, <2>2, <2>3 DEF PutOk, Is
<1>10. PostedOk(s, F, L) /\ FlyingOk(s, F)
  BY <1>2, <1>9 DEF PostedOk, Distinct, FlyingOk
<1> QED BY <1>2, <1>3, <1>6, <1>7, <1>8, <1>10 DEF RepoOk

\* The record of FRepo once an overwrite is laid over the cache.
LaidOver(r, n, v, k) ==
    [r EXCEPT !.kind[n] = "overwrite", !.output[n] = v, !.stamp[n] = k,
              !.posted = <<[of |-> {n}, value |-> v, hash |-> None, sent |-> FALSE]>>]

\* set or update lays its write over the cache and posts one put.
LEMMA LayOk ==
  ASSUME NEW r, NEW F, NEW L, L \in [Ops -> Nat], RepoOk(r, F, L), NoneAborting(r),
         NEW n, FirstUncalled(r, n), NEW v, NEW k, Numbers(v, k),
         NEW s, s = LaidOver(r, n, v, k)
  PROVE  /\ RepoOk(s, F, L) /\ NoneAborting(s)
         /\ \A m \in Ops : m # n => s.kind[m] = r.kind[m]
<1>00. /\ n \in Ops /\ Is(r, n, "none") /\ v \in Nat /\ k \in Nat
      /\ \A m \in Ops : m < n => ~Is(r, m, "none")
  BY DEF FirstUncalled, Numbers
<1>1. r \in RepoRecord /\ r.queue \subseteq Ops
  BY DEF RepoOk, RepoRecord
<1>0. {n} \in SUBSET Ops /\ None \in {None} /\ FALSE \in BOOLEAN
  BY <1>00
<1>2. PICK put \in Put : put = [of |-> {n}, value |-> v, hash |-> None, sent |-> FALSE]
  <2>1. [of |-> {n}, value |-> v, hash |-> None, sent |-> FALSE] \in Put
    BY <1>0, <1>00 DEF Put
  <2> QED BY <2>1
<1>20. put.of = {n} /\ put.hash = None /\ ~put.sent
  BY <1>2
<1>3. /\ s \in RepoRecord
      /\ s.kind = [r.kind EXCEPT ![n] = "overwrite"]
      /\ s.status = r.status
      /\ s.queue = r.queue /\ s.posted = <<put>>
      /\ s.report = r.report /\ s.reason = r.reason
  <2> DEFINE kind == [r.kind EXCEPT ![n] = "overwrite"]
             output == [r.output EXCEPT ![n] = v]
             stamp == [r.stamp EXCEPT ![n] = k]
             posted == <<put>>
  <2>1. s = [r EXCEPT !.kind = kind, !.output = output, !.stamp = stamp,
                      !.posted = posted]
    BY <1>2 DEF LaidOver
  <2>2. /\ kind \in [Ops -> Kinds] /\ output \in [Ops -> Nat]
        /\ stamp \in [Ops -> Nat] /\ posted \in Seq(Put)
    BY <1>00, <1>1, <1>2 DEF RepoRecord, Kinds
  <2> HIDE DEF kind, output, stamp, posted
  <2>3. /\ s \in RepoRecord
        /\ s.kind = kind /\ s.status = r.status
        /\ s.queue = r.queue /\ s.posted = posted
        /\ s.report = r.report /\ s.reason = r.reason
    BY <1>1, <2>1, <2>2 DEF RepoRecord
  <2> QED BY <2>3 DEF kind, posted
<1>4. /\ \A m \in Ops : m # n => s.kind[m] = r.kind[m]
      /\ s.kind[n] = "overwrite"
  BY <1>00, <1>1, <1>3 DEF RepoRecord
<1>5. n \notin r.queue /\ \A f \in F : n \notin f
  BY <1>00 DEF RepoOk, QueueOk, FlyingOk, PutOk, Is
<1>6. QueueOk(s) /\ NoneAborting(s)
  BY <1>1, <1>3, <1>4, <1>5 DEF RepoOk, QueueOk, NoneAborting, Is
<1>7. CalledInOrder(s)
  <2>1. ASSUME NEW m \in Ops, NEW j \in Ops, m < j, ~Is(s, j, "none")
        PROVE  ~Is(s, m, "none")
    <3>1. CASE m = n
      BY <1>00, <1>4, <3>1 DEF Is
    <3>2. CASE m # n /\ j = n
      BY <1>00, <1>4, <2>1, <3>2 DEF Is
    <3>3. CASE m # n /\ j # n
      BY <1>4, <2>1, <3>3 DEF RepoOk, CalledInOrder, Is
    <3> QED BY <3>1, <3>2, <3>3
  <2> QED BY <2>1 DEF CalledInOrder
<1>8. ASSUME NEW m \in Ops PROVE FateOk(s, L, m)
  <2>1. FateOk(r, L, m)
    BY DEF RepoOk
  <2>2. CASE m = n
    BY <1>00, <1>4, <2>2 DEF FateOk, Is
  <2>3. CASE m # n
    BY <1>3, <1>4, <2>1, <2>3 DEF FateOk, Is
  <2> QED BY <2>2, <2>3
<1>9. ASSUME NEW f \in F PROVE PutOk(s, f)
  <2>1. PutOk(r, f) /\ n \notin f
    BY <1>5 DEF RepoOk, FlyingOk
  <2>2. \A m \in f : s.kind[m] = r.kind[m]
    BY <1>4, <2>1 DEF PutOk
  <2> QED BY <1>3, <2>1, <2>2 DEF PutOk, Is
<1>10. NewPut(s, F, L, put)
  <2>1. PutOk(s, {n})
    BY <1>00, <1>3, <1>4, <1>5 DEF PutOk, Is
  <2> QED BY <1>00, <1>20, <1>4, <1>5, <2>1 DEF NewPut, Is
<1>11. PostedOk(s, F, L) /\ FlyingOk(s, F)
  BY <1>3, <1>9, <1>10 DEF PostedOk, Distinct, FlyingOk
<1> QED BY <1>3, <1>4, <1>6, <1>7, <1>8, <1>11 DEF RepoOk

-----------------------------------------------------------------------------
(* What the client waits for, and what travels.                            *)

\* s holds the operations of q at the places I, in some order.
Picks(s, q, I) ==
    /\ \A j \in DOMAIN s : \E k \in I : s[j].of = q[k].of
    /\ \A k \in I : \E j \in DOMAIN s : s[j].of = q[k].of
    /\ Distinct(q) => Distinct(s)

Of(q) == {q[i].of : i \in DOMAIN q}
Apart(p, q) == \A i \in DOMAIN p, j \in DOMAIN q : p[i].of \cap q[j].of = {}

\* A selection by an injective function picks each element once.
LEMMA PicksBy ==
  ASSUME NEW s, NEW q, NEW I \in SUBSET DOMAIN q, NEW g \in [DOMAIN s -> I],
         \A j, k \in DOMAIN s : j # k => g[j] # g[k],
         \A k \in I : \E j \in DOMAIN s : g[j] = k,
         \A j \in DOMAIN s : s[j].of = q[g[j]].of
  PROVE  Picks(s, q, I)
<1>1. Distinct(q) => Distinct(s)
  BY DEF Distinct
<1>2. \A j \in DOMAIN s : \E k \in I : s[j].of = q[k].of
  OBVIOUS
<1>3. ASSUME NEW k \in I PROVE \E j \in DOMAIN s : s[j].of = q[k].of
  <2>1. PICK j \in DOMAIN s : g[j] = k
    OBVIOUS
  <2> QED BY <2>1
<1> QED BY <1>1, <1>2, <1>3 DEF Picks

RestOf(s, q, i) ==
    /\ \A j \in DOMAIN s : \E k \in DOMAIN q \ {i} : s[j] = q[k]
    /\ \A k \in DOMAIN q \ {i} : \E j \in DOMAIN s : s[j] = q[k]
    /\ Picks(s, q, DOMAIN q \ {i})

\* A sequence without one element holds the others.
LEMMA WithoutPicks ==
  ASSUME NEW T, NEW q \in Seq(T), NEW i \in DOMAIN q
  PROVE  /\ Without(q, i) \in Seq(T)
         /\ RestOf(Without(q, i), q, i)
<1>0. PICK s : s = Without(q, i)
  OBVIOUS
<1> DEFINE g == [j \in 1 .. Len(q) - 1 |-> IF j < i THEN j ELSE j + 1]
<1>1. /\ Len(q) \in Nat /\ Len(q) - 1 \in Nat /\ DOMAIN q = 1 .. Len(q)
      /\ i \in 1 .. Len(q)
  OBVIOUS
<1>2. /\ DOMAIN s = 1 .. Len(q) - 1
      /\ \A j \in 1 .. Len(q) - 1 : s[j] = IF j < i THEN q[j] ELSE q[j + 1]
  BY <1>0 DEF Without
<1>3. g \in [DOMAIN s -> DOMAIN q \ {i}]
  BY <1>1, <1>2
<1>4. \A j, k \in DOMAIN s : j # k => g[j] # g[k]
  BY <1>1, <1>2
<1>5. \A k \in DOMAIN q \ {i} : \E j \in DOMAIN s : g[j] = k
  <2> SUFFICES ASSUME NEW k \in DOMAIN q \ {i} PROVE \E j \in DOMAIN s : g[j] = k
    OBVIOUS
  <2>1. CASE k < i
    <3>1. k \in DOMAIN s /\ g[k] = k
      BY <1>1, <1>2, <2>1
    <3> QED BY <3>1
  <2>2. CASE ~(k < i)
    <3>1. k - 1 \in DOMAIN s /\ g[k - 1] = k
      BY <1>1, <1>2, <2>2
    <3> QED BY <3>1
  <2> QED BY <2>1, <2>2
<1>6. \A j \in DOMAIN s : s[j] = q[g[j]]
  BY <1>2
<1>7. s \in Seq(T)
  <2>1. \A j \in 1 .. Len(q) - 1 : s[j] \in T
    BY <1>1, <1>2, <1>3, <1>6
  <2>2. s = [j \in 1 .. Len(q) - 1 |-> s[j]]
    BY <1>0, <1>2 DEF Without
  <2> QED BY <1>1, <2>1, <2>2
<1> HIDE DEF g
<1>8. Picks(s, q, DOMAIN q \ {i})
  BY <1>3, <1>4, <1>5, <1>6, PicksBy
<1>9. RestOf(s, q, i)
  BY <1>3, <1>5, <1>6, <1>8 DEF RestOf
<1> QED BY <1>0, <1>7, <1>9

\* Elements by their places: what Kept and Cancelled do.
LEMMA ByRankPicks ==
  ASSUME NEW b \in Nat, NEW I \in SUBSET (1 .. b)
  PROVE  \E g \in [1 .. Cardinality(I) -> I] :
            /\ \A k \in 1 .. Cardinality(I) : g[k] = CHOOSE i \in I : Rank(i, I) = k
            /\ \A j, k \in 1 .. Cardinality(I) : j # k => g[j] # g[k]
            /\ \A i \in I : \E k \in 1 .. Cardinality(I) : g[k] = i
<1> DEFINE g == [k \in 1 .. Cardinality(I) |-> CHOOSE i \in I : Rank(i, I) = k]
<1>1. \A k \in 1 .. Cardinality(I) : g[k] \in I /\ Rank(g[k], I) = k
  <2> SUFFICES ASSUME NEW k \in 1 .. Cardinality(I)
               PROVE  g[k] \in I /\ Rank(g[k], I) = k
    OBVIOUS
  <2>1. \E i \in I : Rank(i, I) = k
    BY RankIsTaken
  <2>2. PICK c : c = CHOOSE i \in I : Rank(i, I) = k
    OBVIOUS
  <2>3. c \in I /\ Rank(c, I) = k
    BY <2>1, <2>2
  <2> QED BY <2>2, <2>3
<1>2. g \in [1 .. Cardinality(I) -> I]
  BY <1>1
<1>3. \A j, k \in 1 .. Cardinality(I) : j # k => g[j] # g[k]
  <2> HIDE DEF g
  <2> QED BY <1>1
<1>4. \A i \in I : \E k \in 1 .. Cardinality(I) : g[k] = i
  <2> SUFFICES ASSUME NEW i \in I PROVE \E k \in 1 .. Cardinality(I) : g[k] = i
    OBVIOUS
  <2>1. Rank(i, I) \in 1 .. Cardinality(I)
    BY RankType
  <2>2. PICK k \in 1 .. Cardinality(I) : k = Rank(i, I)
    BY <2>1
  <2>3. g[k] \in I /\ Rank(g[k], I) = Rank(i, I)
    BY <1>1, <2>2
  <2> HIDE DEF g
  <2>0. \A x \in I : x \in Nat
    OBVIOUS
  <2>4. i \in Nat /\ g[k] \in Nat
    BY <2>0, <2>3
  <2>5. ASSUME NEW x \in I, NEW y \in I, x < y PROVE Rank(x, I) # Rank(y, I)
    <3>1. Rank(x, I) < Rank(y, I)
      BY <2>5, RankGrows
    <3>2. Rank(x, I) \in 1 .. Cardinality(I) /\ Rank(y, I) \in 1 .. Cardinality(I)
      BY RankType
    <3> QED BY <3>1, <3>2
  <2>6. g[k] = i
    BY <2>3, <2>4, <2>5
  <2> QED BY <2>6
<1>5. \A k \in 1 .. Cardinality(I) : g[k] = CHOOSE i \in I : Rank(i, I) = k
  OBVIOUS
<1> HIDE DEF g
<1> QED BY <1>2, <1>3, <1>4, <1>5
KeptAt(q) == {i \in DOMAIN q : ~Cancellable(q[i])}
CancelledAt(q) == {i \in DOMAIN q : Cancellable(q[i])}

\* The puts a lost connection keeps are those it does not cancel.
LEMMA KeptType ==
  ASSUME NEW q \in Seq(Put), NEW s, s = Kept(q)
  PROVE  /\ s \in Seq(Put)
         /\ \A j \in DOMAIN s : \E k \in KeptAt(q) : s[j] = q[k]
         /\ Picks(s, q, KeptAt(q))
<1>1. PICK kept : kept = KeptAt(q)
  OBVIOUS
<1>2. Len(q) \in Nat /\ DOMAIN q = 1 .. Len(q) /\ kept \in SUBSET (1 .. Len(q))
  BY <1>1 DEF KeptAt
<1>3. PICK g \in [1 .. Cardinality(kept) -> kept] :
            /\ \A k \in 1 .. Cardinality(kept) :
                  g[k] = CHOOSE i \in kept : Rank(i, kept) = k
            /\ \A j, k \in 1 .. Cardinality(kept) : j # k => g[j] # g[k]
            /\ \A i \in kept : \E k \in 1 .. Cardinality(kept) : g[k] = i
  <2>1. PICK b \in Nat : kept \in SUBSET (1 .. b)
    BY <1>2
  <2> QED BY <2>1, ByRankPicks, Zenon
<1>4. s = [k \in 1 .. Cardinality(kept) |->
              q[CHOOSE i \in kept : Rank(i, kept) = k]]
  BY <1>1 DEF Kept, KeptAt
<1>5. /\ DOMAIN s = 1 .. Cardinality(kept)
      /\ \A k \in 1 .. Cardinality(kept) : s[k] = q[g[k]]
  <2>1. DOMAIN s = 1 .. Cardinality(kept)
    BY <1>4
  <2>2. ASSUME NEW k \in 1 .. Cardinality(kept) PROVE s[k] = q[g[k]]
    <3>1. s[k] = q[CHOOSE i \in kept : Rank(i, kept) = k]
      BY <1>4
    <3>2. g[k] = CHOOSE i \in kept : Rank(i, kept) = k
      BY <1>3, Zenon
    <3> QED BY <3>1, <3>2, Zenon
  <2> QED BY <2>1, <2>2
<1>6. Cardinality(kept) \in Nat
  BY <1>2, PartFinite
<1>7. s \in Seq(Put)
  <2>1. \A k \in 1 .. Cardinality(kept) : s[k] \in Put
    <3> SUFFICES ASSUME NEW k \in 1 .. Cardinality(kept) PROVE s[k] \in Put
      OBVIOUS
    <3>1. g[k] \in DOMAIN q /\ s[k] = q[g[k]]
      BY <1>2, <1>3, <1>5
    <3> QED BY <3>1
  <2>2. s = [k \in 1 .. Cardinality(kept) |-> s[k]]
    BY <1>4
  <2> QED BY <1>6, <2>1, <2>2
<1>8. Picks(s, q, kept)
  <2>1. /\ kept \in SUBSET DOMAIN q /\ g \in [DOMAIN s -> kept]
        /\ \A j, k \in DOMAIN s : j # k => g[j] # g[k]
        /\ \A k \in kept : \E j \in DOMAIN s : g[j] = k
        /\ \A j \in DOMAIN s : s[j].of = q[g[j]].of
    BY <1>2, <1>3, <1>5
  <2> QED BY <2>1, PicksBy
<1>9. \A j \in DOMAIN s : \E k \in kept : s[j] = q[k]
  BY <1>3, <1>5
<1> QED BY <1>1, <1>7, <1>8, <1>9

\* Those it cancels are answered as disconnected.
LEMMA CancelledType ==
  ASSUME NEW q \in Seq(Put), NEW s, s = Cancelled(q)
  PROVE  /\ s \in Seq(AnswerRecord)
         /\ \A j \in DOMAIN s : \E k \in CancelledAt(q) :
               s[j] = [of |-> q[k].of, status |-> "disconnect"]
         /\ Picks(s, q, CancelledAt(q))
<1>1. PICK sent : sent = CancelledAt(q)
  OBVIOUS
<1>2. Len(q) \in Nat /\ DOMAIN q = 1 .. Len(q) /\ sent \in SUBSET (1 .. Len(q))
  BY <1>1 DEF CancelledAt
<1>3. PICK g \in [1 .. Cardinality(sent) -> sent] :
            /\ \A k \in 1 .. Cardinality(sent) :
                  g[k] = CHOOSE i \in sent : Rank(i, sent) = k
            /\ \A j, k \in 1 .. Cardinality(sent) : j # k => g[j] # g[k]
            /\ \A i \in sent : \E k \in 1 .. Cardinality(sent) : g[k] = i
  <2>1. PICK b \in Nat : sent \in SUBSET (1 .. b)
    BY <1>2
  <2> QED BY <2>1, ByRankPicks, Zenon
<1>4. s = [k \in 1 .. Cardinality(sent) |->
              [of |-> q[CHOOSE i \in sent : Rank(i, sent) = k].of,
               status |-> "disconnect"]]
  BY <1>1 DEF Cancelled, CancelledAt
<1>5. /\ DOMAIN s = 1 .. Cardinality(sent)
      /\ \A k \in 1 .. Cardinality(sent) :
            s[k] = [of |-> q[g[k]].of, status |-> "disconnect"]
  <2>1. DOMAIN s = 1 .. Cardinality(sent)
    BY <1>4
  <2>2. ASSUME NEW k \in 1 .. Cardinality(sent)
        PROVE  s[k] = [of |-> q[g[k]].of, status |-> "disconnect"]
    <3>1. s[k] = [of |-> q[CHOOSE i \in sent : Rank(i, sent) = k].of,
                  status |-> "disconnect"]
      BY <1>4
    <3>2. g[k] = CHOOSE i \in sent : Rank(i, sent) = k
      BY <1>3, Zenon
    <3> QED BY <3>1, <3>2, Zenon
  <2> QED BY <2>1, <2>2
<1>6. Cardinality(sent) \in Nat
  BY <1>2, PartFinite
<1>7. s \in Seq(AnswerRecord)
  <2>1. \A k \in 1 .. Cardinality(sent) : s[k] \in AnswerRecord
    <3> SUFFICES ASSUME NEW k \in 1 .. Cardinality(sent) PROVE s[k] \in AnswerRecord
      OBVIOUS
    <3>1. g[k] \in DOMAIN q /\ s[k] = [of |-> q[g[k]].of, status |-> "disconnect"]
      BY <1>2, <1>3, <1>5
    <3>2. q[g[k]] \in Put
      BY <3>1
    <3>3. q[g[k]].of \in SUBSET Ops
      BY <3>2 DEF Put
    <3> QED BY <3>1, <3>3 DEF AnswerRecord
  <2>2. s = [k \in 1 .. Cardinality(sent) |-> s[k]]
    BY <1>4
  <2> QED BY <1>6, <2>1, <2>2
<1>9. Picks(s, q, sent)
  <2>1. /\ sent \in SUBSET DOMAIN q /\ g \in [DOMAIN s -> sent]
        /\ \A j, k \in DOMAIN s : j # k => g[j] # g[k]
        /\ \A k \in sent : \E j \in DOMAIN s : g[j] = k
        /\ \A j \in DOMAIN s : s[j].of = q[g[j]].of
    BY <1>2, <1>3, <1>5
  <2> QED BY <2>1, PicksBy
<1>10. \A j \in DOMAIN s : \E k \in sent :
               s[j] = [of |-> q[k].of, status |-> "disconnect"]
  BY <1>3, <1>5
<1> QED BY <1>1, <1>7, <1>9, <1>10

\* s is p and q, one after the other.
Joins(s, p, q) ==
    /\ \A j \in DOMAIN s : \/ \E i \in DOMAIN p : s[j] = p[i]
                           \/ \E i \in DOMAIN q : s[j] = q[i]
    /\ \A i \in DOMAIN p : \E j \in DOMAIN s : s[j] = p[i]
    /\ \A i \in DOMAIN q : \E j \in DOMAIN s : s[j] = q[i]

\* What two sequences hold, their concatenation holds.
LEMMA JoinPicks ==
  ASSUME NEW p \in Seq(Put), NEW q \in Seq(Put), NEW s, s = p \o q
  PROVE  /\ s \in Seq(Put)
         /\ Of(s) = Of(p) \cup Of(q)
         /\ Joins(s, p, q)
         /\ Distinct(p) /\ Distinct(q) /\ Apart(p, q) => Distinct(s)
<1>1. /\ Len(p) \in Nat /\ Len(q) \in Nat
      /\ DOMAIN p = 1 .. Len(p) /\ DOMAIN q = 1 .. Len(q)
      /\ s \in Seq(Put) /\ DOMAIN s = 1 .. Len(p) + Len(q)
      /\ \A j \in 1 .. Len(p) : s[j] = p[j]
      /\ \A j \in 1 .. Len(q) : s[Len(p) + j] = q[j]
  OBVIOUS
<1>2. \A j \in DOMAIN s : \/ j \in DOMAIN p /\ s[j] = p[j]
                          \/ j - Len(p) \in DOMAIN q /\ s[j] = q[j - Len(p)]
  <2> SUFFICES ASSUME NEW j \in DOMAIN s, j \notin DOMAIN p
               PROVE  j - Len(p) \in DOMAIN q /\ s[j] = q[j - Len(p)]
    BY <1>1
  <2>1. j - Len(p) \in 1 .. Len(q) /\ Len(p) + (j - Len(p)) = j
    BY <1>1
  <2> QED BY <1>1, <2>1
<1>3. /\ \A j \in DOMAIN s : \/ \E i \in DOMAIN p : s[j] = p[i]
                             \/ \E i \in DOMAIN q : s[j] = q[i]
      /\ \A i \in DOMAIN p : \E j \in DOMAIN s : s[j] = p[i]
      /\ \A i \in DOMAIN q : \E j \in DOMAIN s : s[j] = q[i]
  <2>1. \A j \in DOMAIN s : \/ \E i \in DOMAIN p : s[j] = p[i]
                            \/ \E i \in DOMAIN q : s[j] = q[i]
    BY <1>2
  <2>2. \A i \in DOMAIN p : i \in DOMAIN s /\ s[i] = p[i]
    BY <1>1
  <2>3. \A i \in DOMAIN q : Len(p) + i \in DOMAIN s /\ s[Len(p) + i] = q[i]
    BY <1>1
  <2> QED BY <2>1, <2>2, <2>3
<1>4. Of(s) = Of(p) \cup Of(q)
  <2>1. \A j \in DOMAIN s : s[j].of \in Of(p) \cup Of(q)
    BY <1>3 DEF Of
  <2>2. \A i \in DOMAIN p : p[i].of \in Of(s)
    BY <1>3 DEF Of
  <2>3. \A i \in DOMAIN q : q[i].of \in Of(s)
    BY <1>3 DEF Of
  <2>4. \A f \in Of(s) : f \in Of(p) \cup Of(q)
    BY <2>1 DEF Of
  <2>5. \A f \in Of(p) \cup Of(q) : f \in Of(s)
    BY <2>2, <2>3 DEF Of
  <2> QED BY <2>4, <2>5
<1>5. ASSUME Distinct(p), Distinct(q), Apart(p, q) PROVE Distinct(s)
  <2> SUFFICES ASSUME NEW i \in DOMAIN s, NEW j \in DOMAIN s, i # j
               PROVE  s[i].of \cap s[j].of = {}
    BY DEF Distinct
  <2>1. CASE i \in DOMAIN p /\ j \in DOMAIN p
    BY <1>1, <1>5, <2>1 DEF Distinct
  <2>2. CASE i \in DOMAIN p /\ j \notin DOMAIN p
    BY <1>1, <1>2, <1>5, <2>2 DEF Apart
  <2>3. CASE i \notin DOMAIN p /\ j \in DOMAIN p
    BY <1>1, <1>2, <1>5, <2>3 DEF Apart
  <2>4. CASE i \notin DOMAIN p /\ j \notin DOMAIN p
    <3>1. /\ i - Len(p) \in DOMAIN q /\ s[i] = q[i - Len(p)]
          /\ j - Len(p) \in DOMAIN q /\ s[j] = q[j - Len(p)]
      BY <1>2, <2>4
    <3>2. i - Len(p) # j - Len(p)
      BY <1>1
    <3> QED BY <1>5, <3>1, <3>2 DEF Distinct
  <2> QED BY <2>1, <2>2, <2>3, <2>4
<1>6. Joins(s, p, q)
  BY <1>3 DEF Joins
<1> QED BY <1>1, <1>4, <1>5, <1>6

\* Two sequences of distinct puts that share no operation join to one of them.
LEMMA JoinPuts ==
  \A p, q \in Seq(Put) :
      /\ p \o q \in Seq(Put)
      /\ Of(p \o q) = Of(p) \cup Of(q)
      /\ Joins(p \o q, p, q)
      /\ Distinct(p) /\ Distinct(q) /\ Apart(p, q) => Distinct(p \o q)
<1> SUFFICES ASSUME NEW p \in Seq(Put), NEW q \in Seq(Put)
             PROVE  /\ p \o q \in Seq(Put)
                    /\ Of(p \o q) = Of(p) \cup Of(q)
                    /\ Joins(p \o q, p, q)
                    /\ Distinct(p) /\ Distinct(q) /\ Apart(p, q) => Distinct(p \o q)
  OBVIOUS
<1>1. PICK s : s = p \o q
  OBVIOUS
<1>2. /\ s \in Seq(Put)
      /\ Of(s) = Of(p) \cup Of(q)
      /\ Joins(s, p, q)
  BY <1>1, JoinPicks
<1>3. Distinct(p) /\ Distinct(q) /\ Apart(p, q) => Distinct(s)
  BY <1>1, JoinPicks
<1> QED BY <1>1, <1>2, <1>3, Zenon

\* What shares no operation with either shares none with both.
LEMMA ApartJoin ==
  ASSUME NEW s, NEW p, NEW q, NEW h, Joins(s, p, q), Apart(p, h), Apart(q, h)
  PROVE  Apart(s, h)
BY DEF Joins, Apart

\* Puts marked as sent are the same puts.
LEMMA SentType ==
  ASSUME NEW q \in Seq(Put), NEW s, s = Sent(q)
  PROVE  /\ s \in Seq(Put) /\ DOMAIN s = DOMAIN q
         /\ \A i \in DOMAIN q : /\ s[i].of = q[i].of /\ s[i].hash = q[i].hash
                                /\ s[i].value = q[i].value /\ s[i].sent
         /\ Of(s) = Of(q)
         /\ Distinct(q) => Distinct(s)
<1>1. \A i \in DOMAIN q : q[i] \in Put
  OBVIOUS
<1>2. /\ DOMAIN s = DOMAIN q
      /\ \A i \in DOMAIN q : s[i] = [q[i] EXCEPT !.sent = TRUE]
  BY DEF Sent
<1>3. \A i \in DOMAIN q : /\ s[i] \in Put
                          /\ s[i].of = q[i].of /\ s[i].hash = q[i].hash
                          /\ s[i].value = q[i].value /\ s[i].sent
  BY <1>1, <1>2, Zenon DEF Put
<1>4. s \in Seq(Put)
  <2>1. DOMAIN q = 1 .. Len(q) /\ Len(q) \in Nat
    OBVIOUS
  <2>2. s = [i \in 1 .. Len(q) |-> s[i]]
    BY <1>2, <2>1 DEF Sent
  <2> QED BY <1>3, <2>1, <2>2
<1>5. Of(s) = Of(q)
  BY <1>2, <1>3 DEF Of
<1>6. Distinct(q) => Distinct(s)
  BY <1>2, <1>3 DEF Distinct
<1> QED BY <1>2, <1>3, <1>4, <1>5, <1>6

\* A request is of the operations of its put.
LEMMA RequestsType ==
  ASSUME NEW q \in Seq(Put), NEW s, s = Requests(q)
  PROVE  /\ s \in Seq(RequestMessage) /\ DOMAIN s = DOMAIN q
         /\ \A i \in DOMAIN q : /\ s[i].type = "put" /\ s[i].of = q[i].of
                                /\ s[i].hash = q[i].hash
<1>1. \A i \in DOMAIN q : q[i] \in Put
  OBVIOUS
<1>2. /\ DOMAIN s = DOMAIN q
      /\ \A i \in DOMAIN q : s[i] = [type |-> "put", of |-> q[i].of,
                                     value |-> q[i].value, hash |-> q[i].hash]
  BY DEF Requests, Request
<1>3. \A i \in DOMAIN q : /\ s[i] \in RequestMessage
                          /\ s[i].type = "put" /\ s[i].of = q[i].of
                          /\ s[i].hash = q[i].hash
  BY <1>1, <1>2 DEF Put, RequestMessage
<1>4. s \in Seq(RequestMessage)
  <2>1. DOMAIN q = 1 .. Len(q) /\ Len(q) \in Nat
    OBVIOUS
  <2>2. s = [i \in 1 .. Len(q) |-> s[i]]
    BY <1>2, <2>1 DEF Requests
  <2> QED BY <1>3, <2>1, <2>2
<1> QED BY <1>2, <1>3, <1>4
-----------------------------------------------------------------------------
(* What the connection holds, and what travels on it.                      *)

LinkRecord ==
    [conn : {"down", "authenticating", "up"},
     puts : Seq(Put), held : Seq(AnswerRecord), due : Seq(AnswerRecord),
     unacked : Int, reading : BOOLEAN]

\* The puts FRepo has no answer to yet: outstanding, or answered and not told.
Flying(l) == Of(l.puts) \cup Of(l.held) \cup Of(l.due)

\* An outstanding put is a plain write or of transactions; what was not sent was
\* not applied, and what was sent is cancelled with the connection.
PutTrue(r, l, L, put) ==
    \A n \in put.of :
        IF Is(r, n, "overwrite") THEN put.hash = None
        ELSE /\ put.hash # None
             /\ IF put.sent THEN l.conn = "up" ELSE L[n] = 0

LinkOk(r, l, L) ==
    /\ Distinct(l.puts) /\ Distinct(l.held) /\ Distinct(l.due)
    /\ Apart(l.puts, l.held) /\ Apart(l.puts, l.due) /\ Apart(l.held, l.due)
    /\ \A i \in DOMAIN l.puts : PutTrue(r, l, L, l.puts[i])
    /\ \A i \in DOMAIN l.held : AnswerTrue(r, L, l.held[i])
    /\ \A i \in DOMAIN l.due : AnswerTrue(r, L, l.due[i])

SentPut(l, f) == \E i \in DOMAIN l.puts : l.puts[i].of = f /\ l.puts[i].sent

\* Requests and answers travel while writes can be sent.  A transaction's is of
\* an outstanding put, and a request of it was not applied.
MessageOk(r, l, L, m) ==
    /\ m.type \in {"put", "answer"} =>
         /\ l.conn = "up"
         /\ \A n \in m.of : /\ n \in Ops /\ ~Is(r, n, "none")
                            /\ Is(r, n, "transaction") => SentPut(l, m.of)
    /\ m.type = "put" =>
         \A n \in m.of : /\ Is(r, n, "overwrite") => m.hash = None
                         /\ Is(r, n, "transaction") => L[n] = 0
    /\ m.type = "answer" => AnswerTrue(r, L, m)

Bears(m, n) == m.type \in {"put", "answer"} /\ n \in m.of

\* Of a transaction, one request or one answer travels.
Free(q, n) == \A i \in DOMAIN q : ~Bears(q[i], n)
Once(r, q) ==
    \A n \in Ops : Is(r, n, "transaction") =>
        \A i, j \in DOMAIN q : Bears(q[i], n) /\ Bears(q[j], n) => i = j
Either(r, u, d) ==
    \A n \in Ops : Is(r, n, "transaction") => Free(u, n) \/ Free(d, n)

NetOk(r, l, L, u, d) ==
    /\ \A i \in DOMAIN u : MessageOk(r, l, L, u[i])
    /\ \A i \in DOMAIN d : MessageOk(r, l, L, d[i])
    /\ Once(r, u) /\ Once(r, d) /\ Either(r, u, d)

\* Both directions are alike.
LEMMA NetSwap ==
  ASSUME NEW r, NEW l, NEW L, NEW u, NEW d
  PROVE  NetOk(r, l, L, u, d) <=> NetOk(r, l, L, d, u)
BY DEF NetOk, Either

\* The first message leaves.  If it is of a transaction, no other is.
LEMMA NetTail ==
  ASSUME NEW r, NEW l, NEW L, NEW T, NEW u \in Seq(T), NEW d, u # <<>>,
         NetOk(r, l, L, u, d)
  PROVE  /\ NetOk(r, l, L, Tail(u), d)
         /\ MessageOk(r, l, L, Head(u))
         /\ \A n \in Ops : Is(r, n, "transaction") /\ Bears(Head(u), n) =>
               Free(Tail(u), n) /\ Free(d, n)
<1>1. /\ Len(u) \in Nat /\ Len(u) # 0 /\ DOMAIN u = 1 .. Len(u)
      /\ Tail(u) \in Seq(T) /\ DOMAIN Tail(u) = 1 .. Len(u) - 1
      /\ \A i \in DOMAIN Tail(u) : Tail(u)[i] = u[i + 1] /\ i + 1 \in DOMAIN u
      /\ Head(u) = u[1] /\ 1 \in DOMAIN u
  OBVIOUS
<1>2. MessageOk(r, l, L, Head(u))
  BY <1>1 DEF NetOk
<1>3. ASSUME NEW n \in Ops, Is(r, n, "transaction")
      PROVE  /\ Free(u, n) => Free(Tail(u), n)
             /\ Bears(Head(u), n) => Free(Tail(u), n) /\ Free(d, n)
             /\ \A i, j \in DOMAIN Tail(u) :
                   Bears(Tail(u)[i], n) /\ Bears(Tail(u)[j], n) => i = j
  <2>1. \A i, j \in DOMAIN u : Bears(u[i], n) /\ Bears(u[j], n) => i = j
    BY <1>3 DEF NetOk, Once
  <2>2. Free(u, n) => Free(Tail(u), n)
    BY <1>1 DEF Free
  <2>3. Bears(Head(u), n) => Free(Tail(u), n)
    <3>1. \A i \in DOMAIN Tail(u) : i + 1 # 1
      BY <1>1
    <3> QED BY <1>1, <2>1, <3>1 DEF Free
  <2>4. Bears(Head(u), n) => Free(d, n)
    BY <1>1, <1>3 DEF NetOk, Either, Free
  <2>5. \A i, j \in DOMAIN Tail(u) :
                   Bears(Tail(u)[i], n) /\ Bears(Tail(u)[j], n) => i = j
    <3> SUFFICES ASSUME NEW i \in DOMAIN Tail(u), NEW j \in DOMAIN Tail(u),
                        Bears(Tail(u)[i], n), Bears(Tail(u)[j], n)
                 PROVE  i = j
      OBVIOUS
    <3>1. i + 1 = j + 1
      BY <1>1, <2>1
    <3>2. i \in Nat /\ j \in Nat
      BY <1>1
    <3> QED BY <3>1, <3>2
  <2> QED BY <2>2, <2>3, <2>4, <2>5
<1>4. \A i \in DOMAIN Tail(u) : MessageOk(r, l, L, Tail(u)[i])
  BY <1>1 DEF NetOk
<1>5. Once(r, Tail(u)) /\ Either(r, Tail(u), d)
  BY <1>3 DEF NetOk, Once, Either
<1>6. NetOk(r, l, L, Tail(u), d)
  BY <1>4, <1>5 DEF NetOk
<1> QED BY <1>2, <1>3, <1>6

\* Messages are added whose transactions are of no other.
LEMMA NetJoin ==
  ASSUME NEW r, NEW l, NEW L, NEW T, NEW u \in Seq(T), NEW q \in Seq(T), NEW d,
         NetOk(r, l, L, u, d),
         \A i \in DOMAIN q : MessageOk(r, l, L, q[i]), Once(r, q),
         \A n \in Ops : Is(r, n, "transaction") =>
             Free(q, n) \/ (Free(u, n) /\ Free(d, n))
  PROVE  NetOk(r, l, L, u \o q, d)
<1> DEFINE s == u \o q
<1>1. /\ Len(u) \in Nat /\ Len(q) \in Nat
      /\ DOMAIN u = 1 .. Len(u) /\ DOMAIN q = 1 .. Len(q)
      /\ DOMAIN s = 1 .. Len(u) + Len(q)
      /\ \A j \in 1 .. Len(u) : s[j] = u[j]
      /\ \A j \in 1 .. Len(q) : s[Len(u) + j] = q[j]
  OBVIOUS
<1> HIDE DEF s
<1>2. \A j \in DOMAIN s : \/ j \in DOMAIN u /\ s[j] = u[j]
                          \/ j - Len(u) \in DOMAIN q /\ s[j] = q[j - Len(u)]
  <2> SUFFICES ASSUME NEW j \in DOMAIN s, j \notin DOMAIN u
               PROVE  j - Len(u) \in DOMAIN q /\ s[j] = q[j - Len(u)]
    BY <1>1
  <2>1. j - Len(u) \in 1 .. Len(q) /\ Len(u) + (j - Len(u)) = j
    BY <1>1
  <2> QED BY <1>1, <2>1
<1>3. \A j \in DOMAIN s : MessageOk(r, l, L, s[j])
  BY <1>2 DEF NetOk
<1>4. ASSUME NEW n \in Ops, Is(r, n, "transaction")
      PROVE  /\ Free(s, n) \/ Free(d, n)
             /\ \A i, j \in DOMAIN s : Bears(s[i], n) /\ Bears(s[j], n) => i = j
  <2>0. \A i, j \in DOMAIN u : Bears(u[i], n) /\ Bears(u[j], n) => i = j
    BY <1>4 DEF NetOk, Once
  <2>1. CASE Free(q, n)
    <3>1. \A j \in DOMAIN s : Bears(s[j], n) => j \in DOMAIN u /\ s[j] = u[j]
      BY <1>2, <2>1 DEF Free
    <3>2. Free(u, n) \/ Free(d, n)
      BY <1>4 DEF NetOk, Either
    <3> QED BY <2>0, <3>1, <3>2 DEF Free
  <2>2. CASE Free(u, n) /\ Free(d, n)
    <3>1. \A j \in DOMAIN s : Bears(s[j], n) =>
              j - Len(u) \in DOMAIN q /\ s[j] = q[j - Len(u)]
      BY <1>2, <2>2 DEF Free
    <3>2. \A i, j \in DOMAIN q : Bears(q[i], n) /\ Bears(q[j], n) => i = j
      BY <1>4 DEF Once
    <3>3. \A i, j \in DOMAIN s : Bears(s[i], n) /\ Bears(s[j], n) =>
              i - Len(u) = j - Len(u)
      BY <3>1, <3>2
    <3>4. \A i, j \in DOMAIN s : i - Len(u) = j - Len(u) => i = j
      BY <1>1
    <3> QED BY <2>2, <3>3, <3>4
  <2> QED BY <1>4, <2>1, <2>2
<1>5. Once(r, s) /\ Either(r, s, d)
  BY <1>4 DEF Once, Either
<1>6. NetOk(r, l, L, s, d)
  BY <1>3, <1>5 DEF NetOk
<1> QED BY <1>6 DEF s

\* Messages that are neither puts nor their answers disturb nothing.
LEMMA NetQuiet ==
  ASSUME NEW r, NEW l, NEW L, NEW T, NEW u \in Seq(T), NEW q \in Seq(T), NEW d,
         NetOk(r, l, L, u, d),
         \A i \in DOMAIN q : q[i].type \notin {"put", "answer"}
  PROVE  NetOk(r, l, L, u \o q, d)
<1>1. \A n : Free(q, n)
  BY DEF Free, Bears
<1>2. Once(r, q) /\ \A i \in DOMAIN q : MessageOk(r, l, L, q[i])
  BY <1>1 DEF Once, Free, MessageOk
<1> QED BY <1>1, <1>2, NetJoin

\* What is said of a message stays true while its operations are applied as often
\* and its put stays outstanding.
LEMMA MessageStays ==
  ASSUME NEW r, NEW l, NEW L, NEW s, NEW k, NEW M, NEW m, MessageOk(r, l, L, m),
         \A n \in Ops : ~Is(r, n, "none") => s.kind[n] = r.kind[n],
         l.conn = "up" => k.conn = "up",
         \A n \in Ops : Is(r, n, "transaction") /\ Bears(m, n) =>
             (SentPut(l, m.of) => SentPut(k, m.of)),
         \A n \in Ops : Is(r, n, "transaction") /\ Bears(m, n) => M[n] = L[n]
  PROVE  MessageOk(s, k, M, m)
BY DEF MessageOk, AnswerTrue, Is, Bears

\* What is said of the messages stays when the operations and the sent puts they
\* are about stay.
LEMMA NetStays ==
  ASSUME NEW r, NEW l, NEW L, NEW s, NEW k, NEW M, NEW u, NEW d,
         NetOk(r, l, L, u, d),
         \A n \in Ops : ~Is(r, n, "none") => s.kind[n] = r.kind[n],
         l.conn = "up" => k.conn = "up",
         \A n \in Ops : Is(r, n, "transaction") =>
             \/ \A f : n \in f /\ SentPut(l, f) => SentPut(k, f)
             \/ Free(u, n) /\ Free(d, n),
         \A n \in Ops : Is(r, n, "transaction") => M[n] = L[n] \/ (Free(u, n) /\ Free(d, n))
  PROVE  NetOk(s, k, M, u, d)
<1>1. ASSUME NEW q, q \in {u, d}
      PROVE  /\ \A i \in DOMAIN q : MessageOk(s, k, M, q[i])
             /\ \A n \in Ops, i \in DOMAIN q :
                   Is(s, n, "transaction") /\ Bears(q[i], n) => Is(r, n, "transaction")
  <2> SUFFICES ASSUME NEW i \in DOMAIN q
               PROVE  /\ MessageOk(s, k, M, q[i])
                      /\ \A n \in Ops : Is(s, n, "transaction") /\ Bears(q[i], n)
                            => Is(r, n, "transaction")
    OBVIOUS
  <2>1. MessageOk(r, l, L, q[i])
    BY <1>1 DEF NetOk
  <2>2. \A n \in Ops : Is(r, n, "transaction") /\ Bears(q[i], n) => M[n] = L[n]
    BY <1>1 DEF Free
  <2>5. \A n \in Ops : Is(r, n, "transaction") /\ Bears(q[i], n) =>
             (SentPut(l, q[i].of) => SentPut(k, q[i].of))
    BY <1>1 DEF Free, Bears
  <2>3. MessageOk(s, k, M, q[i])
    BY <2>1, <2>2, <2>5, MessageStays
  <2>4. \A n \in Ops : Bears(q[i], n) => ~Is(r, n, "none")
    BY <2>1 DEF MessageOk, Bears
  <2> QED BY <2>3, <2>4 DEF Is
<1>2. Once(s, u) /\ Once(s, d) /\ Either(s, u, d)
  <2> SUFFICES ASSUME NEW n \in Ops, Is(s, n, "transaction")
               PROVE  /\ \A i, j \in DOMAIN u : Bears(u[i], n) /\ Bears(u[j], n) => i = j
                      /\ \A i, j \in DOMAIN d : Bears(d[i], n) /\ Bears(d[j], n) => i = j
                      /\ Free(u, n) \/ Free(d, n)
    BY DEF Once, Either
  <2>1. CASE Is(r, n, "transaction")
    BY <2>1 DEF NetOk, Once, Either
  <2>2. CASE ~Is(r, n, "transaction")
    <3>1. Free(u, n) /\ Free(d, n)
      BY <1>1, <2>2 DEF Free
    <3> QED BY <3>1 DEF Free
  <2> QED BY <2>1, <2>2
<1> QED BY <1>1, <1>2 DEF NetOk
-----------------------------------------------------------------------------
(* Messages that join those on their way.                                  *)

\* At most one message.
LEMMA OneOrNone ==
  ASSUME NEW T, NEW m \in T, NEW q, q = <<>> \/ q = <<m>>
  PROVE  q \in Seq(T) /\ \A i \in DOMAIN q : q[i] = m
<1>1. CASE q = <<>>
  BY <1>1
<1>2. CASE q = <<m>>
  BY <1>2
<1> QED BY <1>1, <1>2

\* What messages that join others hold.
LEMMA JoinMembers ==
  ASSUME NEW T, NEW u \in Seq(T), NEW q \in Seq(T), NEW s, s = u \o q
  PROVE  /\ s \in Seq(T)
         /\ DOMAIN u \subseteq DOMAIN s
         /\ \A j \in DOMAIN u : s[j] = u[j]
         /\ \A j \in DOMAIN s : j \in DOMAIN u \/ \E i \in DOMAIN q : s[j] = q[i]
<1>1. /\ Len(u) \in Nat /\ Len(q) \in Nat /\ s \in Seq(T)
      /\ DOMAIN u = 1 .. Len(u) /\ DOMAIN q = 1 .. Len(q)
      /\ DOMAIN s = 1 .. Len(u) + Len(q)
      /\ \A j \in 1 .. Len(u) : s[j] = u[j]
      /\ \A j \in 1 .. Len(q) : s[Len(u) + j] = q[j]
  OBVIOUS
<1>2. ASSUME NEW j \in DOMAIN s, j \notin DOMAIN u
      PROVE  j - Len(u) \in DOMAIN q /\ s[j] = q[j - Len(u)]
  <2>1. j - Len(u) \in 1 .. Len(q) /\ Len(u) + (j - Len(u)) = j
    BY <1>1, <1>2
  <2> QED BY <1>1, <2>1
<1> QED BY <1>1, <1>2

\* Messages that are no request and no answer leave everything free.
LEMMA FreeJoin ==
  ASSUME NEW T, NEW u \in Seq(T), NEW q \in Seq(T), NEW s, s = u \o q,
         \A i \in DOMAIN q : q[i].type \notin {"put", "answer"},
         NEW n, Free(u, n)
  PROVE  Free(s, n)
<1>1. \A j \in DOMAIN s : \/ j \in DOMAIN u /\ s[j] = u[j]
                          \/ \E i \in DOMAIN q : s[j] = q[i]
  BY JoinMembers
<1> QED BY <1>1 DEF Free, Bears
-----------------------------------------------------------------------------
(* What every handler keeps.                                               *)

\* While the token is checked, and only then, one message of it travels.
IsAuth(m) == m.type \in {"auth", "authed"}
NoAuth(q) == \A i \in DOMAIN q : ~IsAuth(q[i])
OneAuth(q) == \E j \in DOMAIN q : IsAuth(q[j]) /\ \A i \in DOMAIN q : IsAuth(q[i]) => i = j
AuthOk(l, u, d) ==
    \/ NoAuth(u) /\ NoAuth(d)
    \/ /\ l.conn = "authenticating"
       /\ (OneAuth(u) /\ NoAuth(d)) \/ (NoAuth(u) /\ OneAuth(d))

\* Messages without a token change nothing of what is said of it.
LEMMA AuthJoin ==
  ASSUME NEW T, NEW u \in Seq(T), NEW q \in Seq(T), NoAuth(q), NEW s, s = u \o q
  PROVE  /\ NoAuth(u) => NoAuth(s)
         /\ OneAuth(u) => OneAuth(s)
<1>1. /\ DOMAIN u \subseteq DOMAIN s
      /\ \A j \in DOMAIN u : s[j] = u[j]
      /\ \A j \in DOMAIN s : j \in DOMAIN u \/ \E i \in DOMAIN q : s[j] = q[i]
  BY JoinMembers
<1>2. NoAuth(u) => NoAuth(s)
  BY <1>1 DEF NoAuth
<1>3. OneAuth(u) => OneAuth(s)
  <2> SUFFICES ASSUME OneAuth(u) PROVE OneAuth(s)
    OBVIOUS
  <2>1. PICK j \in DOMAIN u : /\ IsAuth(u[j])
                              /\ \A i \in DOMAIN u : IsAuth(u[i]) => i = j
    BY DEF OneAuth
  <2>2. j \in DOMAIN s /\ IsAuth(s[j])
    BY <1>1, <2>1
  <2>3. \A i \in DOMAIN s : IsAuth(s[i]) => i = j
    BY <1>1, <2>1 DEF NoAuth
  <2> QED BY <2>2, <2>3 DEF OneAuth
<1> QED BY <1>2, <1>3

\* When the token's message leaves, none is left.
LEMMA AuthTail ==
  ASSUME NEW T, NEW u \in Seq(T), u # <<>>
  PROVE  /\ NoAuth(u) => NoAuth(Tail(u)) /\ ~IsAuth(Head(u))
         /\ OneAuth(u) => IF IsAuth(Head(u)) THEN NoAuth(Tail(u)) ELSE OneAuth(Tail(u))
<1>1. /\ Len(u) \in Nat /\ Len(u) # 0 /\ DOMAIN u = 1 .. Len(u)
      /\ DOMAIN Tail(u) = 1 .. Len(u) - 1
      /\ \A i \in DOMAIN Tail(u) : Tail(u)[i] = u[i + 1] /\ i + 1 \in DOMAIN u /\ i + 1 # 1
      /\ Head(u) = u[1] /\ 1 \in DOMAIN u
  OBVIOUS
<1>2. NoAuth(u) => NoAuth(Tail(u)) /\ ~IsAuth(Head(u))
  BY <1>1 DEF NoAuth
<1>3. ASSUME OneAuth(u)
      PROVE  IF IsAuth(Head(u)) THEN NoAuth(Tail(u)) ELSE OneAuth(Tail(u))
  <2>1. PICK j \in DOMAIN u : /\ IsAuth(u[j])
                              /\ \A i \in DOMAIN u : IsAuth(u[i]) => i = j
    BY <1>3 DEF OneAuth
  <2>2. CASE IsAuth(Head(u))
    BY <1>1, <2>1, <2>2 DEF NoAuth
  <2>3. CASE ~IsAuth(Head(u))
    <3>1. j - 1 \in DOMAIN Tail(u) /\ Tail(u)[j - 1] = u[j]
      BY <1>1, <2>1, <2>3
    <3>2. \A i \in DOMAIN Tail(u) : IsAuth(Tail(u)[i]) => i = j - 1
      BY <1>1, <2>1
    <3> QED BY <2>1, <2>3, <3>1, <3>2 DEF OneAuth
  <2> QED BY <2>2, <2>3
<1> QED BY <1>2, <1>3

\* FRepo and the connection, given how often each operation was applied and what
\* travels to the database and back.
ClientOk(r, l, L, u, d) ==
    /\ RepoOk(r, Flying(l), L)
    /\ NoneAborting(r)
    /\ l \in LinkRecord
    /\ LinkOk(r, l, L)
    /\ u \in Seq(RequestMessage)
    /\ d \in Seq(Message)
    /\ NetOk(r, l, L, u, d)
    /\ AuthOk(l, u, d)

\* What is outstanding was called.
LEMMA FlyingCalled ==
  ASSUME NEW r, NEW l, NEW F, F = Flying(l), FlyingOk(r, F)
  PROVE  /\ \A i \in DOMAIN l.puts : PutOk(r, l.puts[i].of)
         /\ \A i \in DOMAIN l.held : PutOk(r, l.held[i].of)
         /\ \A i \in DOMAIN l.due : PutOk(r, l.due[i].of)
<1>1. /\ \A i \in DOMAIN l.puts : l.puts[i].of \in Flying(l)
      /\ \A i \in DOMAIN l.held : l.held[i].of \in Flying(l)
      /\ \A i \in DOMAIN l.due : l.due[i].of \in Flying(l)
  BY DEF Flying, Of
<1> QED BY <1>1 DEF FlyingOk

\* What is said of outstanding puts stays when the called operations stay.
LEMMA LinkStays ==
  ASSUME NEW r, NEW l, NEW L, NEW s, LinkOk(r, l, L), FlyingOk(r, Flying(l)),
         \A n \in Ops : ~Is(r, n, "none") => s.kind[n] = r.kind[n]
  PROVE  LinkOk(s, l, L)
<1>1. \A f : PutOk(r, f) => \A n \in f : s.kind[n] = r.kind[n]
  BY DEF PutOk, Is
<1>2. /\ \A i \in DOMAIN l.puts : \A n \in l.puts[i].of : s.kind[n] = r.kind[n]
      /\ \A i \in DOMAIN l.held : \A n \in l.held[i].of : s.kind[n] = r.kind[n]
      /\ \A i \in DOMAIN l.due : \A n \in l.due[i].of : s.kind[n] = r.kind[n]
  BY <1>1, FlyingCalled
<1>3. \A i \in DOMAIN l.puts : PutTrue(s, l, L, l.puts[i])
  BY <1>2 DEF LinkOk, PutTrue, Is
<1>4. \A i \in DOMAIN l.held : AnswerTrue(s, L, l.held[i])
  BY <1>2 DEF LinkOk, AnswerTrue, Is
<1>5. \A i \in DOMAIN l.due : AnswerTrue(s, L, l.due[i])
  BY <1>2 DEF LinkOk, AnswerTrue, Is
<1> QED BY <1>3, <1>4, <1>5 DEF LinkOk

\* The two parts that are disturbed when another record of FRepo is settled.
LEMMA CallStays ==
  ASSUME NEW r, NEW l, NEW L, NEW s, NEW u, NEW d,
         LinkOk(r, l, L), FlyingOk(r, Flying(l)), NetOk(r, l, L, u, d),
         \A n \in Ops : ~Is(r, n, "none") => s.kind[n] = r.kind[n]
  PROVE  LinkOk(s, l, L) /\ NetOk(s, l, L, u, d)
BY LinkStays, NetStays

\* The puts a handler leaves join those of the connection.
WithPuts(l, new, a) == [l EXCEPT !.puts = @ \o new, !.unacked = a]

\* The connection takes the puts of a handler over, sent if writes can be sent.
LEMMA PostOk ==
  ASSUME NEW r, NEW l \in LinkRecord, NEW L \in [Ops -> Nat],
         RepoOk(r, Flying(l), L), LinkOk(r, l, L),
         NEW new, new = IF CanSendWrites(l) THEN Sent(r.posted) ELSE r.posted,
         NEW a \in Int, NEW k, k = WithPuts(l, new, a)
  PROVE  /\ k \in LinkRecord
         /\ LinkOk(r, k, L)
         /\ Flying(k) = Flying(l) \cup Of(r.posted)
         /\ k.conn = l.conn
         /\ \A f : SentPut(l, f) => SentPut(k, f)
         /\ CanSendWrites(l) => \A i \in DOMAIN r.posted : SentPut(k, r.posted[i].of)
<1>1. /\ r.posted \in Seq(Put) /\ PostedOk(r, Flying(l), L)
      /\ l.puts \in Seq(Put)
  BY DEF RepoOk, RepoRecord, LinkRecord
<1>2. /\ new \in Seq(Put) /\ DOMAIN new = DOMAIN r.posted
      /\ \A i \in DOMAIN new : /\ new[i].of = r.posted[i].of
                               /\ new[i].hash = r.posted[i].hash
                               /\ new[i].sent <=> CanSendWrites(l)
      /\ Of(new) = Of(r.posted) /\ Distinct(new)
  <2>1. Distinct(r.posted) /\ \A i \in DOMAIN r.posted : ~r.posted[i].sent
    BY <1>1 DEF PostedOk, NewPut
  <2>2. CASE CanSendWrites(l)
    BY <1>1, <2>1, <2>2, SentType
  <2>3. CASE ~CanSendWrites(l)
    BY <1>1, <2>1, <2>3
  <2> QED BY <2>2, <2>3
<1>3. PICK puts : puts = l.puts \o new
  OBVIOUS
<1>4. \A i \in DOMAIN new : \A f \in Flying(l) : f \cap new[i].of = {}
  BY <1>1, <1>2 DEF PostedOk, NewPut
<1>5. /\ Apart(l.puts, new)
      /\ \A i \in DOMAIN new : /\ \A j \in DOMAIN l.held : l.held[j].of \cap new[i].of = {}
                               /\ \A j \in DOMAIN l.due : l.due[j].of \cap new[i].of = {}
  <2>1. /\ \A i \in DOMAIN l.puts : l.puts[i].of \in Flying(l)
        /\ \A i \in DOMAIN l.held : l.held[i].of \in Flying(l)
        /\ \A i \in DOMAIN l.due : l.due[i].of \in Flying(l)
    BY DEF Flying, Of
  <2> QED BY <1>4, <2>1 DEF Apart
<1>60. l.puts \in Seq(Put) /\ new \in Seq(Put)
  BY <1>1, <1>2
<1>61. /\ puts \in Seq(Put)
       /\ Of(puts) = Of(l.puts) \cup Of(new)
  BY <1>60, <1>3, JoinPuts, Zenon
<1>6. Joins(puts, l.puts, new)
  BY <1>60, <1>3, JoinPuts, Zenon
<1>62. Distinct(puts)
  <2>1. Distinct(l.puts)
    BY DEF LinkOk
  <2>2. Distinct(new) /\ Apart(l.puts, new)
    BY <1>2, <1>5
  <2> QED BY <1>60, <1>3, <2>1, <2>2, JoinPuts, Zenon
<1>7. /\ k \in LinkRecord /\ k.puts = puts /\ k.conn = l.conn
      /\ k.held = l.held /\ k.due = l.due
  <2>1. k = [l EXCEPT !.puts = puts, !.unacked = a]
    BY <1>3 DEF WithPuts
  <2> QED BY <1>61, <2>1 DEF LinkRecord
<1>8. Distinct(k.puts) /\ Apart(k.puts, k.held) /\ Apart(k.puts, k.due)
  <2>1. Distinct(k.puts)
    BY <1>62, <1>7
  <2>2. Apart(l.puts, l.held) /\ Apart(l.puts, l.due)
    BY DEF LinkOk
  <2>3. Apart(new, l.held) /\ Apart(new, l.due)
    BY <1>5 DEF Apart
  <2>4. Apart(puts, l.held)
    BY <1>6, <2>2, <2>3, ApartJoin, Zenon
  <2>5. Apart(puts, l.due)
    BY <1>6, <2>2, <2>3, ApartJoin, Zenon
  <2> QED BY <1>7, <2>1, <2>4, <2>5
<1>9. ASSUME NEW j \in DOMAIN k.puts PROVE PutTrue(r, k, L, k.puts[j])
  <2>1. CASE \E i \in DOMAIN l.puts : puts[j] = l.puts[i]
    BY <1>7, <2>1 DEF LinkOk, PutTrue
  <2>2. CASE \E i \in DOMAIN new : puts[j] = new[i]
    <3>1. PICK i \in DOMAIN new : puts[j] = new[i]
      BY <2>2
    <3>2. NewPut(r, Flying(l), L, r.posted[i])
      BY <1>1, <1>2 DEF PostedOk
    <3>3. /\ k.puts[j].of = r.posted[i].of /\ k.puts[j].hash = r.posted[i].hash
          /\ k.puts[j].sent => k.conn = "up"
      BY <1>2, <1>7, <3>1 DEF CanSendWrites
    <3> QED BY <3>2, <3>3 DEF PutTrue, NewPut
  <2> QED BY <1>6, <1>7, <2>1, <2>2 DEF Joins
<1>10. /\ \A i \in DOMAIN k.held : AnswerTrue(r, L, k.held[i])
       /\ \A i \in DOMAIN k.due : AnswerTrue(r, L, k.due[i])
       /\ Distinct(k.held) /\ Distinct(k.due) /\ Apart(k.held, k.due)
  BY <1>7 DEF LinkOk
<1>11. LinkOk(r, k, L)
  BY <1>8, <1>9, <1>10 DEF LinkOk
<1>12. Flying(k) = Flying(l) \cup Of(r.posted)
  <2>1. Of(new) = Of(r.posted)
    BY <1>2
  <2> QED BY <1>61, <1>7, <2>1 DEF Flying
<1>13. ASSUME NEW f, SentPut(l, f) PROVE SentPut(k, f)
  <2>1. PICK i \in DOMAIN l.puts : l.puts[i].of = f /\ l.puts[i].sent
    BY <1>13 DEF SentPut
  <2>2. PICK j \in DOMAIN puts : puts[j] = l.puts[i]
    BY <1>6 DEF Joins
  <2> QED BY <1>7, <2>1, <2>2 DEF SentPut
<1>14. ASSUME CanSendWrites(l), NEW i \in DOMAIN r.posted
       PROVE  SentPut(k, r.posted[i].of)
  <2>1. i \in DOMAIN new /\ new[i].of = r.posted[i].of /\ new[i].sent
    BY <1>2, <1>14
  <2>2. PICK j \in DOMAIN puts : puts[j] = new[i]
    BY <1>6, <2>1 DEF Joins
  <2> QED BY <1>7, <2>1, <2>2 DEF SentPut
<1> QED BY <1>7, <1>11, <1>12, <1>13, <1>14

\* A put that nothing travels for.
Sendable(r, k, L, u, d, put) ==
    /\ PutOk(r, put.of)
    /\ SentPut(k, put.of)
    /\ \A n \in put.of :
          IF Is(r, n, "overwrite") THEN put.hash = None
          ELSE L[n] = 0 /\ Free(u, n) /\ Free(d, n)

\* Requests of puts that nothing travels for can go out.
LEMMA RequestsOk ==
  ASSUME NEW r, NEW L, NEW k, NEW q \in Seq(Put), NEW u \in Seq(RequestMessage),
         NEW d, NetOk(r, k, L, u, d), Distinct(q), k.conn = "up",
         \A i \in DOMAIN q : Sendable(r, k, L, u, d, q[i]),
         NEW s, s = Requests(q)
  PROVE  /\ NetOk(r, k, L, u \o s, d)
         /\ s \in Seq(RequestMessage) /\ NoAuth(s)
<1>1. /\ s \in Seq(RequestMessage) /\ DOMAIN s = DOMAIN q
      /\ \A i \in DOMAIN q : /\ s[i].type = "put" /\ s[i].of = q[i].of
                             /\ s[i].hash = q[i].hash
  BY RequestsType
<1>2. \A i \in DOMAIN s : MessageOk(r, k, L, s[i])
  BY <1>1 DEF MessageOk, PutOk, Is, Sendable
<1>3. Once(r, s)
  BY <1>1 DEF Once, Bears, Distinct
<1>4. \A n \in Ops : Is(r, n, "transaction") =>
          Free(s, n) \/ (Free(u, n) /\ Free(d, n))
  BY <1>1 DEF Free, Bears, Is, Sendable
<1>5. NetOk(r, k, L, u \o s, d)
  BY <1>1, <1>2, <1>3, <1>4, NetJoin
<1>6. NoAuth(s)
  BY <1>1 DEF NoAuth, IsAuth
<1> QED BY <1>1, <1>5, <1>6
\* The record of FRepo once its puts are handed over.
Figures(c, v) == c \in Nat \cup {None} /\ v \in Nat
HandOver(r, c, v) == [r EXCEPT !.posted = <<>>, !.cache = c, !.seen = v]

\* Puts that are handed over are on their way.
LEMMA HandedOk ==
  ASSUME NEW r, NEW F, NEW L, RepoOk(r, F, L), NoneAborting(r),
         NEW c, NEW v, Figures(c, v),
         NEW G, G = F \cup Of(r.posted)
  PROVE  /\ RepoOk(HandOver(r, c, v), G, L)
         /\ NoneAborting(HandOver(r, c, v))
         /\ HandOver(r, c, v).posted = <<>> /\ HandOver(r, c, v).kind = r.kind
<1>0. PICK s : s = HandOver(r, c, v)
  OBVIOUS
<1>1. r \in RepoRecord
  BY DEF RepoOk
<1>2. /\ s \in RepoRecord /\ s.posted = <<>> /\ s.kind = r.kind
      /\ s.status = r.status /\ s.queue = r.queue /\ s.reason = r.reason
      /\ s.report = r.report
  <2>1. <<>> \in Seq(Put)
    OBVIOUS
  <2> QED BY <1>0, <1>1, <2>1 DEF RepoRecord, HandOver, Figures
<1>3. QueueOk(s) /\ CalledInOrder(s) /\ NoneAborting(s)
  BY <1>2 DEF RepoOk, QueueOk, CalledInOrder, NoneAborting, Is
<1>4. \A n \in Ops : FateOk(s, L, n)
  BY <1>2 DEF RepoOk, FateOk, Is
<1>5. FlyingOk(s, G)
  <2>1. \A f : PutOk(r, f) => PutOk(s, f)
    BY <1>2 DEF PutOk, Is
  <2>2. \A f \in Of(r.posted) : PutOk(r, f)
    BY DEF RepoOk, PostedOk, NewPut, Of
  <2> QED BY <2>1, <2>2 DEF RepoOk, FlyingOk
<1>6. PostedOk(s, G, L)
  BY <1>2 DEF PostedOk, Distinct
<1>7. RepoOk(s, G, L)
  BY <1>2, <1>3, <1>4, <1>5, <1>6 DEF RepoOk
<1> QED BY <1>0, <1>2, <1>3, <1>7

\* The end of a handler keeps all that is said.
LEMMA SettleOk ==
  ASSUME NEW r, NEW l, NEW d, ClientOk(r, l, landed, up, d), landed \in [Ops -> Nat],
         Settle(r, l), down' = d, UNCHANGED landed
  PROVE  /\ ClientOk(repo', link', landed', up', down')
         /\ repo'.posted = <<>>
<1> DEFINE starts == Watchers(repo) = {} /\ Watchers(r) # {}
           stops == Watchers(repo) # {} /\ Watchers(r) = {}
<1>1. PICK new : new = IF CanSendWrites(l) THEN Sent(r.posted) ELSE r.posted
  OBVIOUS
<1>2. PICK a : a = IF starts /\ Connected(l) THEN l.unacked + 1 ELSE l.unacked
  OBVIOUS
<1>3. PICK before : before = IF starts /\ Connected(l) THEN <<[type |-> "watch"]>>
                             ELSE <<>>
  OBVIOUS
<1>4. PICK after : after = IF stops /\ Connected(l) THEN <<[type |-> "unwatch"]>>
                           ELSE <<>>
  OBVIOUS
<1>5. PICK requests : requests = IF CanSendWrites(l) THEN Requests(r.posted)
                                 ELSE <<>>
  OBVIOUS
<1>6. PICK c : c = IF stops THEN None ELSE r.cache
  OBVIOUS
<1>7. PICK v : v = IF stops THEN 0 ELSE r.seen
  OBVIOUS
<1>8. /\ repo' = [r EXCEPT !.posted = <<>>, !.cache = c, !.seen = v]
      /\ link' = [l EXCEPT !.puts = @ \o new, !.unacked = a]
      /\ up' = up \o before \o requests \o after
  <2>1. repo' = [r EXCEPT !.posted = <<>>, !.cache = c, !.seen = v]
    BY <1>6, <1>7 DEF Settle
  <2>2. link' = [l EXCEPT !.puts = @ \o new, !.unacked = a]
    BY <1>1, <1>2 DEF Settle
  <2>3. up' = up \o before \o requests \o after
    BY <1>3, <1>4, <1>5 DEF Settle
  <2> QED BY <2>1, <2>2, <2>3
<1>9. /\ RepoOk(r, Flying(l), landed) /\ NoneAborting(r) /\ l \in LinkRecord
      /\ LinkOk(r, l, landed) /\ NetOk(r, l, landed, up, d)
      /\ up \in Seq(RequestMessage) /\ d \in Seq(Message)
      /\ r \in RepoRecord
  BY DEF ClientOk, RepoOk
<1>10. c \in Nat \cup {None} /\ v \in Nat /\ a \in Int
  <2>1. c \in Nat \cup {None} /\ v \in Nat
    BY <1>6, <1>7, <1>9 DEF RepoRecord
  <2>2. a \in Int
    BY <1>2, <1>9 DEF LinkRecord
  <2> QED BY <2>1, <2>2
<1>11. /\ before \in Seq(RequestMessage) /\ after \in Seq(RequestMessage)
       /\ \A i \in DOMAIN before : before[i].type \notin {"put", "answer"}
       /\ \A i \in DOMAIN after : after[i].type \notin {"put", "answer"}
       /\ NoAuth(before) /\ NoAuth(after)
  <2>1. [type |-> "watch"] \in RequestMessage /\ [type |-> "unwatch"] \in RequestMessage
    BY DEF RequestMessage
  <2>2. before = <<>> \/ before = <<[type |-> "watch"]>>
    BY <1>3
  <2>3. after = <<>> \/ after = <<[type |-> "unwatch"]>>
    BY <1>4
  <2>4. /\ before \in Seq(RequestMessage)
        /\ \A i \in DOMAIN before : before[i] = [type |-> "watch"]
    BY <2>1, <2>2, OneOrNone
  <2>5. /\ after \in Seq(RequestMessage)
        /\ \A i \in DOMAIN after : after[i] = [type |-> "unwatch"]
    BY <2>1, <2>3, OneOrNone
  <2> QED BY <2>4, <2>5 DEF NoAuth, IsAuth
<1> HIDE DEF starts, stops
<1>12. PICK k : k = WithPuts(l, new, a)
  OBVIOUS
<1>13. /\ k \in LinkRecord
       /\ LinkOk(r, k, landed)
       /\ Flying(k) = Flying(l) \cup Of(r.posted)
       /\ k.conn = l.conn
       /\ \A f : SentPut(l, f) => SentPut(k, f)
       /\ CanSendWrites(l) => \A i \in DOMAIN r.posted : SentPut(k, r.posted[i].of)
  <2>1. l \in LinkRecord /\ landed \in [Ops -> Nat] /\ a \in Int
    BY <1>9, <1>10
  <2>2. RepoOk(r, Flying(l), landed) /\ LinkOk(r, l, landed)
    BY <1>9
  <2> QED BY <1>1, <1>12, <2>1, <2>2, PostOk
<1>14. PICK s : s = HandOver(r, c, v)
  OBVIOUS
<1>15. /\ RepoOk(s, Flying(l) \cup Of(r.posted), landed)
       /\ NoneAborting(s)
       /\ s.posted = <<>> /\ s.kind = r.kind
  <2>1. RepoOk(r, Flying(l), landed) /\ NoneAborting(r)
    BY <1>9
  <2>2. Figures(c, v)
    BY <1>10 DEF Figures
  <2>3. PICK G : G = Flying(l) \cup Of(r.posted)
    OBVIOUS
  <2>4. /\ RepoOk(HandOver(r, c, v), G, landed)
        /\ NoneAborting(HandOver(r, c, v))
        /\ HandOver(r, c, v).posted = <<>> /\ HandOver(r, c, v).kind = r.kind
    BY <2>1, <2>2, <2>3, HandedOk
  <2> QED BY <1>14, <2>3, <2>4
<1>16. NetOk(r, k, landed, up, d)
  BY <1>9, <1>13, NetStays
<1>17. NetOk(r, k, landed, up \o before, d) /\ up \o before \in Seq(RequestMessage)
  BY <1>9, <1>11, <1>16, NetQuiet
<1>18. PICK u : u = up \o before
  OBVIOUS
<1>19. PostedOk(r, Flying(l), landed) /\ r.posted \in Seq(Put)
  BY <1>9 DEF RepoOk, RepoRecord
\* Nothing travels for the operations of a new put: it would be of an older one.
<1>20. ASSUME NEW i \in DOMAIN r.posted, NEW n \in r.posted[i].of,
              ~Is(r, n, "overwrite")
       PROVE  Free(up, n) /\ Free(d, n)
  <2>1. NewPut(r, Flying(l), landed, r.posted[i])
    BY <1>19 DEF PostedOk
  <2>2. n \in Ops /\ Is(r, n, "transaction")
    BY <1>20, <2>1 DEF NewPut, PutOk
  <2>3. ASSUME NEW m, MessageOk(r, l, landed, m), Bears(m, n) PROVE FALSE
    <3>1. SentPut(l, m.of) /\ n \in m.of
      BY <2>2, <2>3 DEF MessageOk, Bears
    <3>2. m.of \in Flying(l)
      BY <3>1 DEF SentPut, Flying, Of
    <3> QED BY <2>1, <3>1, <3>2 DEF NewPut
  <2> QED BY <1>9, <2>3 DEF NetOk, Free
<1>21. NetOk(r, k, landed, u \o requests, d) /\ u \o requests \in Seq(RequestMessage)
       /\ requests \in Seq(RequestMessage) /\ NoAuth(requests)
  <2>1. CASE ~CanSendWrites(l)
    <3>1. requests = <<>> /\ u \in Seq(RequestMessage)
      BY <1>5, <1>17, <1>18, <2>1
    <3>2. u \o requests = u
      BY <3>1
    <3>3. NoAuth(requests)
      BY <3>1 DEF NoAuth
    <3> QED BY <1>17, <1>18, <3>1, <3>2, <3>3
  <2>2. CASE CanSendWrites(l)
    <3>1. requests = Requests(r.posted) /\ k.conn = "up"
      BY <1>5, <1>13, <2>2 DEF CanSendWrites
    <3>2. Distinct(r.posted)
      BY <1>19 DEF PostedOk
    <3>3. ASSUME NEW i \in DOMAIN r.posted
          PROVE  Sendable(r, k, landed, u, d, r.posted[i])
      <4>1. NewPut(r, Flying(l), landed, r.posted[i])
        BY <1>19 DEF PostedOk
      <4>2. \A n : Free(up, n) => Free(u, n)
        BY <1>9, <1>11, <1>18, FreeJoin
      <4>3. SentPut(k, r.posted[i].of)
        BY <1>13, <2>2
      <4>4. \A n \in r.posted[i].of :
                       IF Is(r, n, "overwrite") THEN r.posted[i].hash = None
                       ELSE /\ landed[n] = 0
                            /\ Free(u, n) /\ Free(d, n)
        BY <1>20, <4>1, <4>2 DEF NewPut
      <4> QED BY <4>1, <4>3, <4>4 DEF NewPut, Sendable
    <3>4. NetOk(r, k, landed, u, d) /\ u \in Seq(RequestMessage)
      BY <1>17, <1>18
    <3>5. /\ NetOk(r, k, landed, u \o requests, d)
          /\ requests \in Seq(RequestMessage) /\ NoAuth(requests)
      BY <1>9, <1>19, <3>1, <3>2, <3>3, <3>4, RequestsOk
    <3> QED BY <3>4, <3>5
  <2> QED BY <2>1, <2>2
<1>22. PICK w : w = u \o requests
  OBVIOUS
<1>23. NetOk(r, k, landed, w \o after, d) /\ w \o after \in Seq(RequestMessage)
  <2>1. w \in Seq(RequestMessage) /\ NetOk(r, k, landed, w, d)
    BY <1>21, <1>22
  <2>2. w \o after \in Seq(RequestMessage)
    BY <1>11, <2>1
  <2> QED BY <1>11, <2>1, <2>2, NetQuiet
<1>24. LinkOk(s, k, landed) /\ NetOk(s, k, landed, w \o after, d)
  <2>1. LinkOk(s, k, landed)
    BY <1>13, <1>15 DEF LinkOk, PutTrue, AnswerTrue, Is
  <2>2. NetOk(s, k, landed, w \o after, d)
    BY <1>15, <1>23, NetStays
  <2> QED BY <2>1, <2>2
<1>25. up' = w \o after /\ link' = k /\ repo' = s /\ down' = d /\ landed' = landed
  BY <1>8, <1>12, <1>14, <1>18, <1>22 DEF WithPuts, HandOver
<1>26. ClientOk(s, k, landed, w \o after, d)
  <2>1. AuthOk(l, up, d)
    BY DEF ClientOk
  <2>2. /\ NoAuth(up) => NoAuth(u)
        /\ OneAuth(up) => OneAuth(u)
    BY <1>9, <1>11, <1>18, AuthJoin
  <2>3. /\ NoAuth(u) => NoAuth(w)
        /\ OneAuth(u) => OneAuth(w)
    BY <1>17, <1>18, <1>21, <1>22, AuthJoin
  <2>4. PICK x : x = w \o after
    OBVIOUS
  <2>5. /\ NoAuth(w) => NoAuth(x)
        /\ OneAuth(w) => OneAuth(x)
    BY <1>11, <1>21, <1>22, <2>4, AuthJoin
  <2>6. AuthOk(k, x, d)
    BY <1>13, <2>1, <2>2, <2>3, <2>5 DEF AuthOk
  <2> QED BY <1>9, <1>13, <1>15, <1>23, <1>24, <2>4, <2>6 DEF ClientOk
<1> QED BY <1>15, <1>25, <1>26
ServerRecord == [value : Nat, version : Nat, subscribed : BOOLEAN]

ClientInv ==
    /\ ClientOk(repo, link, landed, up, down)
    /\ repo.posted = <<>>
    /\ server \in ServerRecord
    /\ landed \in [Ops -> Nat]

\* A record of FRepo that a handler made of the one before it can be settled.
LEMMA HandledOk ==
  ASSUME ClientInv, NEW r, RepoOk(r, Flying(link), landed), NoneAborting(r),
         \A n \in Ops : ~Is(repo, n, "none") => r.kind[n] = repo.kind[n],
         NEW d \in Seq(Message), NetOk(repo, link, landed, up, d),
         AuthOk(link, up, d), down' = d,
         Settle(r, link), UNCHANGED <<server, landed>>
  PROVE  ClientInv'
<1>1. /\ LinkOk(repo, link, landed) /\ FlyingOk(repo, Flying(link))
      /\ link \in LinkRecord /\ up \in Seq(RequestMessage)
  BY DEF ClientInv, ClientOk, RepoOk
<1>2. LinkOk(r, link, landed) /\ NetOk(r, link, landed, up, d)
  BY <1>1, CallStays
<1>3. ClientOk(r, link, landed, up, d)
  BY <1>1, <1>2 DEF ClientOk
<1>4. ClientOk(repo', link', landed', up', down') /\ repo'.posted = <<>>
  BY <1>3, SettleOk DEF ClientInv
<1> QED BY <1>4 DEF ClientInv

\* The same for a handler of this client that receives nothing.
LEMMA HandlerOk ==
  ASSUME ClientInv, NEW r, RepoOk(r, Flying(link), landed), NoneAborting(r),
         \A n \in Ops : ~Is(repo, n, "none") => r.kind[n] = repo.kind[n],
         Settle(r, link), UNCHANGED <<down, server, landed>>
  PROVE  ClientInv'
<1>1. PICK d : d = down
  OBVIOUS
<1>2. /\ NetOk(repo, link, landed, up, d) /\ d \in Seq(Message)
      /\ AuthOk(link, up, d) /\ down' = d
  BY <1>1 DEF ClientInv, ClientOk
<1> QED BY <1>2, HandledOk

\* A handler of FRepo has made r of its record and ends with it, the connection
\* being l: it has called the overwrites news, and told those in f of an answer.
Handled(r, l, news, f) ==
    /\ RepoOk(r, Flying(l), landed)
    /\ NoneAborting(r)
    /\ l \in LinkRecord
    /\ \A m \in Ops : ~Is(repo, m, "none") => r.kind[m] = repo.kind[m]
    /\ \A m \in Ops : Is(r, m, "overwrite") <=> Is(repo, m, "overwrite") \/ m \in news
    /\ \A m \in Ops \ f : Is(r, m, "overwrite") => r.report[m] = repo.report[m]
    /\ \A i \in DOMAIN r.posted : \A m \in r.posted[i].of :
          Is(r, m, "overwrite") => m \in news
    /\ Settle(r, l)

\* What a tame handler leaves alone, when nothing was posted before.
LEMMA TameHandled ==
  ASSUME NEW r, NEW f, Tame(repo, r, f), repo.posted = <<>>
  PROVE  /\ r.kind = repo.kind
         /\ \A m \in Ops \ f : Is(repo, m, "overwrite") => r.report[m] = repo.report[m]
         /\ \A i \in DOMAIN r.posted : \A m \in r.posted[i].of : ~Is(r, m, "overwrite")
BY DEF Tame, Quiet, Adds

\* runTransaction calls no overwrite.
LEMMA TransactShape ==
  ASSUME ClientInv, NEW n \in Ops, Transact(n)
  PROVE  \E r : /\ Handled(r, link, {}, {})
                /\ r.seen = repo.seen
                /\ \A m \in Ops : r.report[m] = "ok" => repo.report[m] = "ok"
<1>1. PICK v : v = LatestState(repo, {}) + 1
  OBVIOUS
<1>2. PICK k : k = TopStamp(repo, Pending(repo)) + 1
  OBVIOUS
<1>3. PICK run : run = Running(repo, n, v, k)
  OBVIOUS
<1>4. PICK r : r = SendAllReady(run)
  OBVIOUS
<1>5. /\ IsNext(n) /\ Settle(r, link)
      /\ UNCHANGED <<down, server, landed>>
  BY <1>1, <1>2, <1>3, <1>4 DEF Transact, historyVars, Running
<1>6. /\ RepoOk(repo, Flying(link), landed) /\ NoneAborting(repo)
      /\ repo.posted = <<>> /\ landed \in [Ops -> Nat] /\ repo \in RepoRecord
  BY DEF ClientInv, ClientOk, RepoOk
<1>7. v \in Nat /\ k \in Nat
  <2>1. Pending(repo) \in SUBSET Ops
    BY DEF Pending
  <2>2. LatestState(repo, {}) \in Nat
    BY <1>6, LatestType
  <2>3. TopStamp(repo, Pending(repo)) \in Nat
    BY <1>6, <2>1, TopStampType
  <2> QED BY <1>1, <1>2, <2>2, <2>3
<1>8. Is(repo, n, "none") /\ \A m \in Ops : m < n => ~Is(repo, m, "none")
  BY <1>5 DEF IsNext, Called, Is
<1>9. RepoOk(run, Flying(link), landed)
  <2>1. FirstUncalled(repo, n) /\ Numbers(v, k)
    BY <1>7, <1>8 DEF FirstUncalled, Numbers
  <2> QED BY <1>3, <1>6, <2>1, RunOk
<1>10. NoneAborting(run) /\ \A m \in Ops : m # n => run.kind[m] = repo.kind[m]
  <2>1. NoneAborting(run)
    <3>1. run.queue = repo.queue \cup {n} /\ run.status = [repo.status EXCEPT ![n] = "run"]
      BY <1>3, <1>6 DEF RepoRecord, Running
    <3>2. /\ run.status[n] = "run"
          /\ \A m \in repo.queue : m # n => run.status[m] = repo.status[m]
      BY <1>6, <3>1 DEF RepoRecord
    <3> QED BY <1>6, <3>1, <3>2 DEF NoneAborting
  <2>2. \A m \in Ops : m # n => run.kind[m] = repo.kind[m]
    BY <1>3, <1>6 DEF RepoRecord, Running
  <2> QED BY <2>1, <2>2
<1>11. RepoOk(r, Flying(link), landed) /\ NoneAborting(r)
  BY <1>4, <1>6, <1>9, <1>10, SendOk
<1>12. r.kind = run.kind
  BY <1>4 DEF SendAllReady
<1>13. \A m \in Ops : ~Is(repo, m, "none") => r.kind[m] = repo.kind[m]
  BY <1>8, <1>10, <1>12 DEF Is
<1>14. /\ run.report = repo.report /\ run.posted = <<>> /\ run.seen = repo.seen
       /\ run.kind[n] = "transaction"
  BY <1>3, <1>6 DEF RepoRecord, Running
<1>15. Tame(run, r, {})
  BY <1>4, <1>9, SendTame
<1>16. \A m \in Ops : Is(r, m, "overwrite") <=> Is(repo, m, "overwrite")
  BY <1>8, <1>10, <1>12, <1>14 DEF Is
<1>17. \A m \in Ops : Is(repo, m, "overwrite") => r.report[m] = repo.report[m]
  BY <1>12, <1>14, <1>15, <1>16 DEF Tame, Quiet, Is
<1>18. \A i \in DOMAIN r.posted : \A m \in r.posted[i].of : ~Is(r, m, "overwrite")
  BY <1>14, <1>15 DEF Tame, Adds
<1>19. link \in LinkRecord
  BY DEF ClientInv, ClientOk
<1>20. Handled(r, link, {}, {})
  BY <1>5, <1>11, <1>13, <1>16, <1>17, <1>18, <1>19 DEF Handled
<1>21. Steady(run, r, {})
  BY <1>4, <1>9, SendSteady DEF RepoOk
<1> QED BY <1>14, <1>20, <1>21 DEF Steady

\* runTransaction keeps the invariant.
LEMMA TransactKeeps ==
  ASSUME ClientInv, NEW n \in Ops, Transact(n)
  PROVE  ClientInv'
<1>1. PICK r : Handled(r, link, {}, {})
  BY TransactShape
<1>2. UNCHANGED <<down, server, landed>>
  BY DEF Transact, historyVars
<1> QED BY <1>1, <1>2, HandlerOk DEF Handled

\* set and update call one overwrite.
LEMMA OverwriteShape ==
  ASSUME ClientInv, NEW n \in Ops, NEW v \in Values, Overwrite(n, v)
  PROVE  \E r : Handled(r, link, {n}, {}) /\ Steady(repo, r, {})
<1>1. PICK k : k = TopStamp(repo, Pending(repo)) + 1
  OBVIOUS
<1>2. PICK laid : laid = LaidOver(repo, n, v, k)
  OBVIOUS
<1>3. PICK aborted : aborted = AbortQueue(laid)
  OBVIOUS
<1>4. PICK r : r = Rerun(aborted)
  OBVIOUS
<1>5. /\ IsNext(n) /\ Settle(r, link)
      /\ UNCHANGED <<down, server, landed>>
  BY <1>1, <1>2, <1>3, <1>4 DEF Overwrite, historyVars, LaidOver
<1>6. /\ RepoOk(repo, Flying(link), landed) /\ NoneAborting(repo)
      /\ landed \in [Ops -> Nat] /\ repo \in RepoRecord
  BY DEF ClientInv, ClientOk, RepoOk
<1>7. v \in Nat /\ k \in Nat
  <2>1. Pending(repo) \in SUBSET Ops
    BY DEF Pending
  <2>2. TopStamp(repo, Pending(repo)) \in Nat
    BY <1>6, <2>1, TopStampType
  <2> QED BY <1>1, <2>2, BoundsAssumption
<1>8. Is(repo, n, "none") /\ \A m \in Ops : m < n => ~Is(repo, m, "none")
  BY <1>5 DEF IsNext, Called, Is
<1>9. RepoOk(laid, Flying(link), landed) /\ NoneAborting(laid)
  <2>1. RepoOk(laid, Flying(link), landed)
    <3>1. FirstUncalled(repo, n) /\ Numbers(v, k)
      BY <1>7, <1>8 DEF FirstUncalled, Numbers
    <3> QED BY <1>2, <1>6, <3>1, LayOk
  <2>2. laid.queue = repo.queue /\ laid.status = repo.status
    BY <1>2, <1>6 DEF RepoRecord, LaidOver
  <2>3. NoneAborting(laid)
    BY <1>6, <2>2 DEF NoneAborting
  <2> QED BY <2>1, <2>3
<1>10. \A m \in Ops : m # n => laid.kind[m] = repo.kind[m]
  BY <1>2, <1>6 DEF RepoRecord, LaidOver
<1>11. RepoOk(aborted, Flying(link), landed) /\ aborted.kind = laid.kind
  BY <1>3, <1>6, <1>9, AbortOk
<1>12. RepoOk(r, Flying(link), landed) /\ NoneAborting(r) /\ r.kind = aborted.kind
  BY <1>4, <1>6, <1>11, RerunOk
<1>13. \A m \in Ops : ~Is(repo, m, "none") => r.kind[m] = repo.kind[m]
  BY <1>8, <1>10, <1>11, <1>12 DEF Is
<1>14. /\ laid.report = repo.report /\ laid.kind[n] = "overwrite"
       /\ DOMAIN laid.posted = {1} /\ laid.posted[1].of = {n}
  BY <1>2, <1>6 DEF RepoRecord, LaidOver
<1>15. Tame(laid, aborted, {}) /\ Tame(aborted, r, {})
  BY <1>3, <1>4, <1>6, <1>9, <1>11, AbortTame, RerunTame
<1>16. Tame(laid, r, {})
  BY <1>15, TameTame
<1>17. \A m \in Ops : Is(r, m, "overwrite") <=> Is(repo, m, "overwrite") \/ m = n
  BY <1>8, <1>10, <1>11, <1>12, <1>14 DEF Is
<1>18. \A m \in Ops : Is(r, m, "overwrite") => r.report[m] = repo.report[m]
  BY <1>14, <1>16 DEF Tame, Quiet, Is
<1>19. \A i \in DOMAIN r.posted : \A m \in r.posted[i].of :
          Is(r, m, "overwrite") => m = n
  BY <1>14, <1>16 DEF Tame, Adds
<1>20. link \in LinkRecord
  BY DEF ClientInv, ClientOk
<1>21. Handled(r, link, {n}, {})
  BY <1>5, <1>12, <1>13, <1>17, <1>18, <1>19, <1>20 DEF Handled
<1>22. Steady(repo, r, {})
  <2>1. laid.seen = repo.seen /\ laid.status = repo.status
    BY <1>2, <1>6 DEF RepoRecord, LaidOver
  <2>2. Watchers(laid) \subseteq Watchers(repo)
    BY <1>10, <1>14, <2>1 DEF Watchers, Is
  <2>3. Steady(repo, laid, {})
    BY <1>14, <2>1, <2>2 DEF Steady
  <2>4. Steady(laid, aborted, {}) /\ Steady(aborted, r, {})
    BY <1>3, <1>4, <1>6, <1>9, <1>11, AbortSteady, RerunSteady DEF RepoOk
  <2> QED BY <2>3, <2>4, SteadySteady
<1> QED BY <1>21, <1>22

\* set and update keep the invariant, and so the transactions they abort.
LEMMA OverwriteKeeps ==
  ASSUME ClientInv, NEW n \in Ops, NEW v \in Values, Overwrite(n, v)
  PROVE  ClientInv'
<1>1. PICK r : Handled(r, link, {n}, {})
  BY OverwriteShape
<1>2. UNCHANGED <<down, server, landed>>
  BY DEF Overwrite, historyVars
<1> QED BY <1>1, <1>2, HandlerOk DEF Handled

\* What only moves what is outstanding, between two handlers of FRepo.
LEMMA MoveOk ==
  ASSUME ClientInv, NEW l \in LinkRecord, Flying(l) = Flying(link),
         LinkOk(repo, l, landed), NEW u \in Seq(RequestMessage), NEW d \in Seq(Message),
         NetOk(repo, l, landed, u, d), AuthOk(l, u, d),
         link' = l, up' = u, down' = d, UNCHANGED <<repo, landed>>,
         server' \in ServerRecord
  PROVE  ClientInv'
<1>1. RepoOk(repo, Flying(l), landed) /\ NoneAborting(repo)
  BY DEF ClientInv, ClientOk
<1>2. ClientOk(repo, l, landed, u, d)
  BY <1>1 DEF ClientOk
<1>3. ClientOk(repo', link', landed', up', down')
  BY <1>2
<1> QED BY <1>3 DEF ClientInv

\* The connection with another count of listens.
Counting(l, a, b) == [l EXCEPT !.unacked = a, !.reading = b]
Counts(a, b) == a \in Int /\ b \in BOOLEAN

\* What the connection counts and reads is of no concern.
LEMMA CountOk ==
  ASSUME ClientInv, NEW a, NEW b, Counts(a, b),
         NEW l, l = Counting(link, a, b)
  PROVE  /\ l \in LinkRecord /\ Flying(l) = Flying(link)
         /\ LinkOk(repo, l, landed)
         /\ NetOk(repo, l, landed, up, down)
<1>1. link \in LinkRecord /\ LinkOk(repo, link, landed)
  BY DEF ClientInv, ClientOk
<1>2. /\ l \in LinkRecord /\ l.puts = link.puts /\ l.held = link.held
      /\ l.due = link.due /\ l.conn = link.conn
  BY <1>1 DEF LinkRecord, Counting, Counts
<1>3. LinkOk(repo, l, landed)
  BY <1>1, <1>2 DEF LinkOk, PutTrue
<1>4. \A f : SentPut(link, f) => SentPut(l, f)
  BY <1>2 DEF SentPut
<1>5. NetOk(repo, link, landed, up, down)
  BY DEF ClientInv, ClientOk
<1>6. NetOk(repo, l, landed, up, down)
  BY <1>2, <1>4, <1>5, NetStays
<1>7. Flying(l) = Flying(link)
  BY <1>2 DEF Flying
<1> QED BY <1>2, <1>3, <1>6, <1>7

\* A read of another location keeps it.
LEMMA ReadKeeps ==
  ASSUME ClientInv, Read
  PROVE  ClientInv'
<1>1. PICK a : a = IF Connected(link) THEN link.unacked + 1 ELSE link.unacked
  OBVIOUS
<1>2. PICK l : l = Counting(link, a, TRUE)
  BY Zenon
<1>3. PICK q : q = IF Connected(link) THEN <<[type |-> "read"]>> ELSE <<>>
  OBVIOUS
<1>4. /\ link \in LinkRecord /\ up \in Seq(RequestMessage) /\ down \in Seq(Message)
      /\ server \in ServerRecord
  BY DEF ClientInv, ClientOk
<1>5. /\ q \in Seq(RequestMessage)
      /\ \A i \in DOMAIN q : q[i].type \notin {"put", "answer"}
      /\ NoAuth(q)
  <2>1. [type |-> "read"] \in RequestMessage
    BY DEF RequestMessage
  <2>2. q = <<>> \/ q = <<[type |-> "read"]>>
    BY <1>3
  <2>3. q \in Seq(RequestMessage) /\ \A i \in DOMAIN q : q[i] = [type |-> "read"]
    BY <2>1, <2>2, OneOrNone
  <2> QED BY <2>3 DEF NoAuth, IsAuth
<1>6. /\ link' = l /\ up' = up \o q /\ down' = down /\ server' = server
      /\ UNCHANGED <<repo, landed>>
  <2>1. link' = l
    BY <1>1, <1>2, <1>4 DEF Read, Counting, LinkRecord
  <2>2. up' = up \o q
    BY <1>3, <1>4 DEF Read
  <2> QED BY <2>1, <2>2 DEF Read, historyVars
<1>7. Counts(a, TRUE)
  BY <1>1, <1>4 DEF LinkRecord, Counts
<1>8. /\ l \in LinkRecord /\ Flying(l) = Flying(link)
      /\ LinkOk(repo, l, landed) /\ NetOk(repo, l, landed, up, down)
  BY <1>2, <1>7, CountOk
<1>9. NetOk(repo, l, landed, up \o q, down) /\ up \o q \in Seq(RequestMessage)
  BY <1>4, <1>5, <1>8, NetQuiet
<1>10. PICK u : u = up \o q
  OBVIOUS
<1>11. AuthOk(l, u, down)
  <2>1. AuthOk(link, up, down)
    BY DEF ClientInv, ClientOk
  <2>2. /\ NoAuth(up) => NoAuth(u)
        /\ OneAuth(up) => OneAuth(u)
    BY <1>4, <1>5, <1>10, AuthJoin
  <2>3. l.conn = link.conn
    BY <1>2, <1>4 DEF LinkRecord, Counting
  <2> QED BY <2>1, <2>2, <2>3 DEF AuthOk
<1>12. up' = u /\ u \in Seq(RequestMessage) /\ NetOk(repo, l, landed, u, down)
  BY <1>6, <1>9, <1>10
<1> QED BY <1>4, <1>6, <1>8, <1>11, <1>12, MoveOk
\* Restoring sends every outstanding put; those of transactions were never sent.
LEMMA RestoreOk ==
  ASSUME ClientInv, link.conn # "up", RestoreState(link), NEW d \in Seq(Message),
         NetOk(repo, link, landed, up, d), NoAuth(up), NoAuth(d), down' = d,
         UNCHANGED <<repo, server, landed>>
  PROVE  ClientInv'
<1>1. PICK listens : listens =
            (IF Watchers(repo) # {} THEN <<[type |-> "watch"]>> ELSE <<>>)
            \o (IF link.reading THEN <<[type |-> "read"]>> ELSE <<>>)
  OBVIOUS
<1>2. PICK a : a = link.unacked + Len(listens)
  OBVIOUS
<1>3. PICK l : l = [link EXCEPT !.conn = "up", !.puts = Sent(@), !.unacked = a]
  OBVIOUS
<1>4. /\ link \in LinkRecord /\ up \in Seq(RequestMessage)
      /\ LinkOk(repo, link, landed) /\ RepoOk(repo, Flying(link), landed)
      /\ server \in ServerRecord
  BY DEF ClientInv, ClientOk
<1>5. link' = l /\ up' = up \o listens \o Requests(link.puts)
  <2>1. link' = l
    BY <1>1, <1>2, <1>3 DEF RestoreState, Unanswered
  <2>2. up' = up \o listens \o Requests(link.puts)
    BY <1>1 DEF RestoreState, RestoreOrder
  <2> QED BY <2>1, <2>2
<1>6. /\ listens \in Seq(RequestMessage)
      /\ \A i \in DOMAIN listens : listens[i].type \notin {"put", "answer"}
      /\ NoAuth(listens)
  <2>1. [type |-> "read"] \in RequestMessage /\ [type |-> "watch"] \in RequestMessage
    BY DEF RequestMessage
  <2>2. PICK p : p = IF Watchers(repo) # {} THEN <<[type |-> "watch"]>> ELSE <<>>
    OBVIOUS
  <2>3. PICK q : q = IF link.reading THEN <<[type |-> "read"]>> ELSE <<>>
    OBVIOUS
  <2>4. /\ p \in Seq(RequestMessage) /\ q \in Seq(RequestMessage)
        /\ \A i \in DOMAIN p : p[i].type = "watch"
        /\ \A i \in DOMAIN q : q[i].type = "read"
    BY <2>1, <2>2, <2>3
  <2>5. listens = p \o q
    BY <1>1, <2>2, <2>3
  <2>6. \A i \in DOMAIN listens : listens[i].type \in {"watch", "read"}
    BY <2>4, <2>5
  <2> QED BY <2>4, <2>5, <2>6 DEF NoAuth, IsAuth
<1>7. a \in Int
  BY <1>2, <1>4, <1>6 DEF LinkRecord
<1>8. PICK puts : puts = Sent(link.puts)
  OBVIOUS
<1>9. link.puts \in Seq(Put)
  BY <1>4 DEF LinkRecord
<1>10. /\ puts \in Seq(Put) /\ DOMAIN puts = DOMAIN link.puts
       /\ \A i \in DOMAIN link.puts :
             /\ puts[i].of = link.puts[i].of /\ puts[i].hash = link.puts[i].hash
             /\ puts[i].sent
       /\ Of(puts) = Of(link.puts)
       /\ Distinct(puts)
  <2>1. Distinct(link.puts)
    BY <1>4 DEF LinkOk
  <2> QED BY <1>8, <1>9, <2>1, SentType
<1>11. /\ l \in LinkRecord /\ l.puts = puts /\ l.held = link.held
       /\ l.due = link.due /\ l.conn = "up"
  <2>1. l = [link EXCEPT !.conn = "up", !.puts = puts, !.unacked = a]
    BY <1>3, <1>8
  <2> QED BY <1>4, <1>7, <1>10, <2>1 DEF LinkRecord
<1>12. Flying(l) = Flying(link)
  BY <1>10, <1>11 DEF Flying
<1>13. LinkOk(repo, l, landed)
  <2>1. \A i \in DOMAIN l.puts : PutTrue(repo, l, landed, l.puts[i])
    BY <1>4, <1>10, <1>11 DEF LinkOk, PutTrue
  <2>2. Apart(l.puts, l.held) /\ Apart(l.puts, l.due)
    BY <1>4, <1>10, <1>11 DEF LinkOk, Apart
  <2> QED BY <1>4, <1>10, <1>11, <2>1, <2>2 DEF LinkOk
<1>14. \A f : SentPut(link, f) => SentPut(l, f)
  BY <1>10, <1>11 DEF SentPut
<1>15. NetOk(repo, l, landed, up, d)
  BY <1>11, <1>14, NetStays
<1>16. PICK u : u = up \o listens
  OBVIOUS
<1>17. NetOk(repo, l, landed, u, d) /\ u \in Seq(RequestMessage)
  <2>1. NetOk(repo, l, landed, up \o listens, d)
    BY <1>4, <1>6, <1>15, NetQuiet
  <2> QED BY <1>4, <1>6, <1>16, <2>1
\* No put and no answer travels while writes cannot be sent.
<1>18. \A n : Free(u, n) /\ Free(d, n)
  <2>1. \A m : MessageOk(repo, link, landed, m) => \A n : ~Bears(m, n)
    BY DEF MessageOk, Bears
  <2>2. \A n : Free(up, n) /\ Free(d, n)
    BY <2>1 DEF NetOk, Free
  <2>3. \A n : Free(up, n) => Free(u, n)
    BY <1>4, <1>6, <1>16, FreeJoin
  <2> QED BY <2>2, <2>3
<1>19. ASSUME NEW i \in DOMAIN link.puts
       PROVE  Sendable(repo, l, landed, u, d, link.puts[i])
  <2>1. PutOk(repo, link.puts[i].of)
    <3>1. FlyingOk(repo, Flying(link))
      BY <1>4 DEF RepoOk
    <3> QED BY <3>1, FlyingCalled
  <2>2. SentPut(l, link.puts[i].of)
    BY <1>10, <1>11 DEF SentPut
  <2>3. PutTrue(repo, link, landed, link.puts[i])
    BY <1>4 DEF LinkOk
  <2> QED BY <1>18, <2>1, <2>2, <2>3 DEF PutTrue, Sendable
<1>20. PICK requests : requests = Requests(link.puts)
  OBVIOUS
<1>21. /\ NetOk(repo, l, landed, u \o requests, d)
       /\ requests \in Seq(RequestMessage) /\ NoAuth(requests)
  <2>1. PICK q \in Seq(Put) : q = link.puts
    BY <1>9
  <2>2. Distinct(q) /\ \A i \in DOMAIN q : Sendable(repo, l, landed, u, d, q[i])
    BY <1>4, <1>19, <2>1 DEF LinkOk
  <2>3. l.conn = "up" /\ requests = Requests(q)
    BY <1>11, <1>20, <2>1
  <2> QED BY <1>17, <2>2, <2>3, RequestsOk
<1>22. PICK w : w = u \o requests
  OBVIOUS
<1>23. /\ up' = w /\ NetOk(repo, l, landed, w, d)
       /\ w \in Seq(RequestMessage)
  BY <1>5, <1>16, <1>17, <1>20, <1>21, <1>22
<1>24. AuthOk(l, w, d)
  <2>1. NoAuth(u)
    <3>1. /\ DOMAIN up \subseteq DOMAIN u
          /\ \A j \in DOMAIN u : \/ j \in DOMAIN up /\ u[j] = up[j]
                                 \/ \E i \in DOMAIN listens : u[j] = listens[i]
      <4>1. up \in Seq(RequestMessage) /\ listens \in Seq(RequestMessage)
        BY <1>4, <1>6
      <4> QED BY <4>1, <1>16, JoinMembers
    <3> QED BY <1>6, <3>1 DEF NoAuth
  <2>2. NoAuth(w)
    BY <1>17, <1>21, <1>22, <2>1, AuthJoin
  <2> QED BY <2>2 DEF AuthOk
<1> QED BY <1>4, <1>5, <1>11, <1>12, <1>13, <1>23, <1>24, MoveOk

\* A connection that is established keeps it, with or without a token.
LEMMA ConnectKeeps ==
  ASSUME ClientInv, ConnectWithToken \/ ConnectWithoutToken
  PROVE  ClientInv'
<1>1. /\ link \in LinkRecord /\ up \in Seq(RequestMessage) /\ down \in Seq(Message)
      /\ LinkOk(repo, link, landed) /\ NetOk(repo, link, landed, up, down)
      /\ server \in ServerRecord /\ link.conn = "down"
      /\ NoAuth(up) /\ NoAuth(down)
  BY DEF ClientInv, ClientOk, ConnectWithToken, ConnectWithoutToken, AuthOk
<1>2. CASE ConnectWithoutToken
  <2>1. /\ link.conn # "up" /\ RestoreState(link) /\ down' = down
        /\ UNCHANGED <<repo, server, landed>>
    BY <1>1, <1>2 DEF ConnectWithoutToken, historyVars
  <2> QED BY <1>1, <2>1, RestoreOk
<1>3. CASE ConnectWithToken
  <2>1. PICK l : l = [link EXCEPT !.conn = "authenticating"]
    OBVIOUS
  <2>2. PICK q : q = <<[type |-> "auth"]>>
    OBVIOUS
  <2>3. /\ link' = l /\ up' = q /\ down' = down
        /\ UNCHANGED <<repo, landed, server>>
    BY <1>3, <2>1, <2>2 DEF ConnectWithToken, historyVars
  <2>4. /\ l \in LinkRecord /\ l.puts = link.puts /\ l.held = link.held
        /\ l.due = link.due
    BY <1>1, <2>1 DEF LinkRecord
  <2>5. LinkOk(repo, l, landed)
    <3>1. \A i \in DOMAIN link.puts : PutTrue(repo, l, landed, link.puts[i])
      BY <1>1 DEF LinkOk, PutTrue
    <3> QED BY <1>1, <2>4, <3>1 DEF LinkOk
  <2>6. Flying(l) = Flying(link)
    BY <2>4 DEF Flying
  <2>7. NetOk(repo, link, landed, q, down)
    <3>1. \A i \in DOMAIN q : q[i].type = "auth"
      BY <2>2
    <3>2. /\ \A i \in DOMAIN q : MessageOk(repo, link, landed, q[i])
          /\ \A n : Free(q, n)
      BY <3>1 DEF MessageOk, Free, Bears
    <3>3. Once(repo, q) /\ Either(repo, q, down)
      BY <3>2 DEF Once, Either, Free
    <3> QED BY <1>1, <3>2, <3>3 DEF NetOk
  <2>8. NetOk(repo, l, landed, q, down)
    <3>1. \A f : SentPut(link, f) => SentPut(l, f)
      BY <2>4 DEF SentPut
    <3> QED BY <1>1, <2>7, <3>1, NetStays
  <2>9. q \in Seq(RequestMessage)
    <3>1. [type |-> "auth"] \in RequestMessage
      BY DEF RequestMessage
    <3> QED BY <2>2, <3>1
  <2>10. AuthOk(l, q, down)
    <3>1. l.conn = "authenticating"
      BY <1>1, <2>1 DEF LinkRecord
    <3>2. OneAuth(q)
      BY <2>2 DEF OneAuth, IsAuth
    <3> QED BY <1>1, <3>1, <3>2 DEF AuthOk
  <2> QED BY <1>1, <2>3, <2>4, <2>5, <2>6, <2>8, <2>9, <2>10, MoveOk
<1> QED BY <1>2, <1>3

\* A lost connection cancels the transactions that were sent: of them nothing is
\* known.
LEMMA DropKeeps ==
  ASSUME ClientInv, Drop
  PROVE  ClientInv'
<1>1. PICK kept : kept = Kept(link.puts)
  OBVIOUS
<1>2. PICK cancelled : cancelled = Cancelled(link.puts)
  OBVIOUS
<1>3. PICK l : l = [link EXCEPT !.conn = "down", !.puts = kept, !.due = cancelled,
                                !.unacked = 0]
  OBVIOUS
<1>4. /\ link \in LinkRecord /\ LinkOk(repo, link, landed)
      /\ server \in ServerRecord /\ link.puts \in Seq(Put)
      /\ FlyingOk(repo, Flying(link))
  BY DEF ClientInv, ClientOk, LinkRecord, RepoOk
<1>5. /\ link' = l /\ up' = <<>> /\ down' = <<>> /\ link.due = <<>>
      /\ UNCHANGED <<repo, landed>> /\ server' \in ServerRecord
  BY <1>1, <1>2, <1>3, <1>4 DEF Drop, Idle, historyVars, ServerRecord
<1>6. PICK I : I = KeptAt(link.puts)
  OBVIOUS
<1>7. PICK J : J = CancelledAt(link.puts)
  OBVIOUS
<1>8. /\ kept \in Seq(Put)
      /\ \A j \in DOMAIN kept : \E k \in I : kept[j] = link.puts[k]
      /\ Picks(kept, link.puts, I)
  BY <1>1, <1>4, <1>6, KeptType
<1>9. /\ cancelled \in Seq(AnswerRecord)
      /\ \A j \in DOMAIN cancelled : \E k \in J :
            cancelled[j] = [of |-> link.puts[k].of, status |-> "disconnect"]
      /\ Picks(cancelled, link.puts, J)
  BY <1>2, <1>4, <1>7, CancelledType
<1>10. /\ l \in LinkRecord /\ l.puts = kept /\ l.due = cancelled
       /\ l.held = link.held /\ l.conn = "down"
  <2>1. kept \in Seq(Put) /\ cancelled \in Seq(AnswerRecord) /\ link \in LinkRecord
    BY <1>4, <1>8, <1>9
  <2>2. link.held \in Seq(AnswerRecord) /\ link.reading \in BOOLEAN
    BY <1>4 DEF LinkRecord
  <2>3. l = [conn |-> "down", puts |-> kept, held |-> link.held,
             due |-> cancelled, unacked |-> 0, reading |-> link.reading]
    BY <1>3, <1>4 DEF LinkRecord
  <2> QED BY <2>1, <2>2, <2>3 DEF LinkRecord
<1>11. /\ I \cup J = DOMAIN link.puts /\ I \cap J = {}
       /\ \A k \in I : ~Cancellable(link.puts[k])
       /\ \A k \in J : Cancellable(link.puts[k])
  BY <1>6, <1>7 DEF KeptAt, CancelledAt
<1>12. Flying(l) = Flying(link)
  <2>1. Of(kept) \cup Of(cancelled) = Of(link.puts)
    <3>1. \A j \in DOMAIN kept : kept[j].of \in Of(link.puts)
      BY <1>8, <1>11 DEF Of, Picks
    <3>2. \A j \in DOMAIN cancelled : cancelled[j].of \in Of(link.puts)
      BY <1>9, <1>11 DEF Of, Picks
    <3>3. \A k \in I : link.puts[k].of \in Of(kept)
      BY <1>8 DEF Of, Picks
    <3>4. \A k \in J : link.puts[k].of \in Of(cancelled)
      BY <1>9 DEF Of, Picks
    <3>5. \A f \in Of(kept) \cup Of(cancelled) : f \in Of(link.puts)
      BY <3>1, <3>2 DEF Of
    <3>6. \A f \in Of(link.puts) : f \in Of(kept) \cup Of(cancelled)
      BY <1>11, <3>3, <3>4 DEF Of
    <3> QED BY <3>5, <3>6
  <2>2. Of(link.due) = {}
    BY <1>5 DEF Of
  <2> QED BY <1>10, <2>1, <2>2 DEF Flying
<1>13. Distinct(kept) /\ Distinct(cancelled) /\ Apart(kept, cancelled)
       /\ Apart(kept, link.held) /\ Apart(link.held, cancelled)
  <2>1. Distinct(link.puts) /\ Apart(link.puts, link.held)
    BY <1>4 DEF LinkOk
  <2>2. Distinct(kept) /\ Distinct(cancelled)
    BY <1>8, <1>9, <2>1 DEF Picks
  <2>3. Apart(kept, cancelled)
    <3> SUFFICES ASSUME NEW i \in DOMAIN kept, NEW j \in DOMAIN cancelled
                 PROVE  kept[i].of \cap cancelled[j].of = {}
      BY DEF Apart
    <3>1. PICK k \in I : kept[i].of = link.puts[k].of
      BY <1>8 DEF Picks
    <3>2. PICK m \in J : cancelled[j].of = link.puts[m].of
      BY <1>9 DEF Picks
    <3>3. k # m /\ k \in DOMAIN link.puts /\ m \in DOMAIN link.puts
      BY <1>11
    <3> QED BY <2>1, <3>1, <3>2, <3>3 DEF Distinct
  <2>4. Apart(kept, link.held) /\ Apart(link.held, cancelled)
    <3>1. \A i \in DOMAIN kept : \E k \in DOMAIN link.puts : kept[i].of = link.puts[k].of
      BY <1>8, <1>11 DEF Picks
    <3>2. \A i \in DOMAIN cancelled : \E k \in DOMAIN link.puts :
              cancelled[i].of = link.puts[k].of
      BY <1>9, <1>11 DEF Picks
    <3> QED BY <2>1, <3>1, <3>2 DEF Apart
  <2> QED BY <2>2, <2>3, <2>4
<1>14. ASSUME NEW j \in DOMAIN kept PROVE PutTrue(repo, l, landed, kept[j])
  <2>1. PICK k \in I : kept[j] = link.puts[k]
    BY <1>8
  <2>2. PutTrue(repo, link, landed, kept[j]) /\ ~Cancellable(kept[j])
    BY <1>4, <1>11, <2>1 DEF LinkOk
  <2> QED BY <2>2 DEF PutTrue, Cancellable
<1>15. ASSUME NEW j \in DOMAIN cancelled PROVE AnswerTrue(repo, landed, cancelled[j])
  <2>1. PICK k \in J : cancelled[j] = [of |-> link.puts[k].of, status |-> "disconnect"]
    BY <1>9
  <2>2. k \in DOMAIN link.puts /\ Cancellable(link.puts[k])
    BY <1>11
  <2>3. PutTrue(repo, link, landed, link.puts[k])
    BY <1>4, <2>2 DEF LinkOk
  <2>4. \A n \in cancelled[j].of : ~Is(repo, n, "overwrite")
    BY <2>1, <2>2, <2>3 DEF PutTrue, Cancellable
  <2>5. cancelled[j].status = "disconnect"
    BY <2>1
  <2> QED BY <2>4, <2>5 DEF AnswerTrue
<1>16. LinkOk(repo, l, landed)
  BY <1>4, <1>10, <1>13, <1>14, <1>15 DEF LinkOk
<1>17. PICK z : z = <<>>
  OBVIOUS
<1>18. /\ z \in Seq(RequestMessage) /\ z \in Seq(Message)
       /\ up' = z /\ down' = z
       /\ NetOk(repo, l, landed, z, z) /\ AuthOk(l, z, z)
  <2>1. z \in Seq(RequestMessage) /\ z \in Seq(Message) /\ up' = z /\ down' = z
    BY <1>5, <1>17
  <2>2. NetOk(repo, l, landed, z, z)
    BY <1>17 DEF NetOk, Once, Either, Free
  <2>3. AuthOk(l, z, z)
    BY <1>17 DEF AuthOk, NoAuth
  <2> QED BY <2>1, <2>2, <2>3
<1> QED BY <1>5, <1>10, <1>12, <1>16, <1>18, MoveOk
\* The connection without the answer that is passed on.
Passed(l, i) == [l EXCEPT !.due = Without(@, i)]

\* A callback takes one answer, which FRepo is told.
LEMMA CallbackShape ==
  ASSUME ClientInv, NEW i \in DOMAIN link.due, Callback(i)
  PROVE  \E r : /\ Handled(r, Passed(link, i), {}, link.due[i].of)
                /\ \A n \in link.due[i].of :
                      Is(r, n, "overwrite") => r.report[n] = link.due[i].status
                /\ r.kind = repo.kind
                /\ Steady(repo, r, Pleased(link.due[i].of, link.due[i].status))
<1>1. PICK f : f = link.due[i].of
  OBVIOUS
<1>2. PICK status : status = link.due[i].status
  OBVIOUS
<1>3. PICK l : l = [link EXCEPT !.due = Without(@, i)]
  OBVIOUS
<1>4. PICK after : after = Answered(repo, f, status)
  OBVIOUS
<1>5. PICK r : r = AnsweredRerun(repo, after, f)
  OBVIOUS
<1>6. Settle(r, l) /\ UNCHANGED <<down, server, landed>>
  BY <1>1, <1>2, <1>3, <1>4, <1>5 DEF Callback, historyVars
<1>7. /\ RepoOk(repo, Flying(link), landed) /\ NoneAborting(repo)
      /\ repo.posted = <<>> /\ landed \in [Ops -> Nat]
      /\ link \in LinkRecord /\ LinkOk(repo, link, landed)
      /\ NetOk(repo, link, landed, up, down)
      /\ link.due \in Seq(AnswerRecord)
      /\ FlyingOk(repo, Flying(link))
  BY DEF ClientInv, ClientOk, LinkRecord, RepoOk
<1>8. PICK due : due = Without(link.due, i)
  OBVIOUS
<1>90. due \in Seq(AnswerRecord) /\ RestOf(due, link.due, i)
  BY <1>7, <1>8, WithoutPicks
<1>9. /\ due \in Seq(AnswerRecord)
      /\ \A j \in DOMAIN due : \E k \in DOMAIN link.due \ {i} : due[j] = link.due[k]
      /\ \A k \in DOMAIN link.due \ {i} : \E j \in DOMAIN due : due[j] = link.due[k]
      /\ Picks(due, link.due, DOMAIN link.due \ {i})
  BY <1>90 DEF RestOf
<1>10. /\ l \in LinkRecord /\ l.puts = link.puts /\ l.held = link.held
       /\ l.due = due /\ l.conn = link.conn
  <2>1. l = [link EXCEPT !.due = due]
    BY <1>3, <1>8
  <2> QED BY <1>7, <1>9, <2>1 DEF LinkRecord
<1>11. PutOk(repo, f) /\ f # {}
  BY <1>1, <1>7, FlyingCalled DEF PutOk
<1>12. Flying(l) = Flying(link) \ {f}
  <2>1. f \notin Of(link.puts) /\ f \notin Of(link.held)
    BY <1>1, <1>7, <1>11 DEF LinkOk, Apart, Of
  <2>2. Of(due) = Of(link.due) \ {f}
    <3>1. \A k \in DOMAIN link.due \ {i} : link.due[k].of # f
      BY <1>1, <1>7, <1>11 DEF LinkOk, Distinct
    <3>2. \A g \in Of(due) : g \in Of(link.due) \ {f}
      BY <1>9, <3>1 DEF Of
    <3>3. \A g \in Of(link.due) \ {f} : g \in Of(due)
      BY <1>1, <1>9 DEF Of
    <3> QED BY <3>2, <3>3
  <2> QED BY <1>10, <2>1, <2>2 DEF Flying
<1>13. f \in Flying(link) /\ \A g \in Flying(link) : g # f => g \cap f = {}
  <2>1. f \in Flying(link)
    BY <1>1 DEF Flying, Of
  <2>2. \A g \in Of(link.puts) \cup Of(link.held) : g \cap f = {}
    BY <1>1, <1>7 DEF LinkOk, Apart, Of
  <2>3. \A g \in Of(link.due) : g # f => g \cap f = {}
    BY <1>1, <1>7 DEF LinkOk, Distinct, Of
  <2> QED BY <2>1, <2>2, <2>3 DEF Flying
<1>14. /\ Known(status)
       /\ AnswerTrue(repo, landed, Reply(f, status))
  <2>1. link.due[i] \in AnswerRecord
    BY <1>7
  <2>2. AnswerTrue(repo, landed, link.due[i])
    BY <1>7 DEF LinkOk
  <2> QED BY <1>1, <1>2, <2>1, <2>2 DEF AnswerRecord, AnswerTrue, Reply, Known
<1>15. PICK F : F = Flying(link)
  OBVIOUS
<1>16. RepoOk(repo, F, landed) /\ Alone(f, F)
  BY <1>7, <1>13, <1>15 DEF Alone
<1>17. /\ RepoOk(r, F \ {f}, landed) /\ NoneAborting(r) /\ r.kind = repo.kind
       /\ Tame(repo, r, f) /\ Steady(repo, r, Pleased(f, status))
       /\ \A n \in f : Is(repo, n, "overwrite") => r.report[n] = status
  <2>1. PICK G : G = F \ {f}
    OBVIOUS
  <2>2. PICK a : a = Reply(f, status)
    OBVIOUS
  <2>3. AnswerTrue(repo, landed, a)
    BY <1>14, <2>2
  <2>4. /\ RepoOk(repo, F, landed) /\ NoneAborting(repo) /\ repo.posted = <<>>
        /\ landed \in [Ops -> Nat] /\ Alone(f, F) /\ Known(status)
    BY <1>7, <1>14, <1>16
  <2>5. RepoOk(r, G, landed) /\ NoneAborting(r) /\ r.kind = repo.kind
    BY <1>4, <1>5, <2>1, <2>2, <2>3, <2>4, AnsweredOk
  <2>6. Tame(repo, r, f) /\ \A n \in f : Is(repo, n, "overwrite") => r.report[n] = status
    BY <1>4, <1>5, <2>2, <2>3, <2>4, AnsweredTame
  <2>7. Steady(repo, r, Pleased(f, status))
    BY <1>4, <1>5, <2>2, <2>3, <2>4, AnsweredSteady
  <2> QED BY <2>1, <2>5, <2>6, <2>7
<1>18. RepoOk(r, Flying(l), landed)
  BY <1>12, <1>15, <1>17
<1>19. /\ \A m \in Ops \ f : Is(repo, m, "overwrite") => r.report[m] = repo.report[m]
       /\ \A j \in DOMAIN r.posted : \A m \in r.posted[j].of : ~Is(r, m, "overwrite")
  BY <1>7, <1>17, TameHandled
<1>20. Handled(r, l, {}, f)
  BY <1>6, <1>10, <1>17, <1>18, <1>19 DEF Handled, Is
<1> QED BY <1>1, <1>2, <1>3, <1>17, <1>20 DEF Passed, Is

\* What is passed on was due, and the others still are.
LEMMA PassedType ==
  ASSUME ClientInv, NEW i \in DOMAIN link.due, NEW l, l = Passed(link, i)
  PROVE  /\ l \in LinkRecord /\ l.puts = link.puts /\ l.held = link.held
         /\ l.conn = link.conn /\ l.unacked = link.unacked
         /\ \A j \in DOMAIN l.due : \E k \in DOMAIN link.due \ {i} : l.due[j] = link.due[k]
         /\ Distinct(l.due)
<1>1. link \in LinkRecord /\ link.due \in Seq(AnswerRecord) /\ Distinct(link.due)
  BY DEF ClientInv, ClientOk, LinkRecord, LinkOk
<1>2. PICK due : due = Without(link.due, i)
  OBVIOUS
<1>3. due \in Seq(AnswerRecord) /\ RestOf(due, link.due, i)
  BY <1>1, <1>2, WithoutPicks
<1>4. l = [link EXCEPT !.due = due]
  BY <1>2 DEF Passed
<1>5. /\ l \in LinkRecord /\ l.puts = link.puts /\ l.held = link.held
      /\ l.due = due /\ l.conn = link.conn /\ l.unacked = link.unacked
  BY <1>1, <1>3, <1>4 DEF LinkRecord
<1> QED BY <1>1, <1>3, <1>5 DEF RestOf, Picks

\* A callback keeps the invariant.
LEMMA CallbackKeeps ==
  ASSUME ClientInv, NEW i \in DOMAIN link.due, Callback(i)
  PROVE  ClientInv'
<1>1. PICK l : l = Passed(link, i)
  OBVIOUS
<1>2. PICK f : f = link.due[i].of
  OBVIOUS
<1>3. PICK r : Handled(r, l, {}, f) /\ r.kind = repo.kind
  BY <1>1, <1>2, CallbackShape
<1>6. UNCHANGED <<down, server, landed>>
  BY DEF Callback, historyVars
<1>7. /\ landed \in [Ops -> Nat] /\ LinkOk(repo, link, landed)
      /\ NetOk(repo, link, landed, up, down)
  BY DEF ClientInv, ClientOk
<1>9. /\ \A j \in DOMAIN l.due : \E k \in DOMAIN link.due \ {i} : l.due[j] = link.due[k]
      /\ Distinct(l.due)
      /\ l \in LinkRecord /\ l.puts = link.puts /\ l.held = link.held
      /\ l.conn = link.conn
  BY <1>1, PassedType
<1>10. /\ RepoOk(r, Flying(l), landed) /\ NoneAborting(r) /\ Settle(r, l)
  BY <1>3 DEF Handled
<1>19. LinkOk(repo, l, landed)
  <2>1. Apart(l.puts, l.due) /\ Apart(l.held, l.due)
    <3>2. \A j \in DOMAIN l.due : \E k \in DOMAIN link.due : l.due[j].of = link.due[k].of
      BY <1>9
    <3>3. Apart(link.puts, link.due) /\ Apart(link.held, link.due)
      BY <1>7 DEF LinkOk
    <3> QED BY <1>9, <3>2, <3>3 DEF Apart
  <2>2. \A j \in DOMAIN l.due : AnswerTrue(repo, landed, l.due[j])
    BY <1>7, <1>9 DEF LinkOk
  <2>3. \A j \in DOMAIN l.puts : PutTrue(repo, l, landed, l.puts[j])
    BY <1>7, <1>9 DEF LinkOk, PutTrue
  <2> QED BY <1>7, <1>9, <2>1, <2>2, <2>3 DEF LinkOk
<1>20. LinkOk(r, l, landed)
  BY <1>3, <1>19 DEF LinkOk, PutTrue, AnswerTrue, Is
<1>21. NetOk(r, l, landed, up, down)
  <2>1. \A g : SentPut(link, g) => SentPut(l, g)
    BY <1>9 DEF SentPut
  <2> QED BY <1>3, <1>7, <1>9, <2>1, NetStays
<1>22. ClientOk(r, l, landed, up, down)
  <2>1. AuthOk(l, up, down)
    BY <1>9 DEF ClientInv, ClientOk, AuthOk
  <2> QED BY <2>1, <1>9, <1>10, <1>20, <1>21 DEF ClientInv, ClientOk
<1>23. ClientOk(repo', link', landed', up', down') /\ repo'.posted = <<>>
  BY <1>6, <1>7, <1>10, <1>22, SettleOk
<1> QED BY <1>6, <1>23 DEF ClientInv

\* The first message from the database leaves.
LEMMA ArrivesOk ==
  ASSUME ClientInv, NEW type, Arrives(type)
  PROVE  /\ down' = Tail(down) /\ Tail(down) \in Seq(Message)
         /\ link.due = <<>>
         /\ Head(down) \in Message /\ Head(down).type = type
         /\ NetOk(repo, link, landed, up, Tail(down))
         /\ AuthOk(link, up, Tail(down))
         /\ IsAuth(Head(down)) =>
               /\ link.conn = "authenticating"
               /\ NoAuth(up) /\ NoAuth(Tail(down))
         /\ MessageOk(repo, link, landed, Head(down))
         /\ \A n \in Ops : Is(repo, n, "transaction") /\ Bears(Head(down), n) =>
               Free(Tail(down), n) /\ Free(up, n)
<1>1. /\ down # <<>> /\ down \in Seq(Message) /\ up \in Seq(RequestMessage)
      /\ NetOk(repo, link, landed, up, down)
  BY DEF ClientInv, ClientOk, Arrives
<1>2. NetOk(repo, link, landed, down, up)
  BY <1>1, NetSwap
<1>3. /\ NetOk(repo, link, landed, Tail(down), up)
      /\ MessageOk(repo, link, landed, Head(down))
      /\ \A n \in Ops : Is(repo, n, "transaction") /\ Bears(Head(down), n) =>
            Free(Tail(down), n) /\ Free(up, n)
  BY <1>1, <1>2, NetTail
<1>4. NetOk(repo, link, landed, up, Tail(down))
  BY <1>3, NetSwap
<1>5. Tail(down) \in Seq(Message) /\ Head(down) \in Message
  BY <1>1
<1>6. /\ AuthOk(link, up, Tail(down))
      /\ IsAuth(Head(down)) => /\ link.conn = "authenticating"
                               /\ NoAuth(up) /\ NoAuth(Tail(down))
  <2>1. AuthOk(link, up, down)
    BY DEF ClientInv, ClientOk
  <2>2. /\ NoAuth(down) => NoAuth(Tail(down)) /\ ~IsAuth(Head(down))
        /\ OneAuth(down) => IF IsAuth(Head(down)) THEN NoAuth(Tail(down))
                            ELSE OneAuth(Tail(down))
    BY <1>1, AuthTail
  <2> QED BY <2>1, <2>2 DEF AuthOk
<1> QED BY <1>3, <1>4, <1>5, <1>6 DEF Arrives, Idle

\* The answer to the token, after which everything is restored, keeps it.
LEMMA AuthedKeeps ==
  ASSUME ClientInv, ReceiveAuthed
  PROVE  ClientInv'
<1>1. Arrives("authed") /\ RestoreState(link) /\ UNCHANGED <<repo, server, landed>>
  BY DEF ReceiveAuthed, historyVars
<1>2. /\ down' = Tail(down) /\ Tail(down) \in Seq(Message)
      /\ NetOk(repo, link, landed, up, Tail(down))
      /\ link.conn = "authenticating"
      /\ NoAuth(up) /\ NoAuth(Tail(down))
  <2>1. IsAuth(Head(down))
    BY <1>1, ArrivesOk DEF IsAuth
  <2> QED BY <1>1, <2>1, ArrivesOk
<1> QED BY <1>1, <1>2, RestoreOk
\* The figure the database has told is the cached one; the queue runs on it.
LEMMA DataShape ==
  ASSUME ClientInv, ReceiveData
  PROVE  \E r : /\ Handled(r, link, {}, {})
                /\ r.seen = IF Watchers(repo) = {} THEN repo.seen
                            ELSE Head(down).version
                /\ Watchers(r) \subseteq Watchers(repo)
                /\ \A m \in Ops : r.report[m] = "ok" => repo.report[m] = "ok"
<1>1. PICK c : c = Head(down).value
  OBVIOUS
<1>2. PICK v : v = Head(down).version
  OBVIOUS
<1>3. PICK kept : kept = IF Watchers(repo) = {} THEN repo
                         ELSE [repo EXCEPT !.cache = c, !.seen = v]
  OBVIOUS
<1>4. PICK r : r = IF LatestState(kept, {}) # LatestState(repo, {}) THEN Rerun(kept)
                   ELSE kept
  OBVIOUS
<1>5. /\ Arrives("data") /\ Settle(r, link)
      /\ UNCHANGED <<server, landed>>
  BY <1>1, <1>2, <1>3, <1>4 DEF ReceiveData, historyVars
<1>6. PICK d : d = Tail(down)
  OBVIOUS
<1>7. /\ down' = d /\ d \in Seq(Message)
      /\ Head(down) \in Message /\ Head(down).type = "data"
      /\ NetOk(repo, link, landed, up, d) /\ AuthOk(link, up, d)
  BY <1>5, <1>6, ArrivesOk
<1>8. c \in Nat \cup {None} /\ v \in Nat
  BY <1>1, <1>2, <1>7 DEF Message
<1>9. /\ RepoOk(repo, Flying(link), landed) /\ NoneAborting(repo)
      /\ repo.posted = <<>> /\ repo \in RepoRecord /\ landed \in [Ops -> Nat]
  BY DEF ClientInv, ClientOk, RepoOk
<1>10. RepoOk(kept, Flying(link), landed) /\ NoneAborting(kept)
       /\ kept.kind = repo.kind
  <2>1. CASE Watchers(repo) = {}
    BY <1>3, <1>9, <2>1
  <2>2. CASE Watchers(repo) # {}
    <3>1. PICK s : s = HandOver(repo, c, v)
      OBVIOUS
    <3>2. /\ RepoOk(s, Flying(link) \cup Of(repo.posted), landed)
          /\ NoneAborting(s) /\ s.kind = repo.kind
      <4>1. PICK G : G = Flying(link) \cup Of(repo.posted)
        OBVIOUS
      <4>2. Figures(c, v)
        BY <1>8 DEF Figures
      <4> QED BY <1>9, <3>1, <4>1, <4>2, HandedOk
    <3>3. Flying(link) \cup Of(repo.posted) = Flying(link)
      BY <1>9 DEF Of
    <3>4. kept = s
      BY <1>3, <1>9, <2>2, <3>1 DEF RepoRecord, HandOver
    <3> QED BY <3>2, <3>3, <3>4
  <2> QED BY <2>1, <2>2
<1>11. RepoOk(r, Flying(link), landed) /\ NoneAborting(r) /\ r.kind = repo.kind
  <2>1. r = kept \/ r = Rerun(kept)
    BY <1>4
  <2>2. r = Rerun(kept) => RepoOk(r, Flying(link), landed) /\ NoneAborting(r)
                           /\ r.kind = kept.kind
    BY <1>9, <1>10, RerunOk
  <2> QED BY <1>10, <2>1, <2>2
<1>12. kept.kind = repo.kind /\ kept.report = repo.report /\ kept.posted = repo.posted
  BY <1>3, <1>9 DEF RepoRecord
<1>13. Tame(repo, kept, {})
  BY <1>12, TameSame
<1>14. Tame(kept, r, {})
  <2>1. r = kept \/ r = Rerun(kept)
    BY <1>4
  <2>2. r = Rerun(kept) => Tame(kept, r, {})
    BY <1>9, <1>10, RerunTame
  <2>3. r = kept => Tame(kept, r, {})
    BY TameSame
  <2> QED BY <2>1, <2>2, <2>3
<1>15. Tame(repo, r, {})
  BY <1>13, <1>14, TameTame
<1>16. /\ \A m \in Ops : Is(repo, m, "overwrite") => r.report[m] = repo.report[m]
       /\ \A i \in DOMAIN r.posted : \A m \in r.posted[i].of : ~Is(r, m, "overwrite")
  BY <1>9, <1>15, TameHandled
<1>17. link \in LinkRecord
  BY DEF ClientInv, ClientOk
<1>18. Handled(r, link, {}, {})
  BY <1>5, <1>11, <1>16, <1>17 DEF Handled, Is
<1>19. /\ kept.seen = IF Watchers(repo) = {} THEN repo.seen ELSE v
       /\ kept.status = repo.status
  BY <1>3, <1>9 DEF RepoRecord
<1>20. Watchers(kept) = Watchers(repo)
  BY <1>12, <1>19 DEF Watchers, Is
<1>21. Steady(kept, r, {})
  BY <1>4, <1>9, <1>10, RerunSteady, SteadySame
<1> QED BY <1>2, <1>12, <1>18, <1>19, <1>20, <1>21 DEF Steady

\* The figure the database has told keeps the invariant.
LEMMA DataKeeps ==
  ASSUME ClientInv, ReceiveData
  PROVE  ClientInv'
<1>1. PICK r : Handled(r, link, {}, {})
  BY DataShape
<1>2. Arrives("data") /\ UNCHANGED <<server, landed>>
  BY DEF ReceiveData, historyVars
<1>3. PICK d : d = Tail(down)
  OBVIOUS
<1>4. /\ down' = d /\ d \in Seq(Message)
      /\ NetOk(repo, link, landed, up, d) /\ AuthOk(link, up, d)
  BY <1>2, <1>3, ArrivesOk
<1> QED BY <1>1, <1>2, <1>4, HandledOk DEF Handled

\* The data of another location keeps it.
LEMMA ElsewhereKeeps ==
  ASSUME ClientInv, ReceiveElsewhere
  PROVE  ClientInv'
<1>1. PICK d : d = Tail(down)
  OBVIOUS
<1>2. PICK l : l = Counting(link, link.unacked, FALSE)
  BY Zenon
<1>3. /\ link \in LinkRecord /\ server \in ServerRecord
      /\ up \in Seq(RequestMessage)
  BY DEF ClientInv, ClientOk
<1>4. /\ Arrives("elsewhere") /\ link' = l /\ up' = up
      /\ UNCHANGED <<repo, server, landed>>
  <2>1. link' = l
    BY <1>2, <1>3 DEF ReceiveElsewhere, LinkRecord, Counting
  <2> QED BY <2>1 DEF ReceiveElsewhere, historyVars
<1>5. /\ down' = d /\ d \in Seq(Message)
      /\ NetOk(repo, link, landed, up, d) /\ AuthOk(link, up, d)
  BY <1>1, <1>4, ArrivesOk
<1>6. Counts(link.unacked, FALSE)
  BY <1>3 DEF LinkRecord, Counts
<1>7. /\ l \in LinkRecord /\ Flying(l) = Flying(link) /\ LinkOk(repo, l, landed)
  BY <1>2, <1>6, CountOk
<1>8. l.conn = link.conn /\ l.puts = link.puts
  BY <1>2, <1>3 DEF LinkRecord, Counting
<1>9. NetOk(repo, l, landed, up, d) /\ AuthOk(l, up, d)
  <2>1. \A f : SentPut(link, f) => SentPut(l, f)
    BY <1>8 DEF SentPut
  <2>2. NetOk(repo, l, landed, up, d)
    BY <1>5, <1>8, <2>1, NetStays
  <2>3. AuthOk(l, up, d)
    BY <1>5, <1>8 DEF AuthOk
  <2> QED BY <2>2, <2>3
<1> QED BY <1>3, <1>4, <1>5, <1>7, <1>9, MoveOk

\* The answer to a listen, which may release what was held, keeps it.
LEMMA ListenedKeeps ==
  ASSUME ClientInv, ReceiveListened
  PROVE  ClientInv'
<1>1. PICK d : d = Tail(down)
  OBVIOUS
<1>2. PICK due : due = IF link.unacked = 1 THEN link.held ELSE link.due
  OBVIOUS
<1>3. PICK held : held = IF link.unacked = 1 THEN <<>> ELSE link.held
  OBVIOUS
<1>4. PICK l : l = [link EXCEPT !.unacked = @ - 1, !.due = due, !.held = held]
  OBVIOUS
<1>5. /\ link \in LinkRecord /\ server \in ServerRecord
      /\ up \in Seq(RequestMessage) /\ LinkOk(repo, link, landed)
  BY DEF ClientInv, ClientOk
<1>6. /\ Arrives("listened") /\ link' = l /\ up' = up
      /\ UNCHANGED <<repo, server, landed>>
  <2>1. link' = l
    BY <1>2, <1>3, <1>4 DEF ReceiveListened, Released
  <2> QED BY <2>1 DEF ReceiveListened, historyVars
<1>7. /\ down' = d /\ d \in Seq(Message) /\ link.due = <<>>
      /\ NetOk(repo, link, landed, up, d) /\ AuthOk(link, up, d)
  BY <1>1, <1>6, ArrivesOk
<1>8. /\ due \in Seq(AnswerRecord) /\ held \in Seq(AnswerRecord)
      /\ (due = link.held /\ held = <<>>) \/ (due = <<>> /\ held = link.held)
  BY <1>2, <1>3, <1>5, <1>7 DEF LinkRecord
<1>9. /\ l \in LinkRecord /\ l.puts = link.puts /\ l.conn = link.conn
      /\ l.due = due /\ l.held = held
  <2>1. /\ link.puts \in Seq(Put) /\ link.reading \in BOOLEAN
        /\ link.unacked - 1 \in Int
        /\ link.conn \in {"down", "authenticating", "up"}
    BY <1>5 DEF LinkRecord
  <2>2. l = [conn |-> link.conn, puts |-> link.puts, held |-> held, due |-> due,
             unacked |-> link.unacked - 1, reading |-> link.reading]
    BY <1>4, <1>5 DEF LinkRecord
  <2> QED BY <1>8, <2>1, <2>2 DEF LinkRecord
<1>10. Flying(l) = Flying(link)
  <2>1. Of(due) \cup Of(held) = Of(link.due) \cup Of(link.held)
    BY <1>7, <1>8 DEF Of
  <2> QED BY <1>9, <2>1 DEF Flying
<1>11. LinkOk(repo, l, landed)
  <2>1. \A j \in DOMAIN l.puts : PutTrue(repo, l, landed, l.puts[j])
    BY <1>5, <1>9 DEF LinkOk, PutTrue
  <2>2. Distinct(l.puts) /\ Distinct(held) /\ Distinct(due)
    BY <1>5, <1>8, <1>9 DEF LinkOk, Distinct
  <2>3. Apart(l.puts, held) /\ Apart(l.puts, due) /\ Apart(held, due)
    BY <1>5, <1>8, <1>9 DEF LinkOk, Apart
  <2>4. /\ \A j \in DOMAIN held : AnswerTrue(repo, landed, held[j])
        /\ \A j \in DOMAIN due : AnswerTrue(repo, landed, due[j])
    BY <1>5, <1>8 DEF LinkOk
  <2> QED BY <1>9, <2>1, <2>2, <2>3, <2>4 DEF LinkOk
<1>12. NetOk(repo, l, landed, up, d) /\ AuthOk(l, up, d)
  <2>1. \A f : SentPut(link, f) => SentPut(l, f)
    BY <1>9 DEF SentPut
  <2>2. NetOk(repo, l, landed, up, d)
    BY <1>7, <1>9, <2>1, NetStays
  <2>3. AuthOk(l, up, d)
    BY <1>7, <1>9 DEF AuthOk
  <2> QED BY <2>2, <2>3
<1> QED BY <1>5, <1>6, <1>7, <1>9, <1>10, <1>11, <1>12, MoveOk
\* The answer to an outstanding put takes its place.
LEMMA AnswerKeeps ==
  ASSUME ClientInv, ReceiveAnswer
  PROVE  ClientInv'
<1>1. PICK d : d = Tail(down)
  OBVIOUS
<1>2. PICK m : m = Head(down)
  OBVIOUS
<1>3. PICK answer : answer = [of |-> m.of, status |-> m.status]
  OBVIOUS
<1>4. PICK mine : mine = {j \in DOMAIN link.puts : link.puts[j].of = answer.of}
  OBVIOUS
<1>5. PICK l : l = link'
  OBVIOUS
<1>6. /\ link \in LinkRecord /\ server \in ServerRecord
      /\ up \in Seq(RequestMessage) /\ LinkOk(repo, link, landed)
      /\ FlyingOk(repo, Flying(link))
      /\ link.puts \in Seq(Put) /\ link.held \in Seq(AnswerRecord)
  BY DEF ClientInv, ClientOk, LinkRecord, RepoOk
<1>7. Arrives("answer") /\ up' = up /\ UNCHANGED <<repo, server, landed>>
  BY DEF ReceiveAnswer
<1>8. /\ down' = d /\ d \in Seq(Message) /\ link.due = <<>>
      /\ m \in Message /\ m.type = "answer"
      /\ NetOk(repo, link, landed, up, d) /\ AuthOk(link, up, d)
      /\ MessageOk(repo, link, landed, m)
      /\ \A n \in Ops : Is(repo, n, "transaction") /\ Bears(m, n) =>
            Free(d, n) /\ Free(up, n)
  BY <1>1, <1>2, <1>7, ArrivesOk
<1>9. /\ answer \in AnswerRecord /\ answer.of = m.of
      /\ AnswerTrue(repo, landed, answer)
  <2>1. m.of \in SUBSET Ops /\ m.status \in {"ok", "datastale", "denied"}
    BY <1>8 DEF Message
  <2>2. AnswerTrue(repo, landed, m)
    BY <1>8 DEF MessageOk
  <2> QED BY <1>3, <2>1, <2>2 DEF AnswerRecord, AnswerTrue
<1>10. CASE mine = {}
  <2>1. link' = link
    BY <1>2, <1>3, <1>4, <1>10 DEF ReceiveAnswer
  <2> QED BY <1>6, <1>7, <1>8, <2>1, MoveOk
<1>11. CASE mine # {}
  <2>1. PICK i \in DOMAIN link.puts : /\ i = CHOOSE j \in mine : TRUE
                                      /\ link.puts[i].of = answer.of
    <3>1. (CHOOSE j \in mine : TRUE) \in mine
      BY <1>11
    <3>2. PICK e : e = CHOOSE j \in mine : TRUE
      OBVIOUS
    <3>3. e \in mine
      BY <3>1, <3>2, Zenon
    <3>4. e \in DOMAIN link.puts /\ link.puts[e].of = answer.of
      BY <1>4, <3>3
    <3> QED BY <3>2, <3>4, Zenon
  <2>2. PICK puts : puts = Without(link.puts, i)
    OBVIOUS
  <2>3. PICK held : held = IF HoldsBack(link) THEN Append(link.held, answer)
                           ELSE link.held
    OBVIOUS
  <2>4. PICK due : due = IF HoldsBack(link) THEN <<>> ELSE <<answer>>
    OBVIOUS
  <2>5. link' = [link EXCEPT !.puts = puts, !.held = held, !.due = due]
    <3>1. PICK rest : rest = [link EXCEPT !.puts = Without(@, CHOOSE j \in mine : TRUE)]
      OBVIOUS
    <3>2. link' = IF HoldsBack(link) THEN [rest EXCEPT !.held = Append(@, answer)]
                  ELSE [rest EXCEPT !.due = <<answer>>]
      BY <1>2, <1>3, <1>4, <1>11, <3>1 DEF ReceiveAnswer
    <3>3. rest = [link EXCEPT !.puts = puts]
      BY <2>1, <2>2, <3>1
    <3> QED BY <1>6, <1>8, <2>3, <2>4, <3>2, <3>3 DEF LinkRecord
  <2>60. puts \in Seq(Put) /\ RestOf(puts, link.puts, i)
    BY <1>6, <2>1, <2>2, WithoutPicks
  <2>6. /\ puts \in Seq(Put)
        /\ \A j \in DOMAIN puts : \E k \in DOMAIN link.puts \ {i} : puts[j] = link.puts[k]
        /\ \A k \in DOMAIN link.puts \ {i} : \E j \in DOMAIN puts : puts[j] = link.puts[k]
        /\ Picks(puts, link.puts, DOMAIN link.puts \ {i})
    BY <2>60 DEF RestOf
  <2>7. /\ held \in Seq(AnswerRecord) /\ due \in Seq(AnswerRecord)
        /\ \A j \in DOMAIN held : \/ held[j] = answer
                                  \/ j \in DOMAIN link.held /\ held[j] = link.held[j]
        /\ \A j \in DOMAIN link.held : j \in DOMAIN held /\ held[j] = link.held[j]
        /\ \A j \in DOMAIN due : due[j] = answer
        /\ \/ due = <<>> /\ \E j \in DOMAIN held : held[j] = answer
           \/ held = link.held /\ due = <<answer>>
        /\ \A j, k \in DOMAIN held : j # k => j \in DOMAIN link.held \/ k \in DOMAIN link.held
    <3>1. CASE HoldsBack(link)
      <4>1. /\ held = Append(link.held, answer) /\ due = <<>>
            /\ Len(link.held) \in Nat /\ DOMAIN link.held = 1 .. Len(link.held)
        BY <1>6, <2>3, <2>4, <3>1
      <4>2. /\ held \in Seq(AnswerRecord) /\ DOMAIN held = 1 .. Len(link.held) + 1
            /\ held[Len(link.held) + 1] = answer
            /\ \A j \in 1 .. Len(link.held) : held[j] = link.held[j]
        BY <1>6, <1>9, <4>1
      <4>3. /\ \A j \in DOMAIN held : j = Len(link.held) + 1 \/ j \in DOMAIN link.held
            /\ Len(link.held) + 1 \in DOMAIN held
        BY <4>1, <4>2
      <4> QED BY <4>1, <4>2, <4>3
    <3>2. CASE ~HoldsBack(link)
      <4>1. held = link.held /\ due = <<answer>>
        BY <2>3, <2>4, <3>2
      <4> QED BY <1>6, <1>9, <4>1
    <3> QED BY <3>1, <3>2
  <2>8. /\ l \in LinkRecord /\ l.puts = puts /\ l.held = held /\ l.due = due
        /\ l.conn = link.conn
    BY <1>5, <1>6, <2>5, <2>6, <2>7 DEF LinkRecord
  <2>9. PutOk(repo, answer.of) /\ answer.of # {}
    BY <1>6, <2>1, FlyingCalled DEF PutOk
  <2>10. /\ \A j \in DOMAIN puts : puts[j].of \cap answer.of = {}
         /\ \A j \in DOMAIN link.held : link.held[j].of \cap answer.of = {}
    <3>1. Distinct(link.puts) /\ Apart(link.puts, link.held)
      BY <1>6 DEF LinkOk
    <3> QED BY <2>1, <2>6, <3>1 DEF Distinct, Apart
  <2>11. Flying(l) = Flying(link)
    <3>1. Of(link.puts) = Of(puts) \cup {answer.of}
      <4>1. \A f \in Of(link.puts) : f \in Of(puts) \cup {answer.of}
        <5> SUFFICES ASSUME NEW f \in Of(link.puts), f # answer.of
                     PROVE  f \in Of(puts)
          OBVIOUS
        <5>1. PICK k \in DOMAIN link.puts : link.puts[k].of = f
          BY DEF Of
        <5>2. k \in DOMAIN link.puts \ {i}
          BY <2>1, <5>1
        <5>3. PICK j \in DOMAIN puts : puts[j] = link.puts[k]
          BY <2>6, <5>2
        <5> QED BY <5>1, <5>3 DEF Of
      <4>2. \A f \in Of(puts) \cup {answer.of} : f \in Of(link.puts)
        BY <2>1, <2>6 DEF Of
      <4> QED BY <4>1, <4>2
    <3>2. Of(held) \cup Of(due) = Of(link.held) \cup {answer.of}
      <4>1. \A f \in Of(held) \cup Of(due) : f \in Of(link.held) \cup {answer.of}
        BY <2>7 DEF Of
      <4>2. \A f \in Of(link.held) : f \in Of(held)
        BY <2>7 DEF Of
      <4>3. answer.of \in Of(held) \cup Of(due)
        BY <2>7 DEF Of
      <4> QED BY <4>1, <4>2, <4>3
    <3>3. Of(link.due) = {}
      BY <1>8 DEF Of
    <3> QED BY <2>8, <3>1, <3>2, <3>3 DEF Flying
  <2>12. LinkOk(repo, l, landed)
    <3>1. \A j \in DOMAIN puts : PutTrue(repo, l, landed, puts[j])
      BY <1>6, <2>6, <2>8 DEF LinkOk, PutTrue
    <3>2. /\ \A j \in DOMAIN held : AnswerTrue(repo, landed, held[j])
          /\ \A j \in DOMAIN due : AnswerTrue(repo, landed, due[j])
      BY <1>6, <1>9, <2>7 DEF LinkOk
    <3>3. Distinct(puts)
      BY <1>6, <2>6 DEF LinkOk, Picks
    <3>4. Distinct(held)
      <4> SUFFICES ASSUME NEW j \in DOMAIN held, NEW k \in DOMAIN held, j # k
                   PROVE  held[j].of \cap held[k].of = {}
        BY DEF Distinct
      <4>1. CASE j \in DOMAIN link.held /\ k \in DOMAIN link.held
        BY <1>6, <2>7, <4>1 DEF LinkOk, Distinct
      <4>2. CASE j \notin DOMAIN link.held /\ k \in DOMAIN link.held
        BY <2>7, <2>10, <4>2
      <4>3. CASE j \in DOMAIN link.held /\ k \notin DOMAIN link.held
        BY <2>7, <2>10, <4>3
      <4>4. CASE j \notin DOMAIN link.held /\ k \notin DOMAIN link.held
        BY <2>7, <4>4
      <4> QED BY <4>1, <4>2, <4>3, <4>4
    <3>5. Distinct(due)
      BY <2>7 DEF Distinct
    <3>6. Apart(puts, held) /\ Apart(puts, due)
      <4>1. \A j \in DOMAIN puts, k \in DOMAIN link.held :
                puts[j].of \cap link.held[k].of = {}
        BY <1>6, <2>6 DEF LinkOk, Apart
      <4> QED BY <2>7, <2>10, <4>1 DEF Apart
    <3>7. Apart(held, due)
      BY <2>7, <2>10 DEF Apart
    <3> QED BY <2>8, <3>1, <3>2, <3>3, <3>4, <3>5, <3>6, <3>7 DEF LinkOk
  <2>13. NetOk(repo, l, landed, up, d) /\ AuthOk(l, up, d)
    <3>1. ASSUME NEW n \in Ops, Is(repo, n, "transaction")
          PROVE  \/ \A f : n \in f /\ SentPut(link, f) => SentPut(l, f)
                 \/ Free(up, n) /\ Free(d, n)
      <4>1. CASE n \in m.of
        BY <1>8, <3>1, <4>1 DEF Bears
      <4>2. CASE n \notin m.of
        <5>1. ASSUME NEW f, n \in f, SentPut(link, f) PROVE SentPut(l, f)
          <6>1. PICK k \in DOMAIN link.puts : link.puts[k].of = f /\ link.puts[k].sent
            BY <5>1 DEF SentPut
          <6>2. k # i
            BY <1>9, <2>1, <4>2, <5>1, <6>1
          <6> QED BY <2>6, <2>8, <6>1, <6>2 DEF SentPut
        <5> QED BY <5>1
      <4> QED BY <4>1, <4>2
    <3>2. NetOk(repo, l, landed, up, d)
      BY <1>8, <2>8, <3>1, NetStays
    <3>3. AuthOk(l, up, d)
      BY <1>8, <2>8 DEF AuthOk
    <3> QED BY <3>2, <3>3
  <2> QED BY <1>5, <1>6, <1>7, <1>8, <2>8, <2>11, <2>12, <2>13, MoveOk
<1> QED BY <1>10, <1>11
-----------------------------------------------------------------------------
(* What the database does.                                                 *)

\* The first request leaves; if it is of a transaction, nothing else of it travels.
LEMMA TakesOk ==
  ASSUME ClientInv, NEW type, Takes(type)
  PROVE  /\ up' = Tail(up) /\ Tail(up) \in Seq(RequestMessage)
         /\ Head(up) \in RequestMessage /\ Head(up).type = type
         /\ NetOk(repo, link, landed, Tail(up), down)
         /\ AuthOk(link, Tail(up), down)
         /\ IsAuth(Head(up)) =>
               /\ link.conn = "authenticating"
               /\ NoAuth(Tail(up)) /\ NoAuth(down)
         /\ MessageOk(repo, link, landed, Head(up))
         /\ \A n \in Ops : Is(repo, n, "transaction") /\ Bears(Head(up), n) =>
               Free(Tail(up), n) /\ Free(down, n)
<1>1. /\ up # <<>> /\ up \in Seq(RequestMessage)
      /\ NetOk(repo, link, landed, up, down) /\ AuthOk(link, up, down)
  BY DEF ClientInv, ClientOk, Takes
<1>2. /\ NetOk(repo, link, landed, Tail(up), down)
      /\ MessageOk(repo, link, landed, Head(up))
      /\ \A n \in Ops : Is(repo, n, "transaction") /\ Bears(Head(up), n) =>
            Free(Tail(up), n) /\ Free(down, n)
  BY <1>1, NetTail
<1>3. Tail(up) \in Seq(RequestMessage) /\ Head(up) \in RequestMessage
  BY <1>1
<1>4. /\ AuthOk(link, Tail(up), down)
      /\ IsAuth(Head(up)) => /\ link.conn = "authenticating"
                             /\ NoAuth(Tail(up)) /\ NoAuth(down)
  <2>1. /\ NoAuth(up) => NoAuth(Tail(up)) /\ ~IsAuth(Head(up))
        /\ OneAuth(up) => IF IsAuth(Head(up)) THEN NoAuth(Tail(up))
                          ELSE OneAuth(Tail(up))
    BY <1>1, AuthTail
  <2> QED BY <1>1, <2>1 DEF AuthOk
<1> QED BY <1>2, <1>3, <1>4 DEF Takes

\* Data and answers to listens follow what is on its way back.
LEMMA TellOk ==
  ASSUME NEW r, NEW l, NEW L, NEW u \in Seq(RequestMessage), NEW d \in Seq(Message),
         NetOk(r, l, L, u, d), AuthOk(l, u, d),
         NEW q \in Seq(Message),
         \A i \in DOMAIN q : q[i].type \notin {"put", "answer", "auth", "authed"},
         NEW e, e = d \o q
  PROVE  e \in Seq(Message) /\ NetOk(r, l, L, u, e) /\ AuthOk(l, u, e)
<1>1. NoAuth(q) /\ \A i \in DOMAIN q : q[i].type \notin {"put", "answer"}
  BY DEF NoAuth, IsAuth
<1>2. NetOk(r, l, L, d, u)
  BY NetSwap
<1>3. NetOk(r, l, L, d \o q, u)
  BY <1>1, <1>2, NetQuiet
<1>4. NetOk(r, l, L, u, e)
  BY <1>3, NetSwap
<1>5. /\ NoAuth(d) => NoAuth(e)
      /\ OneAuth(d) => OneAuth(e)
  BY <1>1, AuthJoin
<1> QED BY <1>4, <1>5 DEF AuthOk

\* The answer to a put that nothing else travels for.
LEMMA AnswerOk ==
  ASSUME NEW r, NEW l, NEW L, NEW u \in Seq(RequestMessage), NEW d \in Seq(Message),
         NetOk(r, l, L, u, d), AuthOk(l, u, d),
         NEW m \in Message, m.type = "answer", MessageOk(r, l, L, m),
         \A n \in Ops : Is(r, n, "transaction") /\ n \in m.of => Free(u, n) /\ Free(d, n),
         NEW e, e = Append(d, m)
  PROVE  e \in Seq(Message) /\ NetOk(r, l, L, u, e) /\ AuthOk(l, u, e)
<1>1. PICK q : q = <<m>>
  OBVIOUS
<1>2. q \in Seq(Message) /\ e = d \o q /\ DOMAIN q = {1} /\ q[1] = m
  BY <1>1
<1>3. NetOk(r, l, L, d, u)
  BY NetSwap
<1>4. \A i \in DOMAIN q : MessageOk(r, l, L, q[i])
  BY <1>2
<1>5. Once(r, q)
  BY <1>2 DEF Once
<1>6. \A n \in Ops : Is(r, n, "transaction") =>
         Free(q, n) \/ (Free(d, n) /\ Free(u, n))
  BY <1>2 DEF Free, Bears
<1>7. NetOk(r, l, L, d \o q, u)
  BY <1>2, <1>3, <1>4, <1>5, <1>6, NetJoin
<1>8. NetOk(r, l, L, u, e)
  BY <1>2, <1>7, NetSwap
<1>9. NoAuth(q)
  BY <1>2 DEF NoAuth, IsAuth
<1>10. /\ NoAuth(d) => NoAuth(e)
       /\ OneAuth(d) => OneAuth(e)
  BY <1>2, <1>9, AuthJoin
<1> QED BY <1>2, <1>8, <1>10 DEF AuthOk

\* The database's handling of tokens and listens keeps the invariant.
LEMMA TakeOtherKeeps ==
  ASSUME ClientInv, TakeAuth \/ TakeWatch \/ TakeUnwatch \/ TakeRead
  PROVE  ClientInv'
<1>1. PICK u : u = Tail(up)
  OBVIOUS
<1>2. /\ link \in LinkRecord /\ server \in ServerRecord
      /\ down \in Seq(Message) /\ LinkOk(repo, link, landed)
  BY DEF ClientInv, ClientOk
<1>3. /\ Takes("auth") \/ Takes("watch") \/ Takes("unwatch") \/ Takes("read")
      /\ UNCHANGED <<repo, link, landed>> /\ server' \in ServerRecord
  BY <1>2 DEF TakeAuth, TakeWatch, TakeUnwatch, TakeRead, historyVars, ServerRecord
<1>4. /\ up' = u /\ u \in Seq(RequestMessage)
      /\ NetOk(repo, link, landed, u, down) /\ AuthOk(link, u, down)
      /\ IsAuth(Head(up)) => link.conn = "authenticating" /\ NoAuth(u) /\ NoAuth(down)
  BY <1>1, <1>3, TakesOk
<1>5. CASE TakeAuth
  <2>1. PICK m : m = [type |-> "authed"]
    OBVIOUS
  <2>2. PICK q : q = <<m>>
    OBVIOUS
  <2>3. PICK d : d = down \o q
    OBVIOUS
  <2>4. m \in Message /\ m.type = "authed"
    BY <2>1 DEF Message
  <2>5. q \in Seq(Message) /\ DOMAIN q = {1} /\ q[1] = m
    BY <2>2, <2>4
  <2>6. down' = d /\ d \in Seq(Message)
    BY <1>2, <1>5, <2>1, <2>2, <2>3, <2>5 DEF TakeAuth
  <2>7. NetOk(repo, link, landed, u, d)
    <3>1. NetOk(repo, link, landed, down, u)
      BY <1>4, NetSwap
    <3>2. \A i \in DOMAIN q : q[i].type \notin {"put", "answer"}
      BY <2>4, <2>5
    <3>3. NetOk(repo, link, landed, down \o q, u)
      BY <1>2, <2>5, <3>1, <3>2, NetQuiet
    <3> QED BY <2>3, <3>3, NetSwap
  <2>8. AuthOk(link, u, d)
    <3>1. link.conn = "authenticating" /\ NoAuth(u) /\ NoAuth(down)
      <4>1. Takes("auth")
        BY <1>5 DEF TakeAuth
      <4>2. IsAuth(Head(up))
        BY <4>1, TakesOk DEF IsAuth
      <4> QED BY <1>4, <4>2
    <3>2. OneAuth(d)
      <4>1. /\ Len(down) \in Nat /\ DOMAIN down = 1 .. Len(down)
            /\ DOMAIN d = 1 .. Len(down) + 1
            /\ \A i \in 1 .. Len(down) : d[i] = down[i]
            /\ d[Len(down) + 1] = m
        <5>1. Len(down) \in Nat /\ DOMAIN down = 1 .. Len(down) /\ m \in Message
          BY <1>2, <2>4
        <5>2. d = Append(down, m)
          BY <1>5, <2>1, <2>6 DEF TakeAuth
        <5> QED BY <1>2, <5>1, <5>2
      <4>2. Len(down) + 1 \in DOMAIN d /\ IsAuth(d[Len(down) + 1])
        BY <2>4, <4>1 DEF IsAuth
      <4>3. \A i \in DOMAIN d : IsAuth(d[i]) => i = Len(down) + 1
        BY <3>1, <4>1 DEF NoAuth
      <4> QED BY <4>2, <4>3 DEF OneAuth
    <3> QED BY <3>1, <3>2 DEF AuthOk
  <2> QED BY <1>2, <1>3, <1>4, <2>6, <2>7, <2>8, MoveOk
<1>6. CASE TakeUnwatch
  <2>1. down' = down
    BY <1>6 DEF TakeUnwatch
  <2> QED BY <1>2, <1>3, <1>4, <2>1, MoveOk
<1>7. CASE TakeWatch
  <2>1. PICK q : q = <<Data(server.value, server.version), Listened>>
    OBVIOUS
  <2>2. /\ q \in Seq(Message)
        /\ \A i \in DOMAIN q : q[i].type \notin {"put", "answer", "auth", "authed"}
    <3>1. server.value \in Nat /\ server.version \in Nat
      BY <1>2 DEF ServerRecord
    <3>2. /\ Data(server.value, server.version) \in Message
          /\ Data(server.value, server.version).type = "data"
      BY <3>1 DEF Data, Message
    <3>3. Listened \in Message /\ Listened.type = "listened"
      BY DEF Listened, Message
    <3>4. \A i \in DOMAIN q : q[i] \in {Data(server.value, server.version), Listened}
      BY <2>1
    <3> QED BY <2>1, <3>2, <3>3, <3>4
  <2>3. PICK d : d = down \o q
    OBVIOUS
  <2>4. d \in Seq(Message) /\ NetOk(repo, link, landed, u, d) /\ AuthOk(link, u, d)
    BY <1>2, <1>4, <2>2, <2>3, TellOk
  <2>5. down' = d
    BY <1>7, <2>1, <2>3 DEF TakeWatch
  <2> QED BY <1>2, <1>3, <1>4, <2>4, <2>5, MoveOk
<1>8. CASE TakeRead
  <2>1. PICK q : q = <<[type |-> "elsewhere"], Listened>>
    OBVIOUS
  <2>2. /\ q \in Seq(Message)
        /\ \A i \in DOMAIN q : q[i].type \notin {"put", "answer", "auth", "authed"}
    <3>1. [type |-> "elsewhere"] \in Message
      BY DEF Message
    <3>2. Listened \in Message /\ Listened.type = "listened"
      BY DEF Listened, Message
    <3>3. \A i \in DOMAIN q : q[i] \in {[type |-> "elsewhere"], Listened}
      BY <2>1
    <3> QED BY <2>1, <3>1, <3>2, <3>3
  <2>3. PICK d : d = down \o q
    OBVIOUS
  <2>4. d \in Seq(Message) /\ NetOk(repo, link, landed, u, d) /\ AuthOk(link, u, d)
    BY <1>2, <1>4, <2>2, <2>3, TellOk
  <2>5. down' = d
    BY <1>8, <2>1, <2>3 DEF TakeRead
  <2> QED BY <1>2, <1>3, <1>4, <2>4, <2>5, MoveOk
<1> QED BY <1>5, <1>6, <1>7, <1>8

\* A credit by another client keeps it.
LEMMA CreditKeeps ==
  ASSUME ClientInv, CreditByOther
  PROVE  ClientInv'
<1>1. /\ link \in LinkRecord /\ server \in ServerRecord
      /\ up \in Seq(RequestMessage) /\ down \in Seq(Message)
      /\ LinkOk(repo, link, landed)
      /\ NetOk(repo, link, landed, up, down) /\ AuthOk(link, up, down)
  BY DEF ClientInv, ClientOk
<1>2. PICK q : q = IF server.subscribed
                   THEN <<Data(server.value + 1, server.version + 1)>> ELSE <<>>
  OBVIOUS
<1>3. /\ q \in Seq(Message)
      /\ \A i \in DOMAIN q : q[i].type \notin {"put", "answer", "auth", "authed"}
  <2>1. server.value + 1 \in Nat /\ server.version + 1 \in Nat
    BY <1>1 DEF ServerRecord
  <2>2. PICK m : m = Data(server.value + 1, server.version + 1)
    OBVIOUS
  <2>3. m \in Message /\ m.type = "data"
    BY <2>1, <2>2 DEF Data, Message
  <2>4. q = <<>> \/ q = <<m>>
    BY <1>2, <2>2
  <2>5. q \in Seq(Message) /\ \A i \in DOMAIN q : q[i] = m
    BY <2>3, <2>4, OneOrNone
  <2> QED BY <2>3, <2>5
<1>4. PICK d : d = down \o q
  OBVIOUS
<1>5. d \in Seq(Message) /\ NetOk(repo, link, landed, up, d) /\ AuthOk(link, up, d)
  BY <1>1, <1>3, <1>4, TellOk
<1>6. down' = d
  <2>1. CASE server.subscribed
    BY <1>1, <1>2, <1>4, <2>1 DEF CreditByOther
  <2>2. CASE ~server.subscribed
    BY <1>1, <1>2, <1>4, <2>2 DEF CreditByOther
  <2> QED BY <2>1, <2>2
<1>7. /\ up' = up /\ link' = link /\ UNCHANGED <<repo, landed>>
      /\ server' \in ServerRecord
  <2>1. /\ up' = up /\ link' = link /\ UNCHANGED <<repo, landed>>
        /\ server' = [server EXCEPT !.value = @ + 1, !.version = @ + 1]
    BY DEF CreditByOther, historyVars
  <2>2. /\ server.value + 1 \in Nat /\ server.version + 1 \in Nat
        /\ server.subscribed \in BOOLEAN
    BY <1>1 DEF ServerRecord
  <2>3. server' = [value |-> server.value + 1, version |-> server.version + 1,
                   subscribed |-> server.subscribed]
    BY <1>1, <2>1 DEF ServerRecord
  <2>4. server' \in ServerRecord
    BY <2>2, <2>3 DEF ServerRecord
  <2> QED BY <2>1, <2>4
<1> QED BY <1>1, <1>5, <1>6, <1>7, MoveOk
\* A write the rules refuse keeps it.
LEMMA RefuseKeeps ==
  ASSUME ClientInv, RefusePut
  PROVE  ClientInv'
<1>1. PICK put : put = Head(up)
  OBVIOUS
<1>2. PICK m : m = Answer(put.of, "denied")
  OBVIOUS
<1>3. PICK u : u = Tail(up)
  OBVIOUS
<1>4. PICK d : d = Append(down, m)
  OBVIOUS
<1>5. /\ link \in LinkRecord /\ server \in ServerRecord
      /\ down \in Seq(Message) /\ LinkOk(repo, link, landed)
  BY DEF ClientInv, ClientOk
<1>6. Takes("put") /\ down' = d /\ UNCHANGED <<repo, link, server, landed>>
  BY <1>1, <1>2, <1>4 DEF RefusePut, historyVars
<1>7. /\ up' = u /\ u \in Seq(RequestMessage)
      /\ put \in RequestMessage /\ put.type = "put"
      /\ NetOk(repo, link, landed, u, down) /\ AuthOk(link, u, down)
      /\ MessageOk(repo, link, landed, put)
      /\ \A n \in Ops : Is(repo, n, "transaction") /\ Bears(put, n) =>
            Free(u, n) /\ Free(down, n)
  BY <1>1, <1>3, <1>6, TakesOk
<1>8. m \in Message /\ m.type = "answer" /\ m.of = put.of /\ m.status = "denied"
  <2>1. put.of \in SUBSET Ops
    BY <1>7 DEF RequestMessage
  <2> QED BY <1>2, <2>1 DEF Answer, Message
<1>9. MessageOk(repo, link, landed, m)
  BY <1>7, <1>8 DEF MessageOk, AnswerTrue
<1>10. \A n \in Ops : Is(repo, n, "transaction") /\ n \in m.of =>
          Free(u, n) /\ Free(down, n)
  BY <1>7, <1>8 DEF Bears
<1>11. d \in Seq(Message) /\ NetOk(repo, link, landed, u, d) /\ AuthOk(link, u, d)
  BY <1>4, <1>5, <1>7, <1>8, <1>9, <1>10, AnswerOk
<1> QED BY <1>5, <1>6, <1>7, <1>11, MoveOk

\* How often each operation was applied, once a put is.
Landed(L, ops) == [n \in Ops |-> L[n] + IF n \in ops THEN 1 ELSE 0]
NoOther(r, put, u, d) ==
    \A n \in Ops : Is(r, n, "transaction") /\ Bears(put, n) => Free(u, n) /\ Free(d, n)

\* A put that is applied: its transactions were not, and are on their way.
LEMMA LandOk ==
  ASSUME NEW r, NEW l, NEW L, L \in [Ops -> Nat], NEW u, NEW d,
         RepoOk(r, Flying(l), L), r.posted = <<>>, LinkOk(r, l, L),
         NetOk(r, l, L, u, d),
         NEW put, put.type = "put", MessageOk(r, l, L, put),
         NoOther(r, put, u, d), NEW M, M = Landed(L, put.of)
  PROVE  /\ M \in [Ops -> Nat]
         /\ RepoOk(r, Flying(l), M)
         /\ LinkOk(r, l, M)
         /\ NetOk(r, l, M, u, d)
<1>1. /\ M \in [Ops -> Nat]
      /\ \A n \in Ops : M[n] = IF n \in put.of THEN L[n] + 1 ELSE L[n]
  BY DEF Landed
<1>2. \A n \in put.of : /\ n \in Ops /\ ~Is(r, n, "none")
                        /\ Is(r, n, "transaction") => L[n] = 0 /\ SentPut(l, put.of)
  BY DEF MessageOk
<1>3. FlyingOk(r, Flying(l)) /\ \A n \in Ops : FateOk(r, L, n)
  BY DEF RepoOk
<1>4. ASSUME NEW n \in Ops PROVE FateOk(r, M, n)
  <2>1. FateOk(r, L, n)
    BY <1>3
  <2>2. CASE n \in put.of /\ Is(r, n, "transaction")
    <3>1. put.of \in Flying(l)
      BY <1>2, <2>2 DEF SentPut, Flying, Of
    <3>2. PutOk(r, put.of)
      BY <1>3, <3>1 DEF FlyingOk
    <3>3. r.status[n] \in {"sent", "sentNeedsAbort"}
      BY <2>2, <3>2 DEF PutOk, Is, Flight
    <3>4. M[n] = 1
      BY <1>1, <1>2, <2>2
    <3> QED BY <2>1, <2>2, <3>3, <3>4 DEF FateOk, Is
  <2>3. CASE n \in put.of /\ ~Is(r, n, "transaction")
    BY <1>2, <2>3 DEF FateOk
  <2>4. CASE n \notin put.of
    <3>1. M[n] = L[n]
      BY <1>1, <2>4
    <3> QED BY <2>1, <3>1 DEF FateOk
  <2> QED BY <2>2, <2>3, <2>4
<1>5. PostedOk(r, Flying(l), M)
  BY DEF PostedOk, Distinct
<1>6. RepoOk(r, Flying(l), M)
  BY <1>4, <1>5 DEF RepoOk
\* What else is outstanding is of other transactions.
<1>7. ASSUME NEW n \in put.of, Is(r, n, "transaction")
      PROVE  /\ \A i \in DOMAIN l.puts : n \in l.puts[i].of => l.puts[i].sent
             /\ \A i \in DOMAIN l.held : n \notin l.held[i].of
             /\ \A i \in DOMAIN l.due : n \notin l.due[i].of
  <2>1. PICK k \in DOMAIN l.puts : l.puts[k].of = put.of /\ l.puts[k].sent
    BY <1>2, <1>7 DEF SentPut
  <2> QED BY <1>7, <2>1 DEF LinkOk, Distinct, Apart
<1>8. ASSUME NEW i \in DOMAIN l.puts PROVE PutTrue(r, l, M, l.puts[i])
  <2>1. PutTrue(r, l, L, l.puts[i]) /\ PutOk(r, l.puts[i].of)
    BY <1>3, FlyingCalled DEF LinkOk
  <2>2. \A n \in l.puts[i].of : Is(r, n, "overwrite") \/ l.puts[i].sent \/ M[n] = L[n]
    BY <1>1, <1>7, <2>1 DEF PutOk
  <2> QED BY <2>1, <2>2 DEF PutTrue
<1>9. ASSUME NEW a, AnswerTrue(r, L, a), PutOk(r, a.of),
             \A n \in put.of : Is(r, n, "transaction") => n \notin a.of
      PROVE  AnswerTrue(r, M, a)
  <2>1. \A n \in a.of : Is(r, n, "transaction") => M[n] = L[n]
    BY <1>1, <1>9 DEF PutOk
  <2> QED BY <1>9, <2>1 DEF AnswerTrue
<1>10. /\ \A i \in DOMAIN l.held : AnswerTrue(r, M, l.held[i])
       /\ \A i \in DOMAIN l.due : AnswerTrue(r, M, l.due[i])
  <2>1. /\ \A i \in DOMAIN l.held : PutOk(r, l.held[i].of)
        /\ \A i \in DOMAIN l.due : PutOk(r, l.due[i].of)
    BY <1>3, FlyingCalled
  <2> QED BY <1>7, <1>9, <2>1 DEF LinkOk
<1>11. LinkOk(r, l, M)
  BY <1>8, <1>10 DEF LinkOk
<1>12. NetOk(r, l, M, u, d)
  <2>1. \A n \in Ops : Is(r, n, "transaction") =>
            M[n] = L[n] \/ (Free(u, n) /\ Free(d, n))
    BY <1>1 DEF Bears, NoOther
  <2> QED BY <2>1, NetStays
<1> QED BY <1>1, <1>6, <1>11, <1>12

\* A put that is compared and applied, or found stale, keeps it.
LEMMA TakePutKeeps ==
  ASSUME ClientInv, TakePut
  PROVE  ClientInv'
<1>1. PICK put : put = Head(up)
  OBVIOUS
<1>2. PICK u : u = Tail(up)
  OBVIOUS
<1>3. /\ link \in LinkRecord /\ server \in ServerRecord /\ landed \in [Ops -> Nat]
      /\ down \in Seq(Message) /\ LinkOk(repo, link, landed)
      /\ RepoOk(repo, Flying(link), landed) /\ NoneAborting(repo)
      /\ repo.posted = <<>>
  BY DEF ClientInv, ClientOk
<1>4. Takes("put") /\ UNCHANGED <<repo, link>>
  BY DEF TakePut
<1>5. /\ up' = u /\ u \in Seq(RequestMessage)
      /\ put \in RequestMessage /\ put.type = "put"
      /\ NetOk(repo, link, landed, u, down) /\ AuthOk(link, u, down)
      /\ MessageOk(repo, link, landed, put)
      /\ \A n \in Ops : Is(repo, n, "transaction") /\ Bears(put, n) =>
            Free(u, n) /\ Free(down, n)
  BY <1>1, <1>2, <1>4, TakesOk
<1>6. put.of \in SUBSET Ops /\ put.value \in Nat
  BY <1>5 DEF RequestMessage
<1>7. CASE put.hash \in {None, server.value}
  <2>1. PICK q : q = IF server.subscribed
                     THEN <<Data(put.value, server.version + 1)>> ELSE <<>>
    OBVIOUS
  <2>2. PICK m : m = Answer(put.of, "ok")
    OBVIOUS
  <2>3. PICK M : M = Landed(landed, put.of)
    OBVIOUS
  <2>4. PICK e : e = down \o q
    OBVIOUS
  <2>5. PICK d : d = Append(e, m)
    OBVIOUS
  <2>6. /\ q \in Seq(Message)
        /\ \A i \in DOMAIN q : q[i].type \notin {"put", "answer", "auth", "authed"}
    <3>1. server.version + 1 \in Nat
      BY <1>3 DEF ServerRecord
    <3>2. PICK x : x = Data(put.value, server.version + 1)
      OBVIOUS
    <3>3. x \in Message /\ x.type = "data"
      BY <1>6, <3>1, <3>2 DEF Data, Message
    <3>4. q = <<>> \/ q = <<x>>
      BY <2>1, <3>2
    <3>5. q \in Seq(Message) /\ \A i \in DOMAIN q : q[i] = x
      BY <3>3, <3>4, OneOrNone
    <3> QED BY <3>3, <3>5
  <2>7. m \in Message /\ m.type = "answer" /\ m.of = put.of /\ m.status = "ok"
    BY <1>6, <2>2 DEF Answer, Message
  <2>8. landed' = M /\ server' \in ServerRecord /\ down' = d
    <3>1. landed' = M
      BY <1>1, <1>7, <2>3 DEF TakePut, Landed
    <3>2. server' \in ServerRecord
      <4>1. server' = [server EXCEPT !.value = put.value, !.version = @ + 1]
        BY <1>1, <1>7 DEF TakePut
      <4>2. server.version + 1 \in Nat /\ server.subscribed \in BOOLEAN
        BY <1>3 DEF ServerRecord
      <4>3. server' = [value |-> put.value, version |-> server.version + 1,
                       subscribed |-> server.subscribed]
        BY <1>3, <4>1 DEF ServerRecord
      <4> QED BY <1>6, <4>2, <4>3 DEF ServerRecord
    <3>3. down' = down \o q \o <<m>>
      BY <1>1, <1>7, <2>1, <2>2 DEF TakePut
    <3>4. e \in Seq(Message)
      BY <1>3, <2>4, <2>6
    <3>5. d = e \o <<m>>
      BY <2>5, <2>7, <3>4
    <3> QED BY <2>4, <3>1, <3>2, <3>3, <3>5
  <2>9. /\ M \in [Ops -> Nat]
        /\ RepoOk(repo, Flying(link), M)
        /\ LinkOk(repo, link, M)
        /\ NetOk(repo, link, M, u, down)
    <3>1. NoOther(repo, put, u, down)
      BY <1>5 DEF NoOther
    <3>2. /\ RepoOk(repo, Flying(link), landed) /\ repo.posted = <<>>
          /\ LinkOk(repo, link, landed) /\ landed \in [Ops -> Nat]
          /\ NetOk(repo, link, landed, u, down)
          /\ put.type = "put" /\ MessageOk(repo, link, landed, put)
      BY <1>3, <1>5
    <3> QED BY <2>3, <3>1, <3>2, LandOk
  <2>10. e \in Seq(Message) /\ NetOk(repo, link, M, u, e) /\ AuthOk(link, u, e)
    BY <1>3, <1>5, <2>4, <2>6, <2>9, TellOk
  <2>11. MessageOk(repo, link, M, m)
    <3>1. \A n \in put.of : Is(repo, n, "transaction") => landed[n] = 0
      BY <1>5 DEF MessageOk
    <3>2. \A n \in put.of : Is(repo, n, "transaction") => M[n] = 1
      BY <1>3, <1>6, <2>3, <3>1 DEF Landed
    <3>3. AnswerTrue(repo, M, m)
      BY <2>7, <3>2 DEF AnswerTrue
    <3> QED BY <1>5, <2>7, <3>3 DEF MessageOk
  <2>12. \A n \in Ops : Is(repo, n, "transaction") /\ n \in m.of =>
            Free(u, n) /\ Free(e, n)
    <3>1. \A i \in DOMAIN q : q[i].type \notin {"put", "answer"}
      BY <2>6
    <3>2. \A n : Free(down, n) => Free(e, n)
      BY <1>3, <2>4, <2>6, <3>1, FreeJoin
    <3> QED BY <1>5, <2>7, <3>2 DEF Bears
  <2>13. d \in Seq(Message) /\ NetOk(repo, link, M, u, d) /\ AuthOk(link, u, d)
    BY <1>5, <2>5, <2>7, <2>10, <2>11, <2>12, AnswerOk
  <2>14. ClientOk(repo, link, M, u, d)
    BY <1>3, <1>5, <2>9, <2>13 DEF ClientOk
  <2>15. ClientOk(repo', link', landed', up', down')
    BY <1>4, <1>5, <2>8, <2>14
  <2> QED BY <1>3, <1>4, <2>8, <2>9, <2>15 DEF ClientInv
<1>8. CASE put.hash \notin {None, server.value}
  <2>1. PICK m : m = Answer(put.of, "datastale")
    OBVIOUS
  <2>2. PICK d : d = Append(down, m)
    OBVIOUS
  <2>3. down' = d /\ UNCHANGED <<server, landed>>
    BY <1>1, <1>8, <2>1, <2>2 DEF TakePut
  <2>4. m \in Message /\ m.type = "answer" /\ m.of = put.of /\ m.status = "datastale"
    BY <1>6, <2>1 DEF Answer, Message
  <2>5. \A n \in put.of : ~Is(repo, n, "overwrite")
    BY <1>5, <1>8 DEF MessageOk
  <2>6. MessageOk(repo, link, landed, m)
    BY <1>5, <2>4, <2>5 DEF MessageOk, AnswerTrue
  <2>7. \A n \in Ops : Is(repo, n, "transaction") /\ n \in m.of =>
            Free(u, n) /\ Free(down, n)
    BY <1>5, <2>4 DEF Bears
  <2>8. d \in Seq(Message) /\ NetOk(repo, link, landed, u, d) /\ AuthOk(link, u, d)
    BY <1>3, <1>5, <2>2, <2>4, <2>6, <2>7, AnswerOk
  <2> QED BY <1>3, <1>4, <1>5, <2>3, <2>8, MoveOk
<1> QED BY <1>7, <1>8
-----------------------------------------------------------------------------
(* The invariant.                                                          *)

\* It holds at first: nothing is called, held or on its way.
LEMMA InitInv == Init => ClientInv
<1> SUFFICES ASSUME Init PROVE ClientInv
  OBVIOUS
<1> DEFINE none == [n \in Ops |-> "none"]
           zero == [n \in Ops |-> 0]
<1>1. /\ none \in [Ops -> Kinds] /\ none \in [Ops -> Statuses]
      /\ none \in [Ops -> Outcomes] /\ zero \in [Ops -> Nat]
      /\ \A n \in Ops : none[n] = "none" /\ zero[n] = 0
  BY DEF Kinds, Statuses, Outcomes
<1>2. /\ repo = [kind |-> none, status |-> none, output |-> zero, stamp |-> zero,
                 retries |-> zero, reason |-> none, report |-> none, queue |-> {},
                 cache |-> None, seen |-> 0, posted |-> <<>>]
      /\ landed = zero
  BY DEF Init
<1> HIDE DEF none, zero
<1>3. /\ repo \in RepoRecord /\ repo.kind = none /\ repo.status = none
      /\ repo.report = none /\ repo.queue = {} /\ repo.posted = <<>>
  <2>1. <<>> \in Seq(Put) /\ {} \in SUBSET Ops /\ None \in Nat \cup {None} /\ 0 \in Nat
    OBVIOUS
  <2> QED BY <1>1, <1>2, <2>1 DEF RepoRecord
<1>4. /\ link = [conn |-> "down", puts |-> <<>>, held |-> <<>>, due |-> <<>>,
                 unacked |-> 0, reading |-> FALSE]
      /\ up = <<>> /\ down = <<>>
      /\ server \in ServerRecord
  BY DEF Init, ServerRecord
<1>5. /\ link \in LinkRecord /\ link.puts = <<>> /\ link.held = <<>>
      /\ link.due = <<>>
  BY <1>4 DEF LinkRecord
<1>6. Flying(link) = {}
  BY <1>5 DEF Flying, Of
<1>7. QueueOk(repo) /\ CalledInOrder(repo) /\ NoneAborting(repo)
  BY <1>1, <1>3 DEF QueueOk, CalledInOrder, NoneAborting, Is
<1>8. \A n \in Ops : FateOk(repo, landed, n)
  BY <1>1, <1>2, <1>3 DEF FateOk, Is
<1>9. FlyingOk(repo, Flying(link)) /\ PostedOk(repo, Flying(link), landed)
  BY <1>3, <1>6 DEF FlyingOk, PostedOk, Distinct
<1>10. LinkOk(repo, link, landed)
  BY <1>5 DEF LinkOk, Distinct, Apart
<1>11. NetOk(repo, link, landed, up, down) /\ AuthOk(link, up, down)
  BY <1>4 DEF NetOk, Once, Either, Free, AuthOk, NoAuth
<1>12. up \in Seq(RequestMessage) /\ down \in Seq(Message)
  BY <1>4
<1>13. RepoOk(repo, Flying(link), landed)
  BY <1>3, <1>7, <1>8, <1>9 DEF RepoOk
<1> QED BY <1>1, <1>2, <1>3, <1>4, <1>5, <1>7, <1>10, <1>11, <1>12, <1>13
       DEF ClientInv, ClientOk

\* Every step keeps it.
LEMMA StepInv == ClientInv /\ [Next]_vars => ClientInv'
<1> SUFFICES ASSUME ClientInv, [Next]_vars PROVE ClientInv'
  OBVIOUS
<1>1. CASE UNCHANGED vars
  <2>1. UNCHANGED <<repo, link, up, down, server, landed>>
    BY <1>1 DEF vars, networkVars, historyVars
  <2> QED BY <2>1 DEF ClientInv
<1>2. CASE \E n \in Ops : Transact(n)
  BY <1>2, TransactKeeps
<1>3. CASE \E n \in Ops, v \in Values : Overwrite(n, v)
  BY <1>3, OverwriteKeeps
<1>4. CASE Read
  BY <1>4, ReadKeeps
<1>5. CASE ConnectWithToken \/ ConnectWithoutToken
  BY <1>5, ConnectKeeps
<1>6. CASE \E i \in DOMAIN link.due : Callback(i)
  BY <1>6, CallbackKeeps
<1>7. CASE Receive
  BY <1>7, AuthedKeeps, DataKeeps, ElsewhereKeeps, ListenedKeeps, AnswerKeeps
     DEF Receive
<1>8. CASE Take
  BY <1>8, TakeOtherKeeps, TakePutKeeps DEF Take
<1>9. CASE Failure
  BY <1>9, DropKeeps, RefuseKeeps DEF Failure
<1>10. CASE CreditByOther
  BY <1>10, CreditKeeps
<1> QED BY <1>1, <1>2, <1>3, <1>4, <1>5, <1>6, <1>7, <1>8, <1>9, <1>10
       DEF Next, User, Network

\* In every reachable state each transaction is in one place: on its way with its
\* put or an answer, queued, or completed, and what is known of it is so (FRepo's
\* transaction queue, FPersistentConnection's outstanding puts).
THEOREM ClientInvariant == Spec => []ClientInv
BY InitInv, StepInv, PTL DEF Spec

-----------------------------------------------------------------------------
(* Listens and their answers.  The count of unanswered listens is that of   *)
(* the listens and answers to listens that travel.                         *)

Listens(m) == m.type \in {"watch", "read", "listened"}
ListensOf(q) == {i \in DOMAIN q : Listens(q[i])}
Count(q) == Cardinality(ListensOf(q))

\* A count of messages is a number, zero when none listens.
LEMMA CountType ==
  ASSUME NEW T, NEW q \in Seq(T)
  PROVE  /\ IsFiniteSet(ListensOf(q)) /\ Count(q) \in Nat
         /\ (\A i \in DOMAIN q : ~Listens(q[i])) => Count(q) = 0
<1>1. DOMAIN q = 1 .. Len(q) /\ Len(q) \in Nat
  OBVIOUS
<1>2. ListensOf(q) \in SUBSET (1 .. Len(q))
  BY <1>1 DEF ListensOf
<1>3. IsFiniteSet(ListensOf(q)) /\ Count(q) \in Nat
  BY <1>1, <1>2, PartFinite DEF Count
<1>4. ASSUME \A i \in DOMAIN q : ~Listens(q[i]) PROVE Count(q) = 0
  <2>1. ListensOf(q) = {}
    BY <1>4 DEF ListensOf
  <2> QED BY <2>1, FS_EmptySet DEF Count
<1> QED BY <1>3, <1>4

\* The messages of two sequences are counted one after the other.
LEMMA CountJoin ==
  ASSUME NEW T, NEW p \in Seq(T), NEW q \in Seq(T), NEW s, s = p \o q
  PROVE  Count(s) = Count(p) + Count(q)
<1>1. /\ Len(p) \in Nat /\ Len(q) \in Nat /\ s \in Seq(T)
      /\ DOMAIN p = 1 .. Len(p) /\ DOMAIN q = 1 .. Len(q)
      /\ DOMAIN s = 1 .. Len(p) + Len(q)
      /\ \A j \in 1 .. Len(p) : s[j] = p[j]
      /\ \A j \in 1 .. Len(q) : s[Len(p) + j] = q[j]
  OBVIOUS
<1> DEFINE later == {i \in ListensOf(s) : i > Len(p)}
           move == [i \in ListensOf(q) |-> Len(p) + i]
<1>2. ListensOf(s) = ListensOf(p) \cup later /\ ListensOf(p) \cap later = {}
  <2>1. ListensOf(p) \subseteq ListensOf(s)
    BY <1>1 DEF ListensOf
  <2>2. \A i \in ListensOf(s) : i \in ListensOf(p) \/ i \in later
    BY <1>1 DEF ListensOf
  <2>3. \A i \in ListensOf(p) : ~(i > Len(p))
    BY <1>1 DEF ListensOf
  <2> QED BY <2>1, <2>2, <2>3
<1>3. move \in Bijection(ListensOf(q), later)
  <2>1. \A i \in ListensOf(q) : move[i] \in later
    BY <1>1 DEF ListensOf
  <2>2. move \in [ListensOf(q) -> later]
    BY <2>1
  <2>3. \A i, j \in ListensOf(q) : i # j => move[i] # move[j]
    BY <1>1 DEF ListensOf
  <2>4. ASSUME NEW k \in later PROVE \E i \in ListensOf(q) : move[i] = k
    <3>1. /\ k - Len(p) \in 1 .. Len(q) /\ Len(p) + (k - Len(p)) = k
          /\ Listens(s[k])
      BY <1>1 DEF ListensOf
    <3>2. k - Len(p) \in ListensOf(q)
      BY <1>1, <3>1 DEF ListensOf
    <3> QED BY <3>1, <3>2
  <2> HIDE DEF move
  <2>5. move \in Injection(ListensOf(q), later)
    BY <2>2, <2>3, Fun_IsInj
  <2>6. move \in Surjection(ListensOf(q), later)
    BY <2>2, <2>4, Fun_IsSurj
  <2> QED BY <2>5, <2>6 DEF Bijection
<1>4. IsFiniteSet(ListensOf(q)) /\ IsFiniteSet(ListensOf(p))
  BY CountType
<1>5. IsFiniteSet(later) /\ Cardinality(later) = Count(q)
  BY <1>3, <1>4, FS_Bijection DEF ExistsBijection, Count
<1>6. Cardinality(ListensOf(s)) = Count(p) + Cardinality(later) - Cardinality({})
  <2>1. PICK A, B : A = ListensOf(p) /\ B = later
    OBVIOUS
  <2>2. /\ IsFiniteSet(A) /\ IsFiniteSet(B) /\ A \cap B = {}
        /\ ListensOf(s) = A \cup B
    BY <1>2, <1>4, <1>5, <2>1
  <2>3. Cardinality(A \cup B) = Cardinality(A) + Cardinality(B) - Cardinality({})
    BY <2>2, FS_Union
  <2> QED BY <2>1, <2>2, <2>3 DEF Count
<1> HIDE DEF later, move
<1>7. Count(p) \in Nat /\ Count(q) \in Nat
  BY CountType
<1> QED BY <1>5, <1>6, <1>7, FS_EmptySet DEF Count

\* One message.
LEMMA CountOne ==
  ASSUME NEW m
  PROVE  Count(<<m>>) = IF Listens(m) THEN 1 ELSE 0
<1>1. DOMAIN <<m>> = {1} /\ <<m>>[1] = m
  OBVIOUS
<1>2. ListensOf(<<m>>) = IF Listens(m) THEN {1} ELSE {}
  BY <1>1 DEF ListensOf
<1> QED BY <1>2, FS_EmptySet, FS_Singleton DEF Count

\* A queue counts its head and the rest.
LEMMA CountHead ==
  ASSUME NEW T, NEW q \in Seq(T), q # <<>>
  PROVE  Count(q) = (IF Listens(Head(q)) THEN 1 ELSE 0) + Count(Tail(q))
<1>1. PICK h : h = Head(q)
  OBVIOUS
<1>2. PICK p : p = <<h>>
  OBVIOUS
<1>3. Tail(q) \in Seq(T) /\ p \in Seq(T) /\ q = p \o Tail(q)
  <2>1. h \in T /\ Tail(q) \in Seq(T)
    BY <1>1
  <2>2. p \in Seq(T)
    BY <1>2, <2>1
  <2> QED BY <1>1, <1>2, <2>1, <2>2
<1>4. Count(q) = Count(p) + Count(Tail(q))
  BY <1>3, CountJoin
<1>5. Count(p) = IF Listens(h) THEN 1 ELSE 0
  BY <1>2, CountOne
<1> QED BY <1>1, <1>4, <1>5

\* What the end of a handler of FRepo that leaves r does to the connection l: the
\* puts new join the outstanding ones, and before, requests and after go out.
Settled(r, l, new, before, requests, after) ==
    /\ up' = up \o before \o requests \o after
    /\ {before, requests, after} \subseteq Seq(RequestMessage)
    /\ \A i \in DOMAIN before : before[i].type = "watch"
    /\ \A i \in DOMAIN requests : requests[i].type = "put"
    /\ \A i \in DOMAIN after : after[i].type = "unwatch"
    /\ l.conn = "down" => before = <<>> /\ after = <<>>
    /\ l.conn # "up" => requests = <<>>
    /\ link' \in LinkRecord
    /\ link'.conn = l.conn /\ link'.held = l.held /\ link'.due = l.due
    /\ new \in Seq(Put) /\ link'.puts = l.puts \o new
    /\ DOMAIN new = DOMAIN r.posted
    /\ \A i \in DOMAIN new : new[i].of = r.posted[i].of
    /\ l.conn = "up" => /\ DOMAIN requests = DOMAIN new
                        /\ \A i \in DOMAIN new : requests[i].of = new[i].of
    /\ link'.unacked = l.unacked + Count(before)
    /\ repo'.kind = r.kind /\ repo'.report = r.report
    /\ Watchers(repo') = Watchers(r)
    /\ repo'.seen = IF Watchers(repo) # {} /\ Watchers(r) = {} THEN 0 ELSE r.seen
    /\ Watchers(repo) = {} /\ Watchers(r) # {} /\ Connected(l) => before # <<>>
    /\ Watchers(r) # {} => after = <<>>

\* The end of a handler does so.
LEMMA SettleShape ==
  ASSUME NEW r \in RepoRecord, NEW l \in LinkRecord, up \in Seq(RequestMessage),
         Settle(r, l)
  PROVE  \E new, before, requests, after :
            Settled(r, l, new, before, requests, after)
<1> DEFINE starts == Watchers(repo) = {} /\ Watchers(r) # {}
           stops == Watchers(repo) # {} /\ Watchers(r) = {}
<1>1. PICK new : new = IF CanSendWrites(l) THEN Sent(r.posted) ELSE r.posted
  OBVIOUS
<1>2. PICK a : a = IF starts /\ Connected(l) THEN l.unacked + 1 ELSE l.unacked
  OBVIOUS
<1>3. PICK before : before = IF starts /\ Connected(l) THEN <<[type |-> "watch"]>>
                             ELSE <<>>
  OBVIOUS
<1>4. PICK after : after = IF stops /\ Connected(l) THEN <<[type |-> "unwatch"]>>
                           ELSE <<>>
  OBVIOUS
<1>5. PICK requests : requests = IF CanSendWrites(l) THEN Requests(r.posted)
                                 ELSE <<>>
  OBVIOUS
<1>6. PICK c : c = IF stops THEN None ELSE r.cache
  OBVIOUS
<1>7. PICK v : v = IF stops THEN 0 ELSE r.seen
  OBVIOUS
<1>8. /\ repo' = [r EXCEPT !.posted = <<>>, !.cache = c, !.seen = v]
      /\ link' = [l EXCEPT !.puts = @ \o new, !.unacked = a]
      /\ up' = up \o before \o requests \o after
  <2>1. repo' = [r EXCEPT !.posted = <<>>, !.cache = c, !.seen = v]
    BY <1>6, <1>7 DEF Settle
  <2>2. link' = [l EXCEPT !.puts = @ \o new, !.unacked = a]
    BY <1>1, <1>2 DEF Settle
  <2>3. up' = up \o before \o requests \o after
    BY <1>3, <1>4, <1>5 DEF Settle
  <2> QED BY <2>1, <2>2, <2>3
<1>9. /\ before \in Seq(RequestMessage) /\ after \in Seq(RequestMessage)
      /\ \A i \in DOMAIN before : before[i].type = "watch"
      /\ \A i \in DOMAIN after : after[i].type = "unwatch"
  <2>1. [type |-> "watch"] \in RequestMessage /\ [type |-> "unwatch"] \in RequestMessage
    BY DEF RequestMessage
  <2>2. before = <<>> \/ before = <<[type |-> "watch"]>>
    BY <1>3
  <2>3. after = <<>> \/ after = <<[type |-> "unwatch"]>>
    BY <1>4
  <2>4. /\ before \in Seq(RequestMessage)
        /\ \A i \in DOMAIN before : before[i] = [type |-> "watch"]
    BY <2>1, <2>2, OneOrNone
  <2>5. /\ after \in Seq(RequestMessage)
        /\ \A i \in DOMAIN after : after[i] = [type |-> "unwatch"]
    BY <2>1, <2>3, OneOrNone
  <2> QED BY <2>4, <2>5
<1>10. l.conn = "down" => before = <<>> /\ after = <<>>
  BY <1>3, <1>4 DEF Connected
<1>21. /\ Watchers(repo) = {} /\ Watchers(r) # {} /\ Connected(l) => before # <<>>
       /\ Watchers(r) # {} => after = <<>>
       /\ v = IF Watchers(repo) # {} /\ Watchers(r) = {} THEN 0 ELSE r.seen
  BY <1>3, <1>4, <1>7
<1>11. l.unacked \in Int /\ a = l.unacked + Count(before)
  <2>1. l.unacked \in Int
    BY DEF LinkRecord
  <2>2. CASE starts /\ Connected(l)
    <3>1. PICK m : m = [type |-> "watch"]
      OBVIOUS
    <3>2. before = <<m>> /\ Listens(m)
      BY <1>3, <2>2, <3>1 DEF Listens
    <3>3. Count(before) = 1
      BY <3>2, CountOne
    <3> QED BY <1>2, <2>1, <2>2, <3>3
  <2>3. CASE ~(starts /\ Connected(l))
    <3>1. before = <<>>
      BY <1>3, <2>3
    <3>2. \A i \in DOMAIN before : ~Listens(before[i])
      BY <3>1
    <3>3. Count(before) = 0
      BY <1>9, <3>2, CountType
    <3> QED BY <1>2, <2>1, <2>3, <3>3
  <2> QED BY <2>1, <2>2, <2>3
<1> HIDE DEF starts, stops
<1>12. r.posted \in Seq(Put) /\ l.puts \in Seq(Put)
  BY DEF RepoRecord, LinkRecord
<1>13. /\ new \in Seq(Put) /\ DOMAIN new = DOMAIN r.posted
       /\ \A i \in DOMAIN new : new[i].of = r.posted[i].of
  <2>1. CASE CanSendWrites(l)
    BY <1>1, <1>12, <2>1, SentType
  <2>2. CASE ~CanSendWrites(l)
    BY <1>1, <1>12, <2>2
  <2> QED BY <2>1, <2>2
<1>14. /\ requests \in Seq(RequestMessage)
       /\ \A i \in DOMAIN requests : requests[i].type = "put"
       /\ l.conn # "up" => requests = <<>>
       /\ l.conn = "up" => /\ DOMAIN requests = DOMAIN new
                           /\ \A i \in DOMAIN new : requests[i].of = new[i].of
  <2>1. CASE l.conn = "up"
    <3>1. requests = Requests(r.posted)
      BY <1>5, <2>1 DEF CanSendWrites
    <3>2. /\ requests \in Seq(RequestMessage) /\ DOMAIN requests = DOMAIN r.posted
          /\ \A i \in DOMAIN r.posted : requests[i].type = "put" /\ requests[i].of = r.posted[i].of
      BY <1>12, <3>1, RequestsType
    <3> QED BY <1>13, <2>1, <3>2
  <2>2. CASE l.conn # "up"
    <3>1. requests = <<>>
      BY <1>5, <2>2 DEF CanSendWrites
    <3> QED BY <2>2, <3>1
  <2> QED BY <2>1, <2>2
<1>15. PICK puts : puts = l.puts \o new
  OBVIOUS
<1>16. puts \in Seq(Put)
  BY <1>12, <1>13, <1>15
<1>17. /\ link' \in LinkRecord /\ link'.puts = puts
       /\ link'.conn = l.conn /\ link'.held = l.held /\ link'.due = l.due
       /\ link'.unacked = a
  <2>1. link' = [l EXCEPT !.puts = puts, !.unacked = a]
    BY <1>8, <1>15
  <2>2. a \in Int
    BY <1>2, <1>11
  <2> QED BY <1>16, <2>1, <2>2 DEF LinkRecord
<1>18. /\ repo'.kind = r.kind /\ repo'.report = r.report /\ repo'.seen = v
       /\ Watchers(repo') = Watchers(r)
  BY <1>8 DEF RepoRecord, Watchers, Is
<1>19. {before, requests, after} \subseteq Seq(RequestMessage)
  BY <1>9, <1>14
<1>20. Settled(r, l, new, before, requests, after)
  BY <1>8, <1>9, <1>10, <1>11, <1>13, <1>14, <1>15, <1>17, <1>18, <1>19,
           <1>21 DEF Settled
<1> QED BY <1>20

\* The count of unanswered listens is that of the messages about listens that
\* travel, and nothing travels while the connection is down.
ListenInv ==
    /\ link.unacked = Count(up) + Count(down)
    /\ link.conn = "down" => up = <<>> /\ down = <<>> /\ ~server.subscribed

\* Messages that are about no listen.
LEMMA CountQuiet ==
  ASSUME NEW T, NEW u \in Seq(T), NEW q \in Seq(T), \A i \in DOMAIN q : ~Listens(q[i]),
         NEW s, s = u \o q
  PROVE  Count(s) = Count(u)
<1>1. Count(q) = 0 /\ Count(u) \in Nat
  BY CountType
<1>2. Count(s) = Count(u) + Count(q)
  BY CountJoin
<1> QED BY <1>1, <1>2

\* A handler that settles keeps the count: it counts the listen it sends.
LEMMA SettledListens ==
  ASSUME ListenInv, up \in Seq(RequestMessage), NEW r \in RepoRecord, NEW l \in LinkRecord,
         Settle(r, l), l.conn = link.conn, l.unacked = link.unacked,
         NEW d, down' = d, Count(d) = Count(down), Count(d) \in Nat,
         link.conn = "down" => d = <<>>, UNCHANGED server
  PROVE  ListenInv'
<1>1. PICK new, before, requests, after : Settled(r, l, new, before, requests, after)
  BY SettleShape
<1>2. /\ up' = up \o before \o requests \o after
      /\ before \in Seq(RequestMessage) /\ requests \in Seq(RequestMessage)
      /\ after \in Seq(RequestMessage)
      /\ \A i \in DOMAIN before : before[i].type = "watch"
      /\ \A i \in DOMAIN requests : requests[i].type = "put"
      /\ \A i \in DOMAIN after : after[i].type = "unwatch"
      /\ l.conn = "down" => before = <<>> /\ after = <<>>
      /\ l.conn # "up" => requests = <<>>
      /\ link'.conn = l.conn
      /\ link'.unacked = l.unacked + Count(before)
  BY <1>1 DEF Settled
<1>3. PICK u : u = up \o before
  OBVIOUS
<1>4. PICK w : w = u \o requests
  OBVIOUS
<1>5. PICK x : x = w \o after
  OBVIOUS
<1>6. u \in Seq(RequestMessage) /\ Count(u) = Count(up) + Count(before)
  <2>1. u \in Seq(RequestMessage)
    BY <1>2, <1>3
  <2> QED BY <1>2, <1>3, <2>1, CountJoin
<1>7. w \in Seq(RequestMessage) /\ Count(w) = Count(u)
  <2>1. w \in Seq(RequestMessage)
    BY <1>2, <1>4, <1>6
  <2>2. \A i \in DOMAIN requests : ~Listens(requests[i])
    BY <1>2 DEF Listens
  <2> QED BY <1>2, <1>4, <1>6, <2>1, <2>2, CountQuiet
<1>8. Count(x) = Count(w)
  <2>2. \A i \in DOMAIN after : ~Listens(after[i])
    BY <1>2 DEF Listens
  <2> QED BY <1>2, <1>5, <1>7, <2>2, CountQuiet
<1>9. up' = x
  BY <1>2, <1>3, <1>4, <1>5
<1>10. Count(up) \in Nat /\ Count(before) \in Nat
  BY <1>2, CountType
<1>11. link'.unacked = Count(up') + Count(down')
  BY <1>2, <1>6, <1>7, <1>8, <1>9, <1>10 DEF ListenInv
<1>12. link'.conn = "down" => up' = <<>> /\ down' = <<>> /\ ~server'.subscribed
  BY <1>2 DEF ListenInv
<1> QED BY <1>11, <1>12 DEF ListenInv

\* So do those that receive nothing.
LEMMA HandledListens ==
  ASSUME ClientInv, ListenInv, NEW r, NEW l, NEW news, NEW f, Handled(r, l, news, f),
         l.conn = link.conn, l.unacked = link.unacked, UNCHANGED <<down, server>>
  PROVE  ListenInv'
<1>1. /\ r \in RepoRecord /\ l \in LinkRecord /\ Settle(r, l)
  BY DEF Handled, RepoOk
<1>2. /\ up \in Seq(RequestMessage) /\ down \in Seq(Message)
  BY DEF ClientInv, ClientOk
<1>3. Count(down) \in Nat
  BY <1>2, CountType
<1>4. PICK d : d = down
  OBVIOUS
<1>5. /\ down' = d /\ Count(d) = Count(down) /\ Count(d) \in Nat
      /\ link.conn = "down" => d = <<>>
  BY <1>3, <1>4 DEF ListenInv
<1> QED BY <1>1, <1>2, <1>5, SettledListens

\* A read counts the listen it sends.
LEMMA ReadListens ==
  ASSUME ClientInv, ListenInv, Read
  PROVE  ListenInv'
<1>1. PICK m : m = [type |-> "read"]
  OBVIOUS
<1>2. /\ link \in LinkRecord /\ up \in Seq(RequestMessage) /\ down \in Seq(Message)
  BY DEF ClientInv, ClientOk
<1>3. link'.conn = link.conn /\ UNCHANGED <<down, server>>
  BY <1>2 DEF Read, LinkRecord
<1>4. m \in RequestMessage /\ Listens(m)
  BY <1>1 DEF RequestMessage, Listens
<1>5. Count(up) \in Nat /\ Count(down) \in Nat
  BY <1>2, CountType
<1>6. CASE Connected(link)
  <2>1. PICK p : p = <<m>>
    OBVIOUS
  <2>2. PICK u : u = up \o p
    OBVIOUS
  <2>3. up' = u /\ link'.unacked = link.unacked + 1
    BY <1>1, <1>2, <1>6, <2>1, <2>2 DEF Read, LinkRecord
  <2>4. p \in Seq(RequestMessage) /\ Count(p) = 1
    BY <1>4, <2>1, CountOne
  <2>5. Count(u) = Count(up) + Count(p)
    BY <1>2, <2>2, <2>4, CountJoin
  <2>6. link.conn # "down"
    BY <1>6 DEF Connected
  <2> QED BY <1>3, <1>5, <2>3, <2>4, <2>5, <2>6 DEF ListenInv
<1>7. CASE ~Connected(link)
  <2>1. up' = up /\ link'.unacked = link.unacked
    BY <1>2, <1>7 DEF Read, LinkRecord
  <2> QED BY <1>3, <2>1 DEF ListenInv
<1> QED BY <1>6, <1>7

\* A token is no listen.
LEMMA TokenListens ==
  ASSUME ClientInv, ListenInv, ConnectWithToken
  PROVE  ListenInv'
<1>1. PICK m : m = [type |-> "auth"]
  OBVIOUS
<1>2. /\ up' = <<m>> /\ link.conn = "down" /\ UNCHANGED <<down, server>>
      /\ link \in LinkRecord
  BY <1>1 DEF ConnectWithToken, ClientInv, ClientOk
<1>3. link'.conn = "authenticating" /\ link'.unacked = link.unacked
  BY <1>2 DEF ConnectWithToken, LinkRecord
<1>4. Count(<<m>>) = 0
  BY <1>1, CountOne DEF Listens
<1>5. up = <<>> /\ Count(up) = 0
  <2>1. up = <<>> /\ up \in Seq(RequestMessage)
    BY <1>2 DEF ListenInv, ClientInv, ClientOk
  <2>2. \A i \in DOMAIN up : ~Listens(up[i])
    BY <2>1
  <2> QED BY <2>1, <2>2, CountType
<1> QED BY <1>2, <1>3, <1>4, <1>5 DEF ListenInv

\* What restoring sends: the listens, and the outstanding puts.
Restored(l, listens, requests) ==
    /\ up' = up \o listens \o requests
    /\ {listens, requests} \subseteq Seq(RequestMessage)
    /\ \A i \in DOMAIN listens : listens[i].type \in {"watch", "read"}
    /\ DOMAIN requests = DOMAIN l.puts
    /\ \A i \in DOMAIN requests : /\ requests[i].type = "put"
                                  /\ requests[i].of = l.puts[i].of
    /\ link' \in LinkRecord
    /\ link'.conn = "up" /\ link'.held = l.held /\ link'.due = l.due
    /\ DOMAIN link'.puts = DOMAIN l.puts
    /\ \A i \in DOMAIN l.puts : link'.puts[i].of = l.puts[i].of
    /\ link'.unacked = l.unacked + Len(listens)
    /\ Watchers(repo) # {} => \E i \in DOMAIN listens : listens[i].type = "watch"

\* Restoring does so.
LEMMA RestoreShape ==
  ASSUME NEW l \in LinkRecord, RestoreState(l)
  PROVE  \E listens, requests : Restored(l, listens, requests)
<1>1. PICK p : p = IF Watchers(repo) # {} THEN <<[type |-> "watch"]>> ELSE <<>>
  OBVIOUS
<1>2. PICK q : q = IF l.reading THEN <<[type |-> "read"]>> ELSE <<>>
  OBVIOUS
<1>3. PICK listens : listens = p \o q
  OBVIOUS
<1>4. PICK requests : requests = Requests(l.puts)
  OBVIOUS
<1>5. PICK puts : puts = Sent(l.puts)
  OBVIOUS
<1>6. PICK a : a = l.unacked + Len(listens)
  OBVIOUS
<1>7. /\ link' = [l EXCEPT !.conn = "up", !.puts = puts, !.unacked = a]
      /\ up' = up \o listens \o requests
  BY <1>1, <1>2, <1>3, <1>4, <1>5, <1>6 DEF RestoreState, Unanswered, RestoreOrder
<1>8. /\ p \in Seq(RequestMessage) /\ q \in Seq(RequestMessage)
      /\ \A i \in DOMAIN p : p[i].type = "watch"
      /\ \A i \in DOMAIN q : q[i].type = "read"
  <2>1. [type |-> "watch"] \in RequestMessage /\ [type |-> "read"] \in RequestMessage
    BY DEF RequestMessage
  <2>2. p = <<>> \/ p = <<[type |-> "watch"]>>
    BY <1>1
  <2>3. q = <<>> \/ q = <<[type |-> "read"]>>
    BY <1>2
  <2>4. /\ p \in Seq(RequestMessage)
        /\ \A i \in DOMAIN p : p[i] = [type |-> "watch"]
    BY <2>1, <2>2, OneOrNone
  <2>5. /\ q \in Seq(RequestMessage)
        /\ \A i \in DOMAIN q : q[i] = [type |-> "read"]
    BY <2>1, <2>3, OneOrNone
  <2> QED BY <2>4, <2>5
<1>9. /\ listens \in Seq(RequestMessage)
      /\ \A i \in DOMAIN listens : listens[i].type \in {"watch", "read"}
  BY <1>3, <1>8, JoinMembers
<1>10. l.puts \in Seq(Put) /\ l.unacked \in Int /\ Len(listens) \in Nat
  BY <1>9 DEF LinkRecord
<1>11. /\ requests \in Seq(RequestMessage) /\ DOMAIN requests = DOMAIN l.puts
       /\ \A i \in DOMAIN l.puts : requests[i].type = "put" /\ requests[i].of = l.puts[i].of
  BY <1>4, <1>10, RequestsType
<1>12. /\ puts \in Seq(Put) /\ DOMAIN puts = DOMAIN l.puts
       /\ \A i \in DOMAIN l.puts : puts[i].of = l.puts[i].of
  BY <1>5, <1>10, SentType
<1>13. /\ link' \in LinkRecord /\ link'.conn = "up" /\ link'.puts = puts
       /\ link'.held = l.held /\ link'.due = l.due /\ link'.unacked = a
  <2>1. a \in Int
    BY <1>6, <1>10
  <2> QED BY <1>7, <1>12, <2>1 DEF LinkRecord
<1>15. Watchers(repo) # {} => \E i \in DOMAIN listens : listens[i].type = "watch"
  <2> SUFFICES ASSUME Watchers(repo) # {}
               PROVE  1 \in DOMAIN listens /\ listens[1].type = "watch"
    OBVIOUS
  <2>1. p = <<[type |-> "watch"]>>
    BY <1>1
  <2>2. 1 \in DOMAIN p
    BY <2>1
  <2> QED BY <1>3, <1>8, <2>2, JoinMembers
<1>14. Restored(l, listens, requests)
  BY <1>6, <1>7, <1>9, <1>11, <1>12, <1>13, <1>15 DEF Restored
<1> QED BY <1>14

\* Restoring counts the listens it sends again.
LEMMA RestoredListens ==
  ASSUME ListenInv, link \in LinkRecord, up \in Seq(RequestMessage), RestoreState(link),
         Count(down') = Count(down), Count(down) \in Nat
  PROVE  ListenInv'
<1>1. PICK listens, requests : Restored(link, listens, requests)
  BY RestoreShape
<1>2. /\ up' = up \o listens \o requests
      /\ listens \in Seq(RequestMessage) /\ requests \in Seq(RequestMessage)
      /\ \A i \in DOMAIN listens : listens[i].type \in {"watch", "read"}
      /\ \A i \in DOMAIN requests : requests[i].type = "put"
      /\ link'.conn = "up" /\ link'.unacked = link.unacked + Len(listens)
  BY <1>1 DEF Restored
<1>3. PICK u : u = up \o listens
  OBVIOUS
<1>4. Count(listens) = Len(listens) /\ Len(listens) \in Nat
  <2>1. DOMAIN listens = 1 .. Len(listens) /\ Len(listens) \in Nat
    BY <1>2
  <2>2. ListensOf(listens) = 1 .. Len(listens)
    BY <1>2, <2>1 DEF ListensOf, Listens
  <2>3. PICK n : n = Len(listens)
    OBVIOUS
  <2>4. n \in Nat /\ 1 \in Int /\ n \in Int
    BY <2>1, <2>3
  <2>5. Cardinality(1 .. n) = IF 1 > n THEN 0 ELSE n - 1 + 1
    BY <2>4, FS_Interval
  <2>6. Cardinality(1 .. n) = n
    BY <2>4, <2>5
  <2> QED BY <2>1, <2>2, <2>3, <2>6 DEF Count
<1>5. u \in Seq(RequestMessage) /\ Count(u) = Count(up) + Count(listens)
  <2>1. u \in Seq(RequestMessage)
    BY <1>2, <1>3
  <2> QED BY <1>2, <1>3, <2>1, CountJoin
<1>6. PICK w : w = u \o requests
  OBVIOUS
<1>7. Count(w) = Count(u)
  <2>1. \A i \in DOMAIN requests : ~Listens(requests[i])
    BY <1>2 DEF Listens
  <2> QED BY <1>2, <1>5, <1>6, <2>1, CountQuiet
<1>8. up' = w /\ Count(up) \in Nat
  BY <1>2, <1>3, <1>6, CountType
<1> QED BY <1>2, <1>4, <1>5, <1>7, <1>8 DEF ListenInv

\* What arrives leaves the count of the rest.
LEMMA ArrivesListens ==
  ASSUME ClientInv, ListenInv, NEW type, Arrives(type)
  PROVE  /\ Count(down) = (IF type = "listened" THEN 1 ELSE 0) + Count(down')
         /\ Count(down') \in Nat /\ Count(up) \in Nat
         /\ link.conn # "down" /\ down' \in Seq(Message)
<1>1. /\ down # <<>> /\ down \in Seq(Message) /\ up \in Seq(RequestMessage)
      /\ down' = Tail(down) /\ Head(down) \in Message /\ Head(down).type = type
  BY ArrivesOk DEF ClientInv, ClientOk, Arrives
<1>2. Tail(down) \in Seq(Message)
  BY <1>1
<1>3. Count(down) = (IF Listens(Head(down)) THEN 1 ELSE 0) + Count(Tail(down))
  BY <1>1, CountHead
<1>4. Listens(Head(down)) <=> type = "listened"
  <2>1. type \notin {"watch", "read"}
    BY <1>1 DEF Message
  <2> QED BY <1>1, <2>1 DEF Listens
<1>5. Count(Tail(down)) \in Nat /\ Count(up) \in Nat
  BY <1>1, <1>2, CountType
<1> QED BY <1>1, <1>2, <1>3, <1>4, <1>5 DEF ListenInv

\* What the database takes leaves the count of the rest.
LEMMA TakesListens ==
  ASSUME ClientInv, ListenInv, NEW type, Takes(type)
  PROVE  /\ Count(up) = (IF type \in {"watch", "read"} THEN 1 ELSE 0) + Count(up')
         /\ Count(up') \in Nat /\ Count(down) \in Nat
         /\ link.conn # "down" /\ down \in Seq(Message)
<1>1. /\ up # <<>> /\ up \in Seq(RequestMessage) /\ down \in Seq(Message)
      /\ up' = Tail(up) /\ Head(up).type = type
  BY DEF ClientInv, ClientOk, Takes
<1>2. Tail(up) \in Seq(RequestMessage) /\ Head(up) \in RequestMessage
  BY <1>1
<1>3. Count(up) = (IF Listens(Head(up)) THEN 1 ELSE 0) + Count(Tail(up))
  BY <1>1, CountHead
<1>4. Listens(Head(up)) <=> type \in {"watch", "read"}
  <2>1. type # "listened"
    BY <1>1, <1>2 DEF RequestMessage
  <2> QED BY <1>1, <2>1 DEF Listens
<1>5. Count(Tail(up)) \in Nat /\ Count(down) \in Nat
  BY <1>1, <1>2, CountType
<1> QED BY <1>1, <1>3, <1>4, <1>5 DEF ListenInv

\* The count of messages that join those to the client.
LEMMA TellsListens ==
  ASSUME NEW d \in Seq(Message), NEW m \in Message, NEW s, s = Append(d, m)
  PROVE  /\ s \in Seq(Message)
         /\ Listens(m) => Count(s) = Count(d) + 1
         /\ ~Listens(m) => Count(s) = Count(d)
<1>1. PICK p : p = <<m>>
  OBVIOUS
<1>2. p \in Seq(Message) /\ s = d \o p
  BY <1>1
<1>3. Count(p) = IF Listens(m) THEN 1 ELSE 0
  BY <1>1, CountOne
<1>4. Count(s) = Count(d) + Count(p) /\ Count(d) \in Nat
  BY <1>2, CountJoin, CountType
<1> QED BY <1>2, <1>3, <1>4

\* Data, and the answer to the listen it is for.
LEMMA CountPair ==
  ASSUME NEW q, DOMAIN q = {1, 2}, ~Listens(q[1]), Listens(q[2])
  PROVE  Count(q) = 1
<1>1. ListensOf(q) = {2}
  BY DEF ListensOf
<1> QED BY <1>1, FS_Singleton DEF Count

\* Without a token, and after its answer, everything is restored.
LEMMA ConnectListens ==
  ASSUME ClientInv, ListenInv, ConnectWithoutToken \/ ReceiveAuthed
  PROVE  ListenInv'
<1>1. /\ link \in LinkRecord /\ up \in Seq(RequestMessage) /\ down \in Seq(Message)
  BY DEF ClientInv, ClientOk
<1>2. CASE ConnectWithoutToken
  <2>1. RestoreState(link) /\ down' = down
    BY <1>2 DEF ConnectWithoutToken
  <2>2. Count(down') = Count(down) /\ Count(down) \in Nat
    BY <1>1, <2>1, CountType
  <2> QED BY <1>1, <2>1, <2>2, RestoredListens
<1>3. CASE ReceiveAuthed
  <2>1. RestoreState(link) /\ Arrives("authed")
    BY <1>3 DEF ReceiveAuthed
  <2>2. Count(down') = Count(down) /\ Count(down) \in Nat
    BY <2>1, ArrivesListens
  <2> QED BY <1>1, <2>1, <2>2, RestoredListens
<1> QED BY <1>2, <1>3

\* With the connection, everything that was counted is lost.
LEMMA DropListens ==
  ASSUME ClientInv, ListenInv, Drop
  PROVE  ListenInv'
<1>1. /\ link \in LinkRecord /\ server \in ServerRecord
      /\ up' = <<>> /\ down' = <<>>
  BY DEF ClientInv, ClientOk, Drop
<1>2. link'.unacked = 0 /\ ~server'.subscribed
  BY <1>1 DEF Drop, LinkRecord, ServerRecord
<1>3. PICK e : e = <<>>
  OBVIOUS
<1>4. e \in Seq(Message) /\ \A i \in DOMAIN e : ~Listens(e[i])
  BY <1>3
<1>5. Count(e) = 0
  BY <1>4, CountType
<1> QED BY <1>1, <1>2, <1>3, <1>5 DEF ListenInv

\* The figure is no answer to a listen.
LEMMA DataListens ==
  ASSUME ClientInv, ListenInv, ReceiveData
  PROVE  ListenInv'
<1>1. PICK r : Handled(r, link, {}, {})
  BY DataShape
<1>2. /\ r \in RepoRecord /\ link \in LinkRecord /\ Settle(r, link)
      /\ up \in Seq(RequestMessage)
  BY <1>1 DEF Handled, RepoOk, ClientInv, ClientOk
<1>3. Arrives("data") /\ UNCHANGED server
  BY DEF ReceiveData
<1>4. PICK d : d = down'
  OBVIOUS
<1>5. down' = d /\ Count(d) = Count(down) /\ Count(d) \in Nat /\ link.conn # "down"
  BY <1>3, <1>4, ArrivesListens
<1> QED BY <1>2, <1>3, <1>5, SettledListens

\* The data of another location and the answer to a put are none either, and the
\* answer to a listen is counted as such.
LEMMA ReceiveListens ==
  ASSUME ClientInv, ListenInv, ReceiveElsewhere \/ ReceiveListened \/ ReceiveAnswer
  PROVE  ListenInv'
<1>1. link \in LinkRecord
  BY DEF ClientInv, ClientOk
<1>2. CASE ReceiveElsewhere
  <2>1. /\ Arrives("elsewhere") /\ UNCHANGED <<up, server>>
        /\ link'.unacked = link.unacked /\ link'.conn = link.conn
    BY <1>1, <1>2 DEF ReceiveElsewhere, LinkRecord
  <2>2. Count(down) = Count(down') /\ link.conn # "down"
    BY <2>1, ArrivesListens
  <2> QED BY <2>1, <2>2 DEF ListenInv
<1>3. CASE ReceiveListened
  <2>1. /\ Arrives("listened") /\ UNCHANGED <<up, server>>
        /\ link'.unacked = link.unacked - 1 /\ link'.conn = link.conn
    BY <1>1, <1>3 DEF ReceiveListened, LinkRecord
  <2>2. /\ Count(down) = 1 + Count(down') /\ link.conn # "down"
        /\ Count(down') \in Nat /\ Count(up) \in Nat
    BY <2>1, ArrivesListens
  <2> QED BY <2>1, <2>2 DEF ListenInv
<1>4. CASE ReceiveAnswer
  <2>1. PICK i : i = CHOOSE j \in {k \in DOMAIN link.puts : link.puts[k].of = Head(down).of} : TRUE
    BY Zenon
  <2>2. PICK p : p = Without(link.puts, i)
    OBVIOUS
  <2>3. PICK a : a = [of |-> Head(down).of, status |-> Head(down).status]
    OBVIOUS
  <2>4. \/ link' = link
        \/ link' = [link EXCEPT !.puts = p, !.held = Append(@, a)]
        \/ link' = [link EXCEPT !.puts = p, !.due = <<a>>]
    BY <1>4, <2>1, <2>2, <2>3 DEF ReceiveAnswer
  <2>5. link'.unacked = link.unacked /\ link'.conn = link.conn
    BY <1>1, <2>4 DEF LinkRecord
  <2>6. Arrives("answer") /\ UNCHANGED <<up, server>>
    BY <1>4 DEF ReceiveAnswer
  <2>7. Count(down) = Count(down') /\ link.conn # "down"
    BY <2>6, ArrivesListens
  <2> QED BY <2>5, <2>6, <2>7 DEF ListenInv
<1> QED BY <1>2, <1>3, <1>4

\* The database answers every listen, once.
LEMMA TakeListens ==
  ASSUME ClientInv, ListenInv, TakeAuth \/ TakeWatch \/ TakeUnwatch \/ TakeRead
  PROVE  ListenInv'
<1>1. server \in ServerRecord
  BY DEF ClientInv
<1>2. CASE TakeAuth
  <2>1. PICK m : m = [type |-> "authed"]
    OBVIOUS
  <2>2. Takes("auth") /\ down' = Append(down, m) /\ UNCHANGED <<link, server>>
    BY <1>2, <2>1 DEF TakeAuth
  <2>3. m \in Message /\ ~Listens(m)
    BY <2>1 DEF Message, Listens
  <2>4. /\ Count(up) = Count(up') /\ Count(down) \in Nat
        /\ link.conn # "down" /\ down \in Seq(Message)
    BY <2>2, TakesListens
  <2>5. PICK d : d = Append(down, m)
    OBVIOUS
  <2>6. Count(d) = Count(down)
    BY <2>3, <2>4, <2>5, TellsListens
  <2> QED BY <2>2, <2>4, <2>5, <2>6 DEF ListenInv
<1>3. CASE TakeWatch
  <2>1. PICK m : m = Data(server.value, server.version)
    OBVIOUS
  <2>2. PICK q : q = <<m, Listened>>
    OBVIOUS
  <2>3. PICK d : d = down \o q
    OBVIOUS
  <2>4. Takes("watch") /\ down' = d /\ UNCHANGED link
    BY <1>3, <2>1, <2>2, <2>3 DEF TakeWatch
  <2>5. m \in Message /\ Listened \in Message
    <3>1. m \in Message
      BY <1>1, <2>1 DEF Message, Data, ServerRecord
    <3>2. Listened \in Message
      BY DEF Message, Listened
    <3> QED BY <3>1, <3>2
  <2>6. q \in Seq(Message)
    BY <2>2, <2>5
  <2>7. Count(q) = 1
    <3>1. DOMAIN q = {1, 2} /\ ~Listens(q[1]) /\ Listens(q[2])
      BY <2>1, <2>2 DEF Listens, Data, Listened
    <3> QED BY <3>1, CountPair
  <2>8. /\ Count(up) = 1 + Count(up') /\ Count(down) \in Nat /\ Count(up') \in Nat
        /\ link.conn # "down" /\ down \in Seq(Message)
    BY <2>4, TakesListens
  <2>9. Count(d) = Count(down) + Count(q)
    BY <2>3, <2>6, <2>8, CountJoin
  <2> QED BY <2>4, <2>7, <2>8, <2>9 DEF ListenInv
<1>4. CASE TakeUnwatch
  <2>1. Takes("unwatch") /\ UNCHANGED <<link, down>>
    BY <1>4 DEF TakeUnwatch
  <2>2. Count(up) = Count(up') /\ link.conn # "down"
    BY <2>1, TakesListens
  <2> QED BY <2>1, <2>2 DEF ListenInv
<1>5. CASE TakeRead
  <2>1. PICK m : m = [type |-> "elsewhere"]
    OBVIOUS
  <2>2. PICK q : q = <<m, Listened>>
    OBVIOUS
  <2>3. PICK d : d = down \o q
    OBVIOUS
  <2>4. Takes("read") /\ down' = d /\ UNCHANGED link
    BY <1>5, <2>1, <2>2, <2>3 DEF TakeRead
  <2>5. m \in Message /\ Listened \in Message
    <3>1. m \in Message
      BY <2>1 DEF Message
    <3>2. Listened \in Message
      BY DEF Message, Listened
    <3> QED BY <3>1, <3>2
  <2>6. q \in Seq(Message)
    BY <2>2, <2>5
  <2>7. Count(q) = 1
    <3>1. DOMAIN q = {1, 2} /\ ~Listens(q[1]) /\ Listens(q[2])
      BY <2>1, <2>2 DEF Listens, Data, Listened
    <3> QED BY <3>1, CountPair
  <2>8. /\ Count(up) = 1 + Count(up') /\ Count(down) \in Nat /\ Count(up') \in Nat
        /\ link.conn # "down" /\ down \in Seq(Message)
    BY <2>4, TakesListens
  <2>9. Count(d) = Count(down) + Count(q)
    BY <2>3, <2>6, <2>8, CountJoin
  <2> QED BY <2>4, <2>7, <2>8, <2>9 DEF ListenInv
<1> QED BY <1>2, <1>3, <1>4, <1>5

\* How the database answers a put: with m, after the data of the change; the put
\* made the next version if m says so.
Answers(q, m) ==
    /\ Takes("put") /\ UNCHANGED <<repo, link>>
    /\ q \in Seq(Message) /\ \A i \in DOMAIN q : q[i].type = "data"
    /\ \A i \in DOMAIN q : q[i].version = server'.version
    /\ m.status = "ok" /\ server.subscribed => 1 \in DOMAIN q
    /\ m \in Message /\ m.type = "answer" /\ m.of = Head(up).of
    /\ down' = Append(down \o q, m)
    /\ server'.subscribed = server.subscribed
    /\ IF m.status = "ok"
       THEN /\ server'.version = server.version + 1
            /\ landedAt' = [n \in Ops |-> IF n \in m.of THEN server.version + 1
                                          ELSE landedAt[n]]
       ELSE server' = server /\ landedAt' = landedAt

\* Every put is answered so.
LEMMA PutShape ==
  ASSUME ClientInv, TakePut \/ RefusePut
  PROVE  \E q, m : Answers(q, m)
<1>1. PICK put : put = Head(up)
  OBVIOUS
<1>2. server \in ServerRecord /\ down \in Seq(Message)
  BY DEF ClientInv, ClientOk
<1>3. Takes("put") /\ UNCHANGED <<repo, link>>
  BY DEF TakePut, RefusePut
<1>4. put \in RequestMessage /\ put.type = "put"
  BY <1>1, <1>3, TakesOk
<1>5. put.of \in SUBSET Ops /\ put.value \in Nat
  BY <1>4 DEF RequestMessage
<1>6. CASE TakePut /\ put.hash \in {None, server.value}
  <2>1. PICK q : q = IF server.subscribed
                     THEN <<Data(put.value, server.version + 1)>> ELSE <<>>
    OBVIOUS
  <2>2. PICK m : m = Answer(put.of, "ok")
    OBVIOUS
  <2>3. PICK e : e = down \o q
    OBVIOUS
  <2>4. /\ q \in Seq(Message) /\ \A i \in DOMAIN q : q[i].type = "data"
        /\ \A i \in DOMAIN q : q[i].version = server.version + 1
        /\ server.subscribed => 1 \in DOMAIN q
    <3>1. server.version + 1 \in Nat
      BY <1>2 DEF ServerRecord
    <3>2. PICK x : x = Data(put.value, server.version + 1)
      OBVIOUS
    <3>3. x \in Message /\ x.type = "data" /\ x.version = server.version + 1
      BY <1>5, <3>1, <3>2 DEF Data, Message
    <3>4. q = <<>> \/ q = <<x>>
      BY <2>1, <3>2
    <3>5. q \in Seq(Message) /\ \A i \in DOMAIN q : q[i] = x
      BY <3>3, <3>4, OneOrNone
    <3>6. server.subscribed => 1 \in DOMAIN q
      BY <2>1
    <3> QED BY <3>3, <3>5, <3>6
  <2>5. m \in Message /\ m.type = "answer" /\ m.of = put.of /\ m.status = "ok"
    BY <1>5, <2>2 DEF Answer, Message
  <2>6. down' = Append(down \o q, m)
    <3>1. down' = down \o q \o <<m>>
      BY <1>1, <1>6, <2>1, <2>2 DEF TakePut
    <3>2. e \in Seq(Message)
      BY <1>2, <2>3, <2>4
    <3>3. Append(e, m) = e \o <<m>>
      BY <2>5, <3>2
    <3> QED BY <2>3, <3>1, <3>3
  <2>7. server' = [server EXCEPT !.value = put.value, !.version = @ + 1]
    BY <1>1, <1>6 DEF TakePut
  <2>8. server'.version = server.version + 1 /\ server'.subscribed = server.subscribed
    BY <1>2, <2>7 DEF ServerRecord
  <2>9. landedAt' = [n \in Ops |-> IF n \in put.of THEN server.version + 1
                                   ELSE landedAt[n]]
    BY <1>1, <1>6 DEF TakePut
  <2>10. Answers(q, m)
    BY <1>1, <1>3, <2>4, <2>5, <2>6, <2>8, <2>9 DEF Answers
  <2> QED BY <2>10
<1>7. CASE RefusePut \/ put.hash \notin {None, server.value}
  <2>1. PICK status : /\ status \in {"datastale", "denied"}
                      /\ down' = Append(down, Answer(put.of, status))
    BY <1>1, <1>7 DEF TakePut, RefusePut
  <2>2. PICK m : m = Answer(put.of, status)
    OBVIOUS
  <2>3. PICK q : q = <<>>
    OBVIOUS
  <2>4. /\ m \in Message /\ m.type = "answer" /\ m.of = put.of /\ m.status # "ok"
    BY <1>5, <2>1, <2>2 DEF Answer, Message
  <2>5. /\ q \in Seq(Message) /\ \A i \in DOMAIN q : q[i].type = "data"
        /\ down \o q = down /\ DOMAIN q = {}
    BY <1>2, <2>3
  <2>6. server' = server /\ landedAt' = landedAt
    BY <1>1, <1>7 DEF TakePut, RefusePut, historyVars
  <2>7. Answers(q, m)
    BY <1>1, <1>3, <2>1, <2>2, <2>4, <2>5, <2>6 DEF Answers
  <2> QED BY <2>7
<1> QED BY <1>6, <1>7

\* What the credit of another client changes.
Credits(q) ==
    /\ UNCHANGED <<repo, link, up, landedAt>>
    /\ q \in Seq(Message) /\ \A i \in DOMAIN q : q[i].type = "data"
    /\ down' = down \o q
    /\ ~server.subscribed => q = <<>>
    /\ \A i \in DOMAIN q : q[i].version = server.version + 1
    /\ server'.subscribed = server.subscribed
    /\ server'.version = server.version + 1

\* It is told to those who listen.
LEMMA CreditShape ==
  ASSUME ClientInv, CreditByOther
  PROVE  \E q : Credits(q)
<1>1. server \in ServerRecord /\ down \in Seq(Message)
  BY DEF ClientInv, ClientOk
<1>2. PICK x : x = Data(server.value + 1, server.version + 1)
  OBVIOUS
<1>3. PICK q : q = IF server.subscribed THEN <<x>> ELSE <<>>
  OBVIOUS
<1>4. x \in Message /\ x.type = "data" /\ x.version = server.version + 1
  <2>1. server.value + 1 \in Nat /\ server.version + 1 \in Nat
    BY <1>1 DEF ServerRecord
  <2> QED BY <1>2, <2>1 DEF Data, Message
<1>5. /\ q \in Seq(Message) /\ \A i \in DOMAIN q : q[i].type = "data"
      /\ \A i \in DOMAIN q : q[i].version = server.version + 1
  <2>1. q = <<>> \/ q = <<x>>
    BY <1>3
  <2>2. q \in Seq(Message) /\ \A i \in DOMAIN q : q[i] = x
    BY <1>4, <2>1, OneOrNone
  <2> QED BY <1>4, <2>2
<1>6. down' = down \o q
  <2>1. CASE server.subscribed
    BY <1>1, <1>2, <1>3, <1>4, <2>1 DEF CreditByOther
  <2>2. CASE ~server.subscribed
    BY <1>1, <1>3, <2>2 DEF CreditByOther
  <2> QED BY <2>1, <2>2
<1>7. server'.version = server.version + 1 /\ server'.subscribed = server.subscribed
  BY <1>1 DEF CreditByOther, ServerRecord
<1>8. UNCHANGED <<repo, link, up, landedAt>>
  BY DEF CreditByOther, historyVars
<1>9. Credits(q)
  BY <1>3, <1>5, <1>6, <1>7, <1>8 DEF Credits
<1> QED BY <1>9

\* Neither is about a listen.
LEMMA AnswersListens ==
  ASSUME ClientInv, ListenInv, TakePut \/ RefusePut \/ CreditByOther
  PROVE  ListenInv'
<1>1. down \in Seq(Message)
  BY DEF ClientInv, ClientOk
<1>2. CASE TakePut \/ RefusePut
  <2>1. PICK q, m : Answers(q, m)
    BY <1>2, PutShape
  <2>2. PICK e : e = down \o q
    OBVIOUS
  <2>3. PICK d : d = Append(e, m)
    OBVIOUS
  <2>4. /\ Takes("put") /\ UNCHANGED link /\ server'.subscribed = server.subscribed
        /\ q \in Seq(Message) /\ m \in Message
        /\ \A i \in DOMAIN q : ~Listens(q[i])
        /\ ~Listens(m) /\ down' = d
    BY <2>1, <2>2, <2>3 DEF Answers, Listens
  <2>5. e \in Seq(Message) /\ Count(e) = Count(down)
    <3>1. e \in Seq(Message)
      BY <1>1, <2>2, <2>4
    <3> QED BY <1>1, <2>2, <2>4, <3>1, CountQuiet
  <2>6. Count(d) = Count(e)
    BY <2>3, <2>4, <2>5, TellsListens
  <2>7. Count(up) = Count(up') /\ link.conn # "down"
    BY <2>4, TakesListens
  <2> QED BY <2>4, <2>5, <2>6, <2>7 DEF ListenInv
<1>3. CASE CreditByOther
  <2>1. PICK q : Credits(q)
    BY <1>3, CreditShape
  <2>2. /\ UNCHANGED <<link, up>> /\ server'.subscribed = server.subscribed
        /\ q \in Seq(Message)
        /\ \A i \in DOMAIN q : ~Listens(q[i])
        /\ down' = down \o q /\ (~server.subscribed => q = <<>>)
    BY <2>1 DEF Credits, Listens
  <2>3. PICK d : d = down \o q
    OBVIOUS
  <2>4. Count(d) = Count(down)
    BY <1>1, <2>2, <2>3, CountQuiet
  <2>5. ~server.subscribed /\ down = <<>> => d = <<>>
    BY <2>2, <2>3
  <2> QED BY <2>2, <2>3, <2>4, <2>5 DEF ListenInv
<1> QED BY <1>2, <1>3

\* Nothing is counted at first.
LEMMA InitListens == Init => ListenInv
<1> SUFFICES ASSUME Init PROVE ListenInv
  OBVIOUS
<1>1. PICK e : e = <<>>
  OBVIOUS
<1>2. Count(e) = 0
  <2>1. e \in Seq(Message) /\ \A i \in DOMAIN e : ~Listens(e[i])
    BY <1>1
  <2> QED BY <2>1, CountType
<1>3. /\ up = e /\ down = e /\ ~server.subscribed
      /\ link.unacked = 0
  BY <1>1 DEF Init
<1> QED BY <1>1, <1>2, <1>3 DEF ListenInv

\* Every step keeps the count.
LEMMA StepListens == ClientInv /\ ListenInv /\ [Next]_vars => ListenInv'
<1> SUFFICES ASSUME ClientInv, ListenInv, [Next]_vars PROVE ListenInv'
  OBVIOUS
<1>1. CASE UNCHANGED vars
  <2>1. UNCHANGED <<link, up, down, server>>
    BY <1>1 DEF vars, networkVars
  <2> QED BY <2>1 DEF ListenInv
<1>2. CASE \E n \in Ops : Transact(n)
  <2>1. PICK n \in Ops : Transact(n)
    BY <1>2
  <2>2. PICK r : Handled(r, link, {}, {})
    BY <2>1, TransactShape
  <2>3. UNCHANGED <<down, server>>
    BY <2>1 DEF Transact
  <2> QED BY <2>2, <2>3, HandledListens
<1>3. CASE \E n \in Ops, v \in Values : Overwrite(n, v)
  <2>1. PICK n \in Ops, v \in Values : Overwrite(n, v)
    BY <1>3
  <2>2. PICK r : Handled(r, link, {n}, {})
    BY <2>1, OverwriteShape
  <2>3. UNCHANGED <<down, server>>
    BY <2>1 DEF Overwrite
  <2> QED BY <2>2, <2>3, HandledListens
<1>4. CASE Read
  BY <1>4, ReadListens
<1>5. CASE ConnectWithToken \/ ConnectWithoutToken
  BY <1>5, TokenListens, ConnectListens
<1>6. CASE \E i \in DOMAIN link.due : Callback(i)
  <2>1. PICK i \in DOMAIN link.due : Callback(i)
    BY <1>6
  <2>2. PICK l : l = Passed(link, i)
    OBVIOUS
  <2>3. PICK r, f : Handled(r, l, {}, f)
    BY <2>1, <2>2, CallbackShape
  <2>4. l.conn = link.conn /\ l.unacked = link.unacked
    BY <2>2, PassedType
  <2>5. UNCHANGED <<down, server>>
    BY <2>1 DEF Callback
  <2> QED BY <2>3, <2>4, <2>5, HandledListens
<1>7. CASE Receive
  BY <1>7, ConnectListens, DataListens, ReceiveListens DEF Receive
<1>8. CASE Take
  BY <1>8, TakeListens, AnswersListens DEF Take
<1>9. CASE Failure
  BY <1>9, DropListens, AnswersListens DEF Failure
<1>10. CASE CreditByOther
  BY <1>10, AnswersListens
<1> QED BY <1>1, <1>2, <1>3, <1>4, <1>5, <1>6, <1>7, <1>8, <1>9, <1>10
       DEF Next, User, Network

\* How much of the bounds is used, and what is only observed.
RestTypes ==
    /\ spent \in [others : 0 .. MaxOthers, reads : 0 .. MaxReads,
                  failures : 0 .. MaxFailures]
    /\ landedAt \in [Ops -> Nat]
    /\ astray \in BOOLEAN

\* They keep their types.
LEMMA InitRest == Init => RestTypes
<1> SUFFICES ASSUME Init PROVE RestTypes
  OBVIOUS
<1>1. spent = [others |-> 0, reads |-> 0, failures |-> 0]
  BY DEF Init
<1>2. 0 \in 0 .. MaxOthers /\ 0 \in 0 .. MaxReads /\ 0 \in 0 .. MaxFailures
  BY BoundsAssumption
<1>3. astray \in BOOLEAN
  BY DEF Init
<1>4. landedAt \in [Ops -> Nat]
  BY DEF Init
<1> QED BY <1>1, <1>2, <1>3, <1>4 DEF RestTypes

\* Every step keeps them.
LEMMA StepRest == ClientInv /\ RestTypes /\ [Next]_vars => RestTypes'
<1> SUFFICES ASSUME ClientInv, RestTypes, [Next]_vars PROVE RestTypes'
  OBVIOUS
<1>1. /\ server \in ServerRecord /\ server.version + 1 \in Nat
  BY DEF ClientInv, ServerRecord
<1>2. spent' \in [others : 0 .. MaxOthers, reads : 0 .. MaxReads,
                  failures : 0 .. MaxFailures]
  <2>0. /\ spent = [others |-> spent.others, reads |-> spent.reads,
                    failures |-> spent.failures]
        /\ spent.others \in 0 .. MaxOthers /\ spent.reads \in 0 .. MaxReads
        /\ spent.failures \in 0 .. MaxFailures
        /\ MaxOthers \in Nat /\ MaxReads \in Nat /\ MaxFailures \in Nat
    BY BoundsAssumption DEF RestTypes
  <2>1. CASE spent' = spent
    BY <2>1 DEF RestTypes
  <2>2. CASE Read
    BY <2>0, <2>2 DEF Read
  <2>3. CASE Drop \/ RefusePut
    BY <2>0, <2>3 DEF Drop, RefusePut
  <2>4. CASE CreditByOther
    BY <2>0, <2>4 DEF CreditByOther
  <2>5. Read \/ Drop \/ RefusePut \/ CreditByOther \/ spent' = spent
    BY Zenon DEF Next, User, Network, Failure, Transact, Overwrite, ConnectWithToken,
           ConnectWithoutToken, Callback, Receive, ReceiveAuthed, ReceiveData,
           ReceiveElsewhere, ReceiveListened, ReceiveAnswer, Take, TakeAuth, TakeWatch,
           TakeUnwatch, TakeRead, TakePut, vars
  <2> QED BY <2>1, <2>2, <2>3, <2>4, <2>5
<1>3. landedAt' \in [Ops -> Nat]
  <2>1. CASE landedAt' = landedAt
    BY <2>1 DEF RestTypes
  <2>2. CASE TakePut
    <3>1. PICK q, m : Answers(q, m)
      BY <2>2, PutShape
    <3>2. \/ landedAt' = landedAt
          \/ landedAt' = [n \in Ops |-> IF n \in m.of THEN server.version + 1
                                        ELSE landedAt[n]]
      BY <3>1 DEF Answers
    <3> QED BY <1>1, <3>2 DEF RestTypes
  <2>3. TakePut \/ landedAt' = landedAt
    BY Zenon DEF Next, User, Network, Failure, Read, Transact, Overwrite, ConnectWithToken,
           ConnectWithoutToken, Callback, Receive, ReceiveAuthed, ReceiveData,
           ReceiveElsewhere, ReceiveListened, ReceiveAnswer, Take, TakeAuth, TakeWatch,
           TakeUnwatch, TakeRead, Drop, RefusePut, CreditByOther, vars, historyVars
  <2> QED BY <2>1, <2>2, <2>3
<1>4. astray' \in BOOLEAN
  <2>1. CASE astray' = astray
    BY <2>1 DEF RestTypes
  <2>2. CASE ReceiveAnswer
    BY <2>2, Zenon DEF ReceiveAnswer
  <2>3. CASE \E n \in Ops, v \in Values : Overwrite(n, v)
    BY <2>3, Zenon DEF Overwrite
  <2>4. \/ ReceiveAnswer \/ astray' = astray
        \/ \E n \in Ops, v \in Values : Overwrite(n, v)
    BY Zenon DEF Next, User, Network, Failure, Read, Transact, ConnectWithToken,
           ConnectWithoutToken, Callback, Receive, ReceiveAuthed, ReceiveData,
           ReceiveElsewhere, ReceiveListened, Take, TakeAuth, TakeWatch,
           TakeUnwatch, TakeRead, TakePut, Drop, RefusePut, CreditByOther, vars,
           historyVars
  <2> QED BY <2>1, <2>2, <2>3, <2>4
<1> QED BY <1>2, <1>3, <1>4 DEF RestTypes

\* The variables keep their types, and the count of unanswered listens that
\* FPersistentConnection keeps is never negative: every answer to a listen is one it
\* waits for, across any losses of the connection.
THEOREM TypeCorrect == Spec => []TypeOK
<1>1. ASSUME ClientInv, ListenInv, RestTypes PROVE TypeOK
  <2>1. /\ repo \in RepoRecord /\ repo.posted = <<>> /\ link \in LinkRecord
        /\ up \in Seq(RequestMessage) /\ down \in Seq(Message)
        /\ server \in ServerRecord /\ landed \in [Ops -> Nat]
    BY <1>1 DEF ClientInv, ClientOk, RepoOk
  <2>2. RepoTypes
    BY <2>1 DEF RepoTypes, RepoRecord
  <2>3. link.unacked \in Nat
    <3>1. Count(up) \in Nat /\ Count(down) \in Nat
      BY <2>1, CountType
    <3> QED BY <1>1, <3>1 DEF ListenInv
  <2>4. LinkTypes
    BY <2>1, <2>3 DEF LinkTypes, LinkRecord
  <2> QED BY <1>1, <2>1, <2>2, <2>4 DEF TypeOK, RestTypes, ServerRecord
<1>2. Init => ClientInv /\ ListenInv /\ RestTypes
  BY InitInv, InitListens, InitRest
<1>3. ClientInv /\ ListenInv /\ RestTypes /\ [Next]_vars
      => (ClientInv /\ ListenInv /\ RestTypes)'
  BY StepInv, StepListens, StepRest
<1> QED BY <1>1, <1>2, <1>3, PTL DEF Spec

-----------------------------------------------------------------------------
(* The stream of puts.  While writes can be sent, one request or one answer *)
(* travels for each outstanding put, and in their order.                    *)

Bearing(m) == m.type \in {"put", "answer"}
Borne(q, f) == \E k \in DOMAIN q : Bearing(q[k]) /\ q[k].of = f
Covered(p, q) ==
    \A k \in DOMAIN q : Bearing(q[k]) => \E i \in DOMAIN p : p[i].of = q[k].of
Pair(p, q, k, i) == Bearing(q[k]) /\ p[i].of = q[k].of
Ordered(p, q) ==
    \A k, x \in DOMAIN q : \A i, j \in DOMAIN p :
        Pair(p, q, k, i) /\ Pair(p, q, x, j) => (k < x <=> i < j)
Ahead(p, d, u) ==
    \A k \in DOMAIN d, x \in DOMAIN u : \A i, j \in DOMAIN p :
        Pair(p, d, k, i) /\ Pair(p, u, x, j) => i < j

\* The puts p, with d on its way back and u on its way to the database.
Stream(p, d, u) ==
    /\ Covered(p, d) /\ Covered(p, u)
    /\ Ordered(p, d) /\ Ordered(p, u) /\ Ahead(p, d, u)
    /\ \A i \in DOMAIN p : Borne(d, p[i].of) \/ Borne(u, p[i].of)

\* s is q with messages that bear nothing after it.
Extends(s, q) ==
    /\ DOMAIN q \subseteq DOMAIN s
    /\ \A k \in DOMAIN q : s[k] = q[k]
    /\ \A k \in DOMAIN s : k \in DOMAIN q \/ ~Bearing(s[k])

\* What bears nothing can join either direction.
LEMMA StreamQuiet ==
  ASSUME NEW p, NEW d, NEW u, Stream(p, d, u), NEW e, Extends(e, d), NEW v, Extends(v, u)
  PROVE  Stream(p, e, v)
<1>1. Covered(p, e) /\ Covered(p, v)
  BY DEF Stream, Covered, Extends
<1>2. Ordered(p, e)
  <2>1. \A k \in DOMAIN e, i \in DOMAIN p : Pair(p, e, k, i) => k \in DOMAIN d /\ Pair(p, d, k, i)
    BY DEF Extends, Pair
  <2> QED BY <2>1 DEF Stream, Ordered
<1>3. Ordered(p, v)
  <2>1. \A k \in DOMAIN v, i \in DOMAIN p : Pair(p, v, k, i) => k \in DOMAIN u /\ Pair(p, u, k, i)
    BY DEF Extends, Pair
  <2> QED BY <2>1 DEF Stream, Ordered
<1>4. Ahead(p, e, v)
  <2>1. \A k \in DOMAIN e, i \in DOMAIN p : Pair(p, e, k, i) => k \in DOMAIN d /\ Pair(p, d, k, i)
    BY DEF Extends, Pair
  <2>2. \A k \in DOMAIN v, i \in DOMAIN p : Pair(p, v, k, i) => k \in DOMAIN u /\ Pair(p, u, k, i)
    BY DEF Extends, Pair
  <2> QED BY <2>1, <2>2 DEF Stream, Ahead
<1>5. \A f : (Borne(d, f) => Borne(e, f)) /\ (Borne(u, f) => Borne(v, f))
  BY DEF Extends, Borne
<1> QED BY <1>1, <1>2, <1>3, <1>4, <1>5 DEF Stream

\* Messages that bear nothing, joined.
LEMMA ExtendsJoin ==
  ASSUME NEW T, NEW q \in Seq(T), NEW x \in Seq(T),
         \A i \in DOMAIN x : ~Bearing(x[i]), NEW s, s = q \o x
  PROVE  s \in Seq(T) /\ Extends(s, q)
<1>1. /\ s \in Seq(T)
      /\ DOMAIN q \subseteq DOMAIN s
      /\ \A j \in DOMAIN q : s[j] = q[j]
      /\ \A j \in DOMAIN s : j \in DOMAIN q \/ \E i \in DOMAIN x : s[j] = x[i]
  BY JoinMembers
<1> QED BY <1>1 DEF Extends

\* t is q without its first message.
Drops(t, q) ==
    /\ 1 \in DOMAIN q
    /\ \A k \in DOMAIN t : k \in Nat \ {0} /\ k + 1 \in DOMAIN q /\ t[k] = q[k + 1]
    /\ \A k \in DOMAIN q : k # 1 => k - 1 \in DOMAIN t /\ t[k - 1] = q[k]

\* Tail drops it.
LEMMA DropsTail ==
  ASSUME NEW T, NEW q \in Seq(T), q # <<>>, NEW t, t = Tail(q)
  PROVE  t \in Seq(T) /\ Drops(t, q)
<1>1. /\ Len(q) \in Nat /\ Len(q) # 0 /\ DOMAIN q = 1 .. Len(q)
      /\ t \in Seq(T) /\ DOMAIN t = 1 .. Len(q) - 1
      /\ \A k \in DOMAIN t : t[k] = q[k + 1]
  OBVIOUS
<1> QED BY <1>1 DEF Drops

\* A first message that bears nothing leaves the stream to the client.
LEMMA StreamTailDown ==
  ASSUME NEW p, NEW d, NEW u, Stream(p, d, u), NEW e, Drops(e, d), ~Bearing(d[1])
  PROVE  Stream(p, e, u)
<1>1. \A k \in DOMAIN e, i \in DOMAIN p :
         Pair(p, e, k, i) => k \in Nat /\ k + 1 \in DOMAIN d /\ Pair(p, d, k + 1, i)
  BY DEF Drops, Pair
<1>2. Covered(p, e)
  BY DEF Stream, Covered, Drops
<1>3. Ordered(p, e)
  <2> SUFFICES ASSUME NEW k \in DOMAIN e, NEW x \in DOMAIN e, NEW i \in DOMAIN p,
                      NEW j \in DOMAIN p, Pair(p, e, k, i), Pair(p, e, x, j)
               PROVE  k < x <=> i < j
    BY DEF Ordered
  <2>1. k + 1 < x + 1 <=> i < j
    BY <1>1 DEF Stream, Ordered
  <2> QED BY <1>1, <2>1
<1>4. Ahead(p, e, u)
  BY <1>1 DEF Stream, Ahead
<1>5. \A f : Borne(d, f) => Borne(e, f)
  BY DEF Drops, Borne
<1> QED BY <1>2, <1>3, <1>4, <1>5 DEF Stream

\* The same of the stream to the database.
LEMMA StreamTailUp ==
  ASSUME NEW p, NEW d, NEW u, Stream(p, d, u), NEW v, Drops(v, u), ~Bearing(u[1])
  PROVE  Stream(p, d, v)
<1>1. \A k \in DOMAIN v, i \in DOMAIN p :
         Pair(p, v, k, i) => k \in Nat /\ k + 1 \in DOMAIN u /\ Pair(p, u, k + 1, i)
  BY DEF Drops, Pair
<1>2. Covered(p, v)
  BY DEF Stream, Covered, Drops
<1>3. Ordered(p, v)
  <2> SUFFICES ASSUME NEW k \in DOMAIN v, NEW x \in DOMAIN v, NEW i \in DOMAIN p,
                      NEW j \in DOMAIN p, Pair(p, v, k, i), Pair(p, v, x, j)
               PROVE  k < x <=> i < j
    BY DEF Ordered
  <2>1. k + 1 < x + 1 <=> i < j
    BY <1>1 DEF Stream, Ordered
  <2> QED BY <1>1, <2>1
<1>4. Ahead(p, d, v)
  BY <1>1 DEF Stream, Ahead
<1>5. \A f : Borne(u, f) => Borne(v, f)
  BY DEF Drops, Borne
<1> QED BY <1>2, <1>3, <1>4, <1>5 DEF Stream

\* s is q with m after it.
Adjoins(s, q, m) ==
    \E y \in DOMAIN s :
        /\ s[y] = m /\ y \notin DOMAIN q
        /\ \A k \in DOMAIN s : k = y \/ (k \in DOMAIN q /\ s[k] = q[k] /\ k < y)
        /\ \A k \in DOMAIN q : k \in DOMAIN s /\ s[k] = q[k]
        /\ y \in Nat

\* Append adjoins.
LEMMA AdjoinsAppend ==
  ASSUME NEW T, NEW q \in Seq(T), NEW m \in T, NEW s, s = Append(q, m)
  PROVE  s \in Seq(T) /\ Adjoins(s, q, m)
<1>1. /\ s \in Seq(T) /\ Len(q) \in Nat
      /\ DOMAIN q = 1 .. Len(q) /\ DOMAIN s = 1 .. Len(q) + 1
      /\ s[Len(q) + 1] = m
      /\ \A k \in 1 .. Len(q) : s[k] = q[k]
  OBVIOUS
<1>2. PICK y \in Nat : y = Len(q) + 1
  BY <1>1
<1>3. /\ y \in DOMAIN s /\ s[y] = m /\ y \notin DOMAIN q
      /\ \A k \in DOMAIN s : k = y \/ (k \in DOMAIN q /\ s[k] = q[k] /\ k < y)
      /\ \A k \in DOMAIN q : k \in DOMAIN s /\ s[k] = q[k]
  BY <1>1, <1>2
<1> QED BY <1>1, <1>3 DEF Adjoins

\* The database takes a request and answers it: the answer is the last of those
\* on their way back, and still ahead of the requests.
LEMMA StreamPass ==
  ASSUME NEW p, \A i \in DOMAIN p : i \in Nat, NEW d, \A k \in DOMAIN d : k \in Nat,
         NEW u, Stream(p, d, u), NEW v, Drops(v, u), Bearing(u[1]),
         NEW m, Bearing(m), m.of = u[1].of, NEW e, Adjoins(e, d, m)
  PROVE  Stream(p, e, v)
<1>1. \A k \in DOMAIN v, i \in DOMAIN p :
         Pair(p, v, k, i) => k \in Nat /\ k + 1 \in DOMAIN u /\ Pair(p, u, k + 1, i)
  BY DEF Drops, Pair
<1>2. PICK y \in DOMAIN e :
         /\ e[y] = m /\ y \notin DOMAIN d /\ y \in Nat
         /\ \A k \in DOMAIN e : k = y \/ (k \in DOMAIN d /\ e[k] = d[k] /\ k < y)
         /\ \A k \in DOMAIN d : k \in DOMAIN e /\ e[k] = d[k]
  BY DEF Adjoins
<1>3. 1 \in DOMAIN u
  BY DEF Drops
<1>4. \A k \in DOMAIN e, i \in DOMAIN p : Pair(p, e, k, i) =>
         \/ k \in DOMAIN d /\ k < y /\ Pair(p, d, k, i)
         \/ k = y /\ Pair(p, u, 1, i)
  BY <1>2 DEF Pair
<1>5. Covered(p, e) /\ Covered(p, v)
  <2>1. Covered(p, v)
    BY DEF Stream, Covered, Drops
  <2>2. Covered(p, e)
    BY <1>2, <1>3 DEF Stream, Covered
  <2> QED BY <2>1, <2>2
<1>6. Ordered(p, v)
  <2> SUFFICES ASSUME NEW k \in DOMAIN v, NEW x \in DOMAIN v, NEW i \in DOMAIN p,
                      NEW j \in DOMAIN p, Pair(p, v, k, i), Pair(p, v, x, j)
               PROVE  k < x <=> i < j
    BY DEF Ordered
  <2>1. k + 1 < x + 1 <=> i < j
    BY <1>1 DEF Stream, Ordered
  <2> QED BY <1>1, <2>1
<1>7. ASSUME NEW k \in DOMAIN d, NEW i \in DOMAIN p, NEW j \in DOMAIN p,
             Pair(p, d, k, i), Pair(p, u, 1, j)
      PROVE  i < j
  BY <1>3, <1>7 DEF Stream, Ahead
<1>8. ASSUME NEW i \in DOMAIN p, NEW j \in DOMAIN p, Pair(p, u, 1, i), Pair(p, u, 1, j)
      PROVE  ~(i < j)
  <2>1. 1 < 1 <=> i < j
    BY <1>3, <1>8 DEF Stream, Ordered
  <2> QED BY <2>1
<1>9. Ordered(p, e)
  <2> SUFFICES ASSUME NEW k \in DOMAIN e, NEW x \in DOMAIN e, NEW i \in DOMAIN p,
                      NEW j \in DOMAIN p, Pair(p, e, k, i), Pair(p, e, x, j)
               PROVE  k < x <=> i < j
    BY DEF Ordered
  <2>1. i \in Nat /\ j \in Nat
    OBVIOUS
  <2>2. CASE k \in DOMAIN d /\ Pair(p, d, k, i) /\ x \in DOMAIN d /\ Pair(p, d, x, j)
    BY <2>2 DEF Stream, Ordered
  <2>3. CASE k \in DOMAIN d /\ k < y /\ Pair(p, d, k, i) /\ x = y /\ Pair(p, u, 1, j)
    BY <1>7, <2>3
  <2>4. CASE k = y /\ Pair(p, u, 1, i) /\ x \in DOMAIN d /\ x < y /\ Pair(p, d, x, j)
    <3>1. j < i
      BY <1>7, <2>4
    <3>2. x \in Nat
      BY <2>4
    <3> QED BY <1>2, <2>1, <2>4, <3>1, <3>2
  <2>5. CASE k = y /\ Pair(p, u, 1, i) /\ x = y /\ Pair(p, u, 1, j)
    BY <1>2, <1>8, <2>5
  <2> QED BY <1>4, <2>2, <2>3, <2>4, <2>5
<1>10. Ahead(p, e, v)
  <2> SUFFICES ASSUME NEW k \in DOMAIN e, NEW x \in DOMAIN v, NEW i \in DOMAIN p,
                      NEW j \in DOMAIN p, Pair(p, e, k, i), Pair(p, v, x, j)
               PROVE  i < j
    BY DEF Ahead
  <2>1. /\ x \in Nat \ {0} /\ x + 1 \in DOMAIN u /\ Pair(p, u, x + 1, j)
    BY <1>1 DEF Drops
  <2>2. CASE k \in DOMAIN d /\ Pair(p, d, k, i)
    BY <2>1, <2>2 DEF Stream, Ahead
  <2>3. CASE k = y /\ Pair(p, u, 1, i)
    <3>1. 1 < x + 1 <=> i < j
      BY <1>3, <2>1, <2>3 DEF Stream, Ordered
    <3> QED BY <2>1, <3>1
  <2> QED BY <1>4, <2>2, <2>3
<1>11. ASSUME NEW i \in DOMAIN p PROVE Borne(e, p[i].of) \/ Borne(v, p[i].of)
  <2>1. CASE Borne(d, p[i].of)
    BY <1>2, <2>1 DEF Borne
  <2>2. CASE Borne(u, p[i].of)
    <3>1. PICK k \in DOMAIN u : Bearing(u[k]) /\ u[k].of = p[i].of
      BY <2>2 DEF Borne
    <3>2. CASE k = 1
      BY <1>2, <3>1, <3>2 DEF Borne
    <3>3. CASE k # 1
      BY <3>1, <3>3 DEF Borne, Drops
    <3> QED BY <3>2, <3>3
  <2> QED BY <2>1, <2>2 DEF Stream
<1> QED BY <1>5, <1>6, <1>9, <1>10, <1>11 DEF Stream

\* The first answer on its way back is to the first outstanding put, and to no
\* other: removing that one leaves the stream of the others.
LEMMA StreamAnswered ==
  ASSUME NEW p, NEW d, NEW u, Stream(p, d, u), Bearing(d[1]),
         \A i \in DOMAIN p : i \in Nat \ {0} /\ 1 \in DOMAIN p,
         \A k \in DOMAIN d : k \in Nat \ {0},
         NEW e, Drops(e, d)
  PROVE  /\ 1 \in DOMAIN p
         /\ \A i \in DOMAIN p : p[i].of = d[1].of <=> i = 1
         /\ \A t : Drops(t, p) => Stream(t, e, u)
<1>1. 1 \in DOMAIN d
  BY DEF Drops
<1>2. PICK i \in DOMAIN p : Pair(p, d, 1, i)
  BY <1>1 DEF Stream, Covered, Pair
<1>3. ASSUME NEW j \in DOMAIN p PROVE ~(j < i)
  <2>1. CASE Borne(d, p[j].of)
    <3>1. PICK k \in DOMAIN d : Pair(p, d, k, j)
      BY <2>1 DEF Borne, Pair
    <3>2. k < 1 <=> j < i
      BY <1>1, <1>2, <3>1 DEF Stream, Ordered
    <3>3. ~(k < 1)
      BY <3>1
    <3> QED BY <3>2, <3>3
  <2>2. CASE Borne(u, p[j].of)
    <3>1. PICK x \in DOMAIN u : Pair(p, u, x, j)
      BY <2>2 DEF Borne, Pair
    <3>2. i < j
      BY <1>1, <1>2, <3>1 DEF Stream, Ahead
    <3>3. i \in Nat /\ j \in Nat
      BY <1>2
    <3> QED BY <3>2, <3>3
  <2> QED BY <2>1, <2>2 DEF Stream
<1>4. 1 \in DOMAIN p /\ i = 1
  <2>1. 1 \in DOMAIN p /\ i \in Nat \ {0}
    BY <1>2
  <2>2. ~(1 < i)
    BY <1>3, <2>1
  <2> QED BY <2>1, <2>2
<1>5. ASSUME NEW j \in DOMAIN p, p[j].of = d[1].of PROVE j = 1
  <2>1. Pair(p, d, 1, j)
    BY <1>5 DEF Pair
  <2>2. 1 < 1 <=> 1 < j
    BY <1>1, <1>2, <1>4, <2>1 DEF Stream, Ordered
  <2>3. j \in Nat \ {0}
    OBVIOUS
  <2> QED BY <2>2, <2>3
<1>6. p[1].of = d[1].of
  BY <1>2, <1>4 DEF Pair
<1>7. ASSUME NEW t, Drops(t, p) PROVE Stream(t, e, u)
  <2>1. \A k \in DOMAIN e, j \in DOMAIN t : Pair(t, e, k, j) =>
            /\ k \in Nat /\ j \in Nat /\ k + 1 \in DOMAIN d /\ j + 1 \in DOMAIN p
            /\ Pair(p, d, k + 1, j + 1)
    BY <1>7 DEF Drops, Pair
  <2>2. \A k \in DOMAIN u, j \in DOMAIN t : Pair(t, u, k, j) =>
            /\ j \in Nat /\ j + 1 \in DOMAIN p /\ Pair(p, u, k, j + 1)
    BY <1>7 DEF Drops, Pair
  <2>3. Covered(t, e)
    <3> SUFFICES ASSUME NEW k \in DOMAIN e, Bearing(e[k])
                 PROVE  \E j \in DOMAIN t : t[j].of = e[k].of
      BY DEF Covered
    <3>1. /\ k \in Nat \ {0} /\ k + 1 \in DOMAIN d /\ e[k] = d[k + 1]
      BY DEF Drops
    <3>2. PICK j \in DOMAIN p : p[j].of = e[k].of
      BY <3>1 DEF Stream, Covered
    <3>3. ASSUME j = 1 PROVE FALSE
      <4>1. Pair(p, d, k + 1, 1) /\ Pair(p, d, 1, 1)
        BY <1>2, <1>4, <3>1, <3>2, <3>3 DEF Pair
      <4>2. 1 < k + 1 <=> 1 < 1
        BY <1>1, <1>4, <3>1, <4>1 DEF Stream, Ordered
      <4> QED BY <3>1, <4>2
    <3>4. j - 1 \in DOMAIN t /\ t[j - 1] = p[j]
      BY <1>7, <3>3 DEF Drops
    <3> QED BY <3>2, <3>4
  <2>4. Covered(t, u)
    <3> SUFFICES ASSUME NEW k \in DOMAIN u, Bearing(u[k])
                 PROVE  \E j \in DOMAIN t : t[j].of = u[k].of
      BY DEF Covered
    <3>1. PICK j \in DOMAIN p : p[j].of = u[k].of
      BY DEF Stream, Covered
    <3>2. 1 < j
      <4>1. Pair(p, d, 1, 1) /\ Pair(p, u, k, j)
        BY <1>2, <1>4, <3>1 DEF Pair
      <4> QED BY <1>1, <1>4, <4>1 DEF Stream, Ahead
    <3>3. j - 1 \in DOMAIN t /\ t[j - 1] = p[j]
      BY <1>7, <3>2 DEF Drops
    <3> QED BY <3>1, <3>3
  <2>5. Ordered(t, e)
    <3> SUFFICES ASSUME NEW k \in DOMAIN e, NEW x \in DOMAIN e, NEW a \in DOMAIN t,
                        NEW b \in DOMAIN t, Pair(t, e, k, a), Pair(t, e, x, b)
                 PROVE  k < x <=> a < b
      BY DEF Ordered
    <3>1. k + 1 < x + 1 <=> a + 1 < b + 1
      BY <2>1 DEF Stream, Ordered
    <3>2. k \in Nat /\ x \in Nat /\ a \in Nat /\ b \in Nat
      BY <2>1
    <3> QED BY <3>1, <3>2
  <2>6. Ordered(t, u)
    <3> SUFFICES ASSUME NEW k \in DOMAIN u, NEW x \in DOMAIN u, NEW a \in DOMAIN t,
                        NEW b \in DOMAIN t, Pair(t, u, k, a), Pair(t, u, x, b)
                 PROVE  k < x <=> a < b
      BY DEF Ordered
    <3>1. k < x <=> a + 1 < b + 1
      BY <2>2 DEF Stream, Ordered
    <3>2. a \in Nat /\ b \in Nat
      BY <2>2
    <3>3. a + 1 < b + 1 <=> a < b
      BY <3>2
    <3> QED BY <3>1, <3>3
  <2>7. Ahead(t, e, u)
    <3> SUFFICES ASSUME NEW k \in DOMAIN e, NEW x \in DOMAIN u, NEW a \in DOMAIN t,
                        NEW b \in DOMAIN t, Pair(t, e, k, a), Pair(t, u, x, b)
                 PROVE  a < b
      BY DEF Ahead
    <3>1. a + 1 < b + 1
      BY <2>1, <2>2 DEF Stream, Ahead
    <3>2. a \in Nat /\ b \in Nat
      BY <2>1, <2>2
    <3> QED BY <3>1, <3>2
  <2>8. ASSUME NEW j \in DOMAIN t PROVE Borne(e, t[j].of) \/ Borne(u, t[j].of)
    <3>1. j \in Nat \ {0} /\ j + 1 \in DOMAIN p /\ t[j] = p[j + 1]
      BY <1>7 DEF Drops
    <3>2. CASE Borne(d, t[j].of)
      <4>1. PICK k \in DOMAIN d : Bearing(d[k]) /\ d[k].of = t[j].of
        BY <3>2 DEF Borne
      <4>2. k # 1
        <5>1. j + 1 # 1
          BY <3>1
        <5> QED BY <1>5, <3>1, <4>1, <5>1
      <4> QED BY <4>1, <4>2 DEF Borne, Drops
    <3>3. Borne(d, t[j].of) \/ Borne(u, t[j].of)
      BY <3>1 DEF Stream
    <3> QED BY <3>2, <3>3
  <2> QED BY <2>3, <2>4, <2>5, <2>6, <2>7, <2>8 DEF Stream
<1> QED BY <1>4, <1>5, <1>6, <1>7

\* No put has the operations of another, nor of a new one.
Fresh(p, new) ==
    /\ \A i \in DOMAIN p, j \in DOMAIN new : p[i].of # new[j].of
    /\ \A i, j \in DOMAIN new : i # j => new[i].of # new[j].of

\* The requests of the puts new.
RequestsOf(q, new) ==
    /\ DOMAIN q = DOMAIN new
    /\ \A i \in DOMAIN new : Bearing(q[i]) /\ q[i].of = new[i].of

\* New puts and their requests go to the ends.
LEMMA StreamPost ==
  ASSUME NEW p \in Seq(Put), NEW new \in Seq(Put), NEW d,
         NEW u \in Seq(RequestMessage), NEW q \in Seq(RequestMessage),
         Stream(p, d, u), RequestsOf(q, new), Fresh(p, new),
         NEW s, s = p \o new, NEW w, w = u \o q
  PROVE  Stream(s, d, w)
<1>1. /\ Len(p) \in Nat /\ Len(new) \in Nat /\ DOMAIN p = 1 .. Len(p)
      /\ DOMAIN new = 1 .. Len(new) /\ DOMAIN s = 1 .. Len(p) + Len(new)
      /\ \A i \in 1 .. Len(p) : s[i] = p[i]
      /\ \A i \in 1 .. Len(new) : s[Len(p) + i] = new[i]
  OBVIOUS
<1>2. /\ Len(u) \in Nat /\ Len(q) \in Nat /\ DOMAIN u = 1 .. Len(u)
      /\ DOMAIN q = 1 .. Len(q) /\ DOMAIN w = 1 .. Len(u) + Len(q)
      /\ \A i \in 1 .. Len(u) : w[i] = u[i]
      /\ \A i \in 1 .. Len(q) : w[Len(u) + i] = q[i]
  OBVIOUS
<1>3. PICK a, b : a = Len(p) /\ b = Len(u)
  OBVIOUS
<1>4. \A i \in DOMAIN s : /\ i \in Nat
                          /\ \/ i \in DOMAIN p /\ i <= a /\ s[i] = p[i]
                             \/ i > a /\ i - a \in DOMAIN new /\ s[i] = new[i - a]
  <2>1. ASSUME NEW i \in DOMAIN s, i > a
        PROVE  i - a \in DOMAIN new /\ s[i] = new[i - a]
    <3>1. i - a \in 1 .. Len(new) /\ a + (i - a) = i
      BY <1>1, <1>3, <2>1
    <3> QED BY <1>1, <1>3, <3>1
  <2>2. \A i \in DOMAIN s : i \in Nat /\ (i > a \/ (i \in DOMAIN p /\ i <= a /\ s[i] = p[i]))
    BY <1>1, <1>3
  <2> QED BY <2>1, <2>2
<1>5. \A k \in DOMAIN w : /\ k \in Nat
                          /\ \/ k \in DOMAIN u /\ k <= b /\ w[k] = u[k]
                             \/ k > b /\ k - b \in DOMAIN q /\ w[k] = q[k - b]
  <2>1. ASSUME NEW i \in DOMAIN w, i > b
        PROVE  i - b \in DOMAIN q /\ w[i] = q[i - b]
    <3>1. i - b \in 1 .. Len(q) /\ b + (i - b) = i
      BY <1>2, <1>3, <2>1
    <3> QED BY <1>2, <1>3, <3>1
  <2>2. \A i \in DOMAIN w : i \in Nat /\ (i > b \/ (i \in DOMAIN u /\ i <= b /\ w[i] = u[i]))
    BY <1>2, <1>3
  <2> QED BY <2>1, <2>2
<1>6. /\ a \in Nat /\ b \in Nat
      /\ \A i \in DOMAIN p : i \in DOMAIN s /\ s[i] = p[i] /\ i \in Nat
      /\ \A k \in DOMAIN u : k \in DOMAIN w /\ w[k] = u[k] /\ k \in Nat
      /\ \A i \in DOMAIN new : i \in Nat /\ a + i \in DOMAIN s /\ s[a + i] = new[i]
      /\ \A i \in DOMAIN new : b + i \in DOMAIN w /\ w[b + i] = q[i]
  <2>1. /\ a \in Nat /\ \A i \in DOMAIN p : i \in DOMAIN s /\ s[i] = p[i] /\ i \in Nat
        /\ \A i \in DOMAIN new : i \in Nat /\ a + i \in DOMAIN s /\ s[a + i] = new[i]
    BY <1>1, <1>3
  <2>2. /\ b \in Nat /\ \A k \in DOMAIN u : k \in DOMAIN w /\ w[k] = u[k] /\ k \in Nat
        /\ \A i \in DOMAIN q : b + i \in DOMAIN w /\ w[b + i] = q[i]
    BY <1>2, <1>3
  <2>3. DOMAIN q = DOMAIN new
    BY DEF RequestsOf
  <2> QED BY <2>1, <2>2, <2>3
\* What travelled is of an older put.
<1>7. ASSUME NEW k \in DOMAIN d, NEW i \in DOMAIN s, Pair(s, d, k, i)
      PROVE  i \in DOMAIN p /\ Pair(p, d, k, i)
  <2>1. PICK j \in DOMAIN p : p[j].of = d[k].of
    BY <1>7 DEF Stream, Covered, Pair
  <2> QED BY <1>4, <1>7, <2>1 DEF Pair, Fresh
<1>8. ASSUME NEW k \in DOMAIN w, NEW i \in DOMAIN s, Pair(s, w, k, i)
      PROVE  \/ /\ k \in DOMAIN u /\ k <= b /\ i \in DOMAIN p /\ i <= a
                /\ Pair(p, u, k, i)
             \/ k > b /\ i > a /\ k - b = i - a
  <2>1. CASE k \in DOMAIN u /\ k <= b /\ w[k] = u[k]
    <3>1. PICK j \in DOMAIN p : p[j].of = u[k].of
      BY <1>8, <2>1 DEF Stream, Covered, Pair
    <3>2. i \in DOMAIN p /\ i <= a /\ s[i] = p[i]
      BY <1>4, <1>8, <2>1, <3>1 DEF Pair, Fresh
    <3> QED BY <1>8, <2>1, <3>2 DEF Pair
  <2>2. CASE k > b /\ k - b \in DOMAIN q /\ w[k] = q[k - b]
    <3>1. k - b \in DOMAIN new /\ s[i].of = new[k - b].of
      BY <1>8, <2>2 DEF RequestsOf, Pair
    <3>2. i > a /\ i - a \in DOMAIN new /\ s[i] = new[i - a]
      BY <1>4, <3>1 DEF Fresh
    <3> QED BY <2>2, <3>1, <3>2 DEF Fresh
  <2> QED BY <1>5, <2>1, <2>2
<1>9. Covered(s, d)
  <2> SUFFICES ASSUME NEW k \in DOMAIN d, Bearing(d[k])
               PROVE  \E i \in DOMAIN s : s[i].of = d[k].of
    BY DEF Covered
  <2>1. PICK i \in DOMAIN p : p[i].of = d[k].of
    BY DEF Stream, Covered
  <2>2. i \in DOMAIN s /\ s[i] = p[i]
    BY <1>6
  <2> QED BY <2>1, <2>2
<1>10. Covered(s, w)
  <2> SUFFICES ASSUME NEW k \in DOMAIN w, Bearing(w[k])
               PROVE  \E i \in DOMAIN s : s[i].of = w[k].of
    BY DEF Covered
  <2>1. CASE k \in DOMAIN u /\ w[k] = u[k]
    <3>1. PICK i \in DOMAIN p : p[i].of = u[k].of
      BY <2>1 DEF Stream, Covered
    <3> QED BY <1>6, <2>1, <3>1
  <2>2. CASE k - b \in DOMAIN q /\ w[k] = q[k - b]
    <3>1. k - b \in DOMAIN new /\ w[k].of = new[k - b].of
      BY <2>2 DEF RequestsOf
    <3>2. a + (k - b) \in DOMAIN s /\ s[a + (k - b)] = new[k - b]
      BY <1>6, <3>1
    <3> QED BY <3>1, <3>2
  <2> QED BY <1>5, <2>1, <2>2
<1>11. Ordered(s, d)
  BY <1>7 DEF Stream, Ordered
<1>12. Ordered(s, w)
  <2> SUFFICES ASSUME NEW k \in DOMAIN w, NEW x \in DOMAIN w, NEW i \in DOMAIN s,
                      NEW j \in DOMAIN s, Pair(s, w, k, i), Pair(s, w, x, j)
               PROVE  k < x <=> i < j
    BY DEF Ordered
  <2>1. k \in Nat /\ x \in Nat /\ i \in Nat /\ j \in Nat
    BY <1>4, <1>5
  <2>2. CASE /\ k \in DOMAIN u /\ i \in DOMAIN p /\ Pair(p, u, k, i)
             /\ x \in DOMAIN u /\ j \in DOMAIN p /\ Pair(p, u, x, j)
    BY <2>2 DEF Stream, Ordered
  <2>3. CASE k <= b /\ i <= a /\ x > b /\ j > a
    BY <1>6, <2>1, <2>3
  <2>4. CASE k > b /\ i > a /\ x <= b /\ j <= a
    BY <1>6, <2>1, <2>4
  <2>5. CASE k - b = i - a /\ x - b = j - a
    BY <1>6, <2>1, <2>5
  <2> QED BY <1>8, <2>2, <2>3, <2>4, <2>5
<1>13. Ahead(s, d, w)
  <2> SUFFICES ASSUME NEW k \in DOMAIN d, NEW x \in DOMAIN w, NEW i \in DOMAIN s,
                      NEW j \in DOMAIN s, Pair(s, d, k, i), Pair(s, w, x, j)
               PROVE  i < j
    BY DEF Ahead
  <2>1. i \in DOMAIN p /\ Pair(p, d, k, i) /\ i <= a /\ i \in Nat /\ j \in Nat
    <3>1. i \in DOMAIN p /\ Pair(p, d, k, i)
      BY <1>7
    <3> QED BY <1>1, <1>3, <1>4, <3>1
  <2>2. CASE x \in DOMAIN u /\ j \in DOMAIN p /\ Pair(p, u, x, j)
    BY <2>1, <2>2 DEF Stream, Ahead
  <2>3. CASE j > a
    BY <1>6, <2>1, <2>3
  <2> QED BY <1>8, <2>2, <2>3
<1>14. ASSUME NEW i \in DOMAIN s PROVE Borne(d, s[i].of) \/ Borne(w, s[i].of)
  <2>1. CASE i \in DOMAIN p /\ s[i] = p[i]
    <3>1. Borne(u, p[i].of) => Borne(w, p[i].of)
      BY <1>6 DEF Borne
    <3> QED BY <2>1, <3>1 DEF Stream
  <2>2. CASE i - a \in DOMAIN new /\ s[i] = new[i - a]
    <3>1. /\ b + (i - a) \in DOMAIN w /\ w[b + (i - a)] = q[i - a]
          /\ Bearing(q[i - a]) /\ q[i - a].of = new[i - a].of
      BY <1>6, <2>2 DEF RequestsOf
    <3> QED BY <2>2, <3>1 DEF Borne
  <2> QED BY <1>4, <2>1, <2>2
<1> QED BY <1>9, <1>10, <1>11, <1>12, <1>13, <1>14 DEF Stream

-----------------------------------------------------------------------------
(* The order in which overwrites are stored.                                *)

Over(r, m, n) == Is(r, m, "overwrite") /\ Is(r, n, "overwrite") /\ m < n
Told(q, n) == \E i \in DOMAIN q : n \in q[i].of /\ q[i].status = "ok"
Consented(d, n) ==
    \E i \in DOMAIN d : d[i].type = "answer" /\ n \in d[i].of /\ d[i].status = "ok"

\* The database's consent has reached the client.
Agreed(r, l, n) == Told(l.held, n) \/ Told(l.due, n) \/ r.report[n] = "ok"
Outstanding(p, m) == \E i \in DOMAIN p : m \in p[i].of

\* Overwrites are outstanding in the order they were called.
PutsInOrder(r, p) ==
    \A i, j \in DOMAIN p : \A m \in p[i].of, n \in p[j].of :
        Is(r, m, "overwrite") /\ Is(r, n, "overwrite") /\ i < j => m < n

\* An overwrite the database consented to was stored after the older ones, and
\* when the client knows, none of these is outstanding.
OrderOk(r, l, d, A) ==
    \A m, n \in Ops : Over(r, m, n) =>
        /\ Consented(d, n) => A[m] < A[n]
        /\ Agreed(r, l, n) => ~Outstanding(l.puts, m) /\ A[m] < A[n]

FlowInv ==
    /\ link.conn = "up" => Stream(link.puts, down, up)
    /\ PutsInOrder(repo, link.puts)
    /\ OrderOk(repo, link, down, landedAt)
    /\ \A n \in Ops : landedAt[n] <= server.version

\* What is outstanding, on its way or told was called before.
LEMMA AllCalled ==
  ASSUME ClientInv
  PROVE  /\ \A i \in DOMAIN link.puts : PutOk(repo, link.puts[i].of)
         /\ \A m : Outstanding(link.puts, m) => m \in Ops /\ ~Is(repo, m, "none")
         /\ \A n : Consented(down, n) => n \in Ops /\ ~Is(repo, n, "none")
         /\ \A n : Told(link.held, n) \/ Told(link.due, n) => n \in Ops /\ ~Is(repo, n, "none")
         /\ \A n \in Ops : repo.report[n] = "ok" => ~Is(repo, n, "none")
<1>1. /\ RepoOk(repo, Flying(link), landed) /\ NetOk(repo, link, landed, up, down)
      /\ FlyingOk(repo, Flying(link)) /\ \A n \in Ops : FateOk(repo, landed, n)
  BY DEF ClientInv, ClientOk, RepoOk
<1>2. /\ \A i \in DOMAIN link.puts : PutOk(repo, link.puts[i].of)
      /\ \A i \in DOMAIN link.held : PutOk(repo, link.held[i].of)
      /\ \A i \in DOMAIN link.due : PutOk(repo, link.due[i].of)
  BY <1>1, FlyingCalled
<1>3. \A f : PutOk(repo, f) => \A n \in f : n \in Ops /\ ~Is(repo, n, "none")
  BY DEF PutOk, Is
<1>4. \A n : Consented(down, n) => n \in Ops /\ ~Is(repo, n, "none")
  BY <1>1 DEF NetOk, MessageOk, Consented
<1>5. \A n \in Ops : repo.report[n] = "ok" => ~Is(repo, n, "none")
  BY <1>1 DEF FateOk
<1> QED BY <1>2, <1>3, <1>4, <1>5 DEF Outstanding, Told

\* What leaves FRepo alone and takes no put on keeps the order.
LEMMA MoveFlow ==
  ASSUME FlowInv, UNCHANGED <<repo, landedAt>>,
         NEW l, link' = l, NEW d, down' = d, NEW u, up' = u,
         server'.version \in {server.version, server.version + 1},
         server.version \in Nat, landedAt \in [Ops -> Nat],
         PutsInOrder(repo, l.puts),
         \A m : Outstanding(l.puts, m) => Outstanding(link.puts, m),
         \A n : Told(l.held, n) \/ Told(l.due, n) => Told(link.held, n) \/ Told(link.due, n),
         \A n : Consented(d, n) => Consented(down, n),
         l.conn = "up" => Stream(l.puts, d, u)
  PROVE  FlowInv'
<1>1. \A n : Agreed(repo, l, n) => Agreed(repo, link, n)
  BY DEF Agreed
<1>2. OrderOk(repo, l, d, landedAt)
  BY <1>1 DEF FlowInv, OrderOk
<1>3. \A n \in Ops : landedAt[n] <= server'.version
  <2>1. \A n \in Ops : landedAt[n] \in Nat /\ landedAt[n] <= server.version
    BY DEF FlowInv
  <2>2. CASE server'.version = server.version
    BY <2>1, <2>2
  <2>3. CASE server'.version = server.version + 1
    BY <2>1, <2>3
  <2> QED BY <2>2, <2>3
<1> QED BY <1>2, <1>3 DEF FlowInv

\* The newest operations are called after all others.
Latest(news) ==
    /\ \A n \in news : n \in Ops /\ Is(repo, n, "none")
    /\ \A n \in news, m \in Ops : ~Is(repo, m, "none") => m < n
    /\ \A m, n \in news : m = n

\* A handler of FRepo keeps the order: its new puts are of the newest overwrite or
\* of transactions, and it tells overwrites only what was due.
LEMMA HandledFlow ==
  ASSUME ClientInv, FlowInv, NEW r, NEW l, NEW news, NEW f, Handled(r, l, news, f),
         l.puts = link.puts, l.held = link.held, l.conn = link.conn,
         \A j \in DOMAIN l.due : \E k \in DOMAIN link.due : l.due[j] = link.due[k],
         Latest(news), f \cap news = {},
         \A n \in f : Is(repo, n, "overwrite") /\ r.report[n] = "ok" => Told(link.due, n),
         NEW d, down' = d, link.conn = "up" => Stream(link.puts, d, up),
         \A n : Consented(d, n) => Consented(down, n),
         UNCHANGED <<landedAt, server>>
  PROVE  FlowInv'
<1>1. /\ r \in RepoRecord /\ l \in LinkRecord /\ Settle(r, l)
      /\ PostedOk(r, Flying(l), landed)
      /\ up \in Seq(RequestMessage) /\ link.puts \in Seq(Put)
  BY DEF Handled, RepoOk, ClientInv, ClientOk, LinkRecord
<1>2. PICK new, before, requests, after : Settled(r, l, new, before, requests, after)
  BY <1>1, SettleShape
<1>3. /\ up' = up \o before \o requests \o after
      /\ before \in Seq(RequestMessage) /\ requests \in Seq(RequestMessage)
      /\ after \in Seq(RequestMessage)
      /\ \A i \in DOMAIN before : ~Bearing(before[i])
      /\ \A i \in DOMAIN after : ~Bearing(after[i])
      /\ link.conn = "up" => RequestsOf(requests, new)
      /\ link'.conn = link.conn /\ link'.held = link.held /\ link'.due = l.due
      /\ new \in Seq(Put) /\ link'.puts = link.puts \o new
      /\ DOMAIN new = DOMAIN r.posted
      /\ \A i \in DOMAIN new : new[i].of = r.posted[i].of
      /\ repo'.kind = r.kind /\ repo'.report = r.report
  BY <1>2 DEF Settled, Bearing, RequestsOf
<1>4. /\ \A i \in DOMAIN new : PutOk(r, new[i].of)
      /\ \A i \in DOMAIN new, j \in DOMAIN link.puts : link.puts[j].of \cap new[i].of = {}
      /\ \A i, j \in DOMAIN new : i # j => new[i].of \cap new[j].of = {}
  <2>1. \A j \in DOMAIN link.puts : link.puts[j].of \in Flying(l)
    BY DEF Flying, Of
  <2> QED BY <1>1, <1>3, <2>1 DEF PostedOk, NewPut, Distinct
<1>5. Fresh(link.puts, new)
  BY <1>4 DEF PutOk, Fresh
<1>6. PICK p : p = link.puts \o new
  OBVIOUS
<1>7. link.conn = "up" => Stream(p, d, up')
  <2> SUFFICES ASSUME link.conn = "up" PROVE Stream(p, d, up')
    OBVIOUS
  <2>1. PICK u : u = up \o before
    OBVIOUS
  <2>2. PICK w : w = u \o requests
    OBVIOUS
  <2>3. PICK x : x = w \o after
    OBVIOUS
  <2>4. u \in Seq(RequestMessage) /\ Extends(u, up)
    BY <1>1, <1>3, <2>1, ExtendsJoin
  <2>5. Extends(d, d)
    BY DEF Extends
  <2>6. Stream(link.puts, d, u)
    BY <2>4, <2>5, StreamQuiet
  <2>7. Stream(p, d, w) /\ w \in Seq(RequestMessage)
    <3>1. w \in Seq(RequestMessage)
      BY <1>3, <2>2, <2>4
    <3>2. RequestsOf(requests, new)
      BY <1>3
    <3>3. Stream(p, d, w)
      BY <1>1, <1>3, <1>5, <1>6, <2>2, <2>4, <2>6, <3>2, StreamPost
    <3> QED BY <3>1, <3>3
  <2>8. Extends(x, w)
    BY <1>3, <2>3, <2>7, ExtendsJoin
  <2>9. Stream(p, d, x)
    BY <2>5, <2>7, <2>8, StreamQuiet
  <2> QED BY <1>3, <2>1, <2>2, <2>3, <2>9
<1>8. /\ \A m \in Ops : Is(r, m, "overwrite") <=> Is(repo, m, "overwrite") \/ m \in news
      /\ \A m \in Ops \ f : Is(r, m, "overwrite") => r.report[m] = repo.report[m]
      /\ \A i \in DOMAIN new : \A m \in new[i].of : Is(r, m, "overwrite") => m \in news
  BY <1>3 DEF Handled
<1>9. /\ \A m : Outstanding(link.puts, m) => m \in Ops /\ ~Is(repo, m, "none")
      /\ \A n : Consented(down, n) => n \in Ops /\ ~Is(repo, n, "none")
      /\ \A n : Told(link.held, n) \/ Told(link.due, n) => n \in Ops /\ ~Is(repo, n, "none")
      /\ \A n \in Ops : repo.report[n] = "ok" => ~Is(repo, n, "none")
  BY AllCalled
<1>10. /\ \A n \in news : n \in Ops /\ Is(repo, n, "none")
       /\ \A n \in news, m \in Ops : ~Is(repo, m, "none") => m < n
       /\ \A m, n \in news : m = n
  BY DEF Latest
<1>11. /\ \A i \in DOMAIN p : \/ i \in DOMAIN link.puts /\ p[i] = link.puts[i]
                              \/ /\ i \notin DOMAIN link.puts /\ i - Len(link.puts) \in DOMAIN new
                                 /\ p[i] = new[i - Len(link.puts)]
       /\ \A i \in DOMAIN link.puts, j \in DOMAIN p :
             j \notin DOMAIN link.puts => i < j
       /\ \A i \in DOMAIN p : i \in Nat /\ Len(link.puts) \in Nat
  <2>1. /\ Len(link.puts) \in Nat /\ Len(new) \in Nat
        /\ DOMAIN link.puts = 1 .. Len(link.puts) /\ DOMAIN new = 1 .. Len(new)
        /\ DOMAIN p = 1 .. Len(link.puts) + Len(new)
        /\ \A i \in 1 .. Len(link.puts) : p[i] = link.puts[i]
        /\ \A i \in 1 .. Len(new) : p[Len(link.puts) + i] = new[i]
    BY <1>1, <1>3, <1>6
  <2>2. ASSUME NEW i \in DOMAIN p, i \notin DOMAIN link.puts
        PROVE  i - Len(link.puts) \in DOMAIN new /\ p[i] = new[i - Len(link.puts)]
    <3>1. PICK a, b : a = Len(link.puts) /\ b = Len(new)
      OBVIOUS
    <3>2. /\ a \in Nat /\ b \in Nat /\ DOMAIN p = 1 .. a + b /\ DOMAIN link.puts = 1 .. a
          /\ DOMAIN new = 1 .. b /\ \A x \in 1 .. b : p[a + x] = new[x]
      BY <2>1, <3>1
    <3>3. i - a \in 1 .. b /\ a + (i - a) = i
      BY <2>2, <3>2
    <3> QED BY <3>1, <3>2, <3>3
  <2> QED BY <2>1, <2>2
<1>12. PutsInOrder(repo', p)
  <2> SUFFICES ASSUME NEW i \in DOMAIN p, NEW j \in DOMAIN p, NEW m \in p[i].of,
                      NEW n \in p[j].of, Is(r, m, "overwrite"), Is(r, n, "overwrite"),
                      i < j
               PROVE  m < n
    BY <1>3 DEF PutsInOrder, Is
  <2>1. CASE i \in DOMAIN link.puts /\ j \in DOMAIN link.puts
    <3>1. p[i] = link.puts[i] /\ p[j] = link.puts[j]
      BY <1>11, <2>1
    <3>2. /\ m \in Ops /\ ~Is(repo, m, "none") /\ n \in Ops /\ ~Is(repo, n, "none")
      BY <1>9, <2>1, <3>1 DEF Outstanding
    <3>3. Is(repo, m, "overwrite") /\ Is(repo, n, "overwrite")
      BY <1>8, <1>10, <3>2
    <3>4. PutsInOrder(repo, link.puts)
      BY DEF FlowInv
    <3> QED BY <2>1, <3>1, <3>3, <3>4 DEF PutsInOrder
  <2>2. CASE i \in DOMAIN link.puts /\ j \notin DOMAIN link.puts
    <3>1. m \in Ops /\ ~Is(repo, m, "none")
      BY <1>9, <1>11, <2>2 DEF Outstanding
    <3>2. n \in news
      BY <1>8, <1>11, <2>2
    <3> QED BY <1>10, <3>1, <3>2
  <2>3. CASE i \notin DOMAIN link.puts /\ j \in DOMAIN link.puts
    <3>1. j < i /\ i \in Nat /\ j \in Nat
      BY <1>11, <2>3
    <3> QED BY <3>1
  <2>4. CASE i \notin DOMAIN link.puts /\ j \notin DOMAIN link.puts
    <3>1. PICK a \in DOMAIN new : a = i - Len(link.puts) /\ p[i] = new[a]
      BY <1>11, <2>4
    <3>2. PICK b \in DOMAIN new : b = j - Len(link.puts) /\ p[j] = new[b]
      BY <1>11, <2>4
    <3>3. a # b
      BY <1>11, <3>1, <3>2
    <3>4. m \in news /\ n \in news
      BY <1>8, <3>1, <3>2
    <3>5. m = n
      BY <1>10, <3>4
    <3> QED BY <1>4, <3>1, <3>2, <3>3, <3>5
  <2> QED BY <2>1, <2>2, <2>3, <2>4
<1>13. PICK k : k = link'
  OBVIOUS
<1>14. OrderOk(repo', k, d, landedAt)
  <2> SUFFICES ASSUME NEW m \in Ops, NEW n \in Ops, Is(r, m, "overwrite"),
                      Is(r, n, "overwrite"), m < n
               PROVE  /\ Consented(d, n) => landedAt[m] < landedAt[n]
                      /\ Agreed(repo', k, n) =>
                            ~Outstanding(p, m) /\ landedAt[m] < landedAt[n]
    BY <1>3, <1>6, <1>13 DEF OrderOk, Over, Is
  <2>1. Agreed(repo', k, n) => Agreed(repo, link, n)
    <3>1. \A x : Told(l.due, x) => Told(link.due, x)
      BY DEF Told
    <3>2. n \in f /\ r.report[n] = "ok" /\ Is(repo, n, "overwrite") => Told(link.due, n)
      OBVIOUS
    <3>3. n \in f => Is(repo, n, "overwrite")
      BY <1>8
    <3>4. r.report[n] = "ok" => repo.report[n] = "ok" \/ Told(link.due, n)
      BY <1>8, <3>2, <3>3
    <3>5. k.held = link.held /\ k.due = l.due /\ repo'.report = r.report
      BY <1>3, <1>13
    <3> QED BY <3>1, <3>4, <3>5 DEF Agreed
  <2>2. CASE n \in news
    <3>1. ~Consented(down, n) /\ ~Agreed(repo, link, n)
      BY <1>9, <1>10, <2>2 DEF Agreed
    <3> QED BY <2>1, <3>1
  <2>3. CASE n \notin news
    <3>1. Is(repo, n, "overwrite") /\ ~Is(repo, n, "none")
      BY <1>8, <2>3 DEF Is
    <3>2. m \notin news /\ Is(repo, m, "overwrite") /\ ~Is(repo, m, "none")
      <4>1. ASSUME m \in news PROVE FALSE
        <5>1. n < m
          BY <1>10, <3>1, <4>1
        <5>2. m \in Nat /\ n \in Nat
          BY MaxOpsType
        <5> QED BY <5>1, <5>2
      <4> QED BY <1>8, <4>1 DEF Is
    <3>3. /\ Consented(down, n) => landedAt[m] < landedAt[n]
          /\ Agreed(repo, link, n) =>
                ~Outstanding(link.puts, m) /\ landedAt[m] < landedAt[n]
      BY <3>1, <3>2 DEF FlowInv, OrderOk, Over
    <3>4. Outstanding(p, m) => Outstanding(link.puts, m)
      BY <1>8, <1>11, <3>2 DEF Outstanding
    <3> QED BY <2>1, <3>3, <3>4
  <2> QED BY <2>2, <2>3
<1>15. \A n \in Ops : landedAt[n] <= server.version
  BY DEF FlowInv
<1> QED BY <1>3, <1>6, <1>7, <1>12, <1>13, <1>14, <1>15 DEF FlowInv

\* The first answer of what is called next.
LEMMA NextIsLatest ==
  ASSUME ClientInv, NEW n \in Ops, IsNext(n)
  PROVE  Latest({n})
<1>1. CalledInOrder(repo)
  BY DEF ClientInv, ClientOk, RepoOk
<1>2. Is(repo, n, "none") /\ \A m \in Ops : m < n => ~Is(repo, m, "none")
  BY DEF IsNext, Called, Is
<1>3. ASSUME NEW m \in Ops, ~Is(repo, m, "none") PROVE m < n
  <2>1. m \in Nat /\ n \in Nat
    BY MaxOpsType
  <2>2. ~(n < m) /\ m # n
    BY <1>1, <1>2, <1>3 DEF CalledInOrder
  <2> QED BY <2>1, <2>2
<1> QED BY <1>2, <1>3 DEF Latest

\* runTransaction, set and update keep the order.
LEMMA CallFlow ==
  ASSUME ClientInv, FlowInv,
         \/ \E n \in Ops : Transact(n)
         \/ \E n \in Ops, v \in Values : Overwrite(n, v)
  PROVE  FlowInv'
<1>1. PICK d : d = down
  OBVIOUS
<1>2. link.conn = "up" => Stream(link.puts, d, up)
  BY <1>1 DEF FlowInv
<1>3. CASE \E n \in Ops : Transact(n)
  <2>1. PICK n \in Ops : Transact(n)
    BY <1>3
  <2>2. PICK r : Handled(r, link, {}, {})
    BY <2>1, TransactShape
  <2>3. down' = d /\ UNCHANGED <<landedAt, server>>
    BY <1>1, <2>1, Zenon DEF Transact, historyVars
  <2>4. Latest({})
    BY DEF Latest
  <2> QED BY <1>1, <1>2, <2>2, <2>3, <2>4, HandledFlow
<1>4. CASE \E n \in Ops, v \in Values : Overwrite(n, v)
  <2>1. PICK n \in Ops, v \in Values : Overwrite(n, v)
    BY <1>4
  <2>2. PICK r : Handled(r, link, {n}, {})
    BY <2>1, OverwriteShape
  <2>3. down' = d /\ UNCHANGED <<landedAt, server>> /\ IsNext(n)
    BY <1>1, <2>1, Zenon DEF Overwrite, historyVars
  <2>4. PICK news : news = {n}
    OBVIOUS
  <2>5. Latest(news) /\ Handled(r, link, news, {})
    BY <2>2, <2>3, <2>4, NextIsLatest
  <2> QED BY <1>1, <1>2, <2>3, <2>5, HandledFlow
<1> QED BY <1>3, <1>4

\* A callback tells FRepo what the database consented to before.
LEMMA CallbackFlow ==
  ASSUME ClientInv, FlowInv, NEW i \in DOMAIN link.due, Callback(i)
  PROVE  FlowInv'
<1>1. PICK l : l = Passed(link, i)
  OBVIOUS
<1>2. PICK f : f = link.due[i].of
  OBVIOUS
<1>3. PICK r : /\ Handled(r, l, {}, f)
               /\ \A n \in f : Is(r, n, "overwrite") => r.report[n] = link.due[i].status
               /\ r.kind = repo.kind
  BY <1>1, <1>2, CallbackShape
<1>4. /\ l.puts = link.puts /\ l.held = link.held /\ l.conn = link.conn
      /\ \A j \in DOMAIN l.due : \E k \in DOMAIN link.due : l.due[j] = link.due[k]
  BY <1>1, PassedType
<1>5. \A n \in f : Is(repo, n, "overwrite") /\ r.report[n] = "ok" => Told(link.due, n)
  BY <1>2, <1>3 DEF Told, Is
<1>6. PICK d : d = down
  OBVIOUS
<1>7. down' = d /\ UNCHANGED <<landedAt, server>>
  BY <1>6 DEF Callback, historyVars
<1>8. link.conn = "up" => Stream(link.puts, d, up)
  BY <1>6 DEF FlowInv
<1>9. Latest({})
  BY DEF Latest
<1> QED BY <1>3, <1>4, <1>5, <1>6, <1>7, <1>8, <1>9, HandledFlow

\* What arrives, and what else is on its way.
LEMMA ArrivesFlow ==
  ASSUME ClientInv, FlowInv, NEW type, Arrives(type)
  PROVE  /\ down' \in Seq(Message) /\ Drops(down', down)
         /\ down[1] = Head(down) /\ Head(down).type = type
         /\ \A n : Consented(down', n) => Consented(down, n)
         /\ type # "answer" /\ link.conn = "up" => Stream(link.puts, down', up)
         /\ \A k \in DOMAIN down : k \in Nat \ {0}
<1>1. /\ down # <<>> /\ down \in Seq(Message) /\ down' = Tail(down)
      /\ Head(down).type = type /\ Head(down) \in Message
  BY ArrivesOk DEF ClientInv, ClientOk, Arrives
<1>2. PICK t : t = Tail(down)
  OBVIOUS
<1>3. t \in Seq(Message) /\ Drops(t, down)
  BY <1>1, <1>2, DropsTail
<1>4. down[1] = Head(down) /\ \A k \in DOMAIN down : k \in Nat \ {0}
  BY <1>1
<1>5. \A n : Consented(t, n) => Consented(down, n)
  BY <1>3 DEF Consented, Drops
<1>6. ASSUME type # "answer", link.conn = "up" PROVE Stream(link.puts, t, up)
  <2>1. ~Bearing(down[1])
    BY <1>1, <1>4, <1>6 DEF Bearing, Message
  <2> QED BY <1>3, <1>6, <2>1, StreamTailDown DEF FlowInv
<1> QED BY <1>1, <1>2, <1>3, <1>4, <1>5, <1>6

\* The figure the database has told keeps the order.
LEMMA DataFlow ==
  ASSUME ClientInv, FlowInv, ReceiveData
  PROVE  FlowInv'
<1>1. PICK r : Handled(r, link, {}, {})
  BY DataShape
<1>2. Arrives("data") /\ UNCHANGED <<landedAt, server>>
  BY DEF ReceiveData, historyVars
<1>3. PICK d : d = down'
  OBVIOUS
<1>4. /\ down' = d /\ (link.conn = "up" => Stream(link.puts, d, up))
      /\ \A n : Consented(d, n) => Consented(down, n)
  BY <1>2, <1>3, ArrivesFlow
<1>5. Latest({})
  BY DEF Latest
<1> QED BY <1>1, <1>2, <1>4, <1>5, HandledFlow

\* Reading, the token, the data of another location and the answer to a listen move
\* no put.
LEMMA QuietFlow ==
  ASSUME ClientInv, FlowInv, landedAt \in [Ops -> Nat],
         Read \/ ConnectWithToken \/ ReceiveElsewhere \/ ReceiveListened
  PROVE  FlowInv'
<1>1. /\ link \in LinkRecord /\ up \in Seq(RequestMessage) /\ server.version \in Nat
      /\ PutsInOrder(repo, link.puts)
  BY DEF ClientInv, ClientOk, ServerRecord, FlowInv
<1>2. PICK l : l = link'
  OBVIOUS
<1>3. PICK d : d = down'
  OBVIOUS
<1>4. PICK u : u = up'
  OBVIOUS
<1>5. CASE Read
  <2>1. /\ l.puts = link.puts /\ l.held = link.held /\ l.due = link.due
        /\ l.conn = link.conn
    BY <1>1, <1>2, <1>5 DEF Read, LinkRecord
  <2>2. d = down /\ UNCHANGED <<repo, landedAt, server>>
    BY <1>3, <1>5 DEF Read, historyVars
  <2>3. PICK q : q = <<[type |-> "read"]>>
    OBVIOUS
  <2>4. q \in Seq(RequestMessage) /\ \A i \in DOMAIN q : ~Bearing(q[i])
    <3>1. [type |-> "read"] \in RequestMessage
      BY DEF RequestMessage
    <3> QED BY <2>3, <3>1 DEF Bearing
  <2>5. u = up \/ u = up \o q
    <3>1. u = up \/ u = Append(up, [type |-> "read"])
      BY <1>4, <1>5 DEF Read
    <3>2. PICK m : m = [type |-> "read"]
      OBVIOUS
    <3>3. m \in RequestMessage
      BY <3>2 DEF RequestMessage
    <3>4. Append(up, m) = up \o <<m>>
      BY <1>1, <3>3
    <3> QED BY <2>3, <3>1, <3>2, <3>4
  <2>6. Extends(u, up) /\ Extends(d, down)
    <3>1. u = up => Extends(u, up)
      BY DEF Extends
    <3>2. u = up \o q => Extends(u, up)
      BY <1>1, <2>4, ExtendsJoin
    <3>3. Extends(d, down)
      BY <2>2 DEF Extends
    <3> QED BY <2>5, <3>1, <3>2, <3>3
  <2>7. l.conn = "up" => Stream(l.puts, d, u)
    BY <2>1, <2>6, StreamQuiet DEF FlowInv
  <2>8. link' = l /\ down' = d /\ up' = u
    BY <1>2, <1>3, <1>4
  <2> QED BY <1>1, <2>1, <2>2, <2>7, <2>8, MoveFlow
<1>6. CASE ConnectWithToken
  <2>1. /\ l.puts = link.puts /\ l.held = link.held /\ l.due = link.due
        /\ l.conn # "up"
    BY <1>1, <1>2, <1>6 DEF ConnectWithToken, LinkRecord
  <2>2. d = down /\ UNCHANGED <<repo, landedAt, server>>
    BY <1>3, <1>6 DEF ConnectWithToken, historyVars
  <2>3. link' = l /\ down' = d /\ up' = u
    BY <1>2, <1>3, <1>4
  <2> QED BY <1>1, <2>1, <2>2, <2>3, MoveFlow
<1>7. CASE ReceiveElsewhere
  <2>1. /\ l.puts = link.puts /\ l.held = link.held /\ l.due = link.due
        /\ l.conn = link.conn
    BY <1>1, <1>2, <1>7 DEF ReceiveElsewhere, LinkRecord
  <2>2. Arrives("elsewhere") /\ u = up /\ UNCHANGED <<repo, landedAt, server>>
    BY <1>4, <1>7 DEF ReceiveElsewhere, historyVars
  <2>3. /\ \A n : Consented(d, n) => Consented(down, n)
        /\ link.conn = "up" => Stream(link.puts, d, up)
    BY <1>3, <2>2, ArrivesFlow
  <2>4. link' = l /\ down' = d /\ up' = u
    BY <1>2, <1>3, <1>4
  <2> QED BY <1>1, <2>1, <2>2, <2>3, <2>4, MoveFlow
<1>8. CASE ReceiveListened
  <2>1. /\ l.puts = link.puts /\ l.conn = link.conn
        /\ \/ l.held = link.held /\ l.due = link.due
           \/ l.held = <<>> /\ l.due = link.held
    BY <1>1, <1>2, <1>8 DEF ReceiveListened, Released, LinkRecord
  <2>2. Arrives("listened") /\ u = up /\ UNCHANGED <<repo, landedAt, server>>
    BY <1>4, <1>8 DEF ReceiveListened, historyVars
  <2>3. /\ \A n : Consented(d, n) => Consented(down, n)
        /\ link.conn = "up" => Stream(link.puts, d, up)
    BY <1>3, <2>2, ArrivesFlow
  <2>4. \A n : Told(l.held, n) \/ Told(l.due, n) => Told(link.held, n) \/ Told(link.due, n)
    <3>1. \A q, n : q = <<>> => ~Told(q, n)
      BY DEF Told
    <3> QED BY <2>1, <3>1
  <2>5. link' = l /\ down' = d /\ up' = u
    BY <1>2, <1>3, <1>4
  <2> QED BY <1>1, <2>1, <2>2, <2>3, <2>4, <2>5, MoveFlow
<1> QED BY <1>5, <1>6, <1>7, <1>8

\* Before everything is restored, neither a request nor an answer travels.
LEMMA NothingBears ==
  ASSUME ClientInv, link.conn # "up"
  PROVE  /\ \A k \in DOMAIN up : ~Bearing(up[k])
         /\ \A k \in DOMAIN down : ~Bearing(down[k])
BY DEF ClientInv, ClientOk, NetOk, MessageOk, Bearing

\* Restoring sends the request of every outstanding put, in their order.
LEMMA RestoreFlow ==
  ASSUME ClientInv, FlowInv, landedAt \in [Ops -> Nat],
         ConnectWithoutToken \/ ReceiveAuthed
  PROVE  FlowInv'
<1>1. /\ link \in LinkRecord /\ up \in Seq(RequestMessage) /\ server.version \in Nat
      /\ PutsInOrder(repo, link.puts) /\ link.puts \in Seq(Put)
      /\ LinkOk(repo, link, landed) /\ Distinct(link.puts)
      /\ down \in Seq(Message)
  BY DEF ClientInv, ClientOk, ServerRecord, FlowInv, LinkRecord, LinkOk
<1>2. RestoreState(link) /\ UNCHANGED <<repo, landedAt, server>>
  BY DEF ConnectWithoutToken, ReceiveAuthed, historyVars
<1>3. PICK d : d = down'
  OBVIOUS
<1>4. /\ link.conn # "up"
      /\ \A n : Consented(d, n) => Consented(down, n)
      /\ \A k \in DOMAIN d : ~Bearing(d[k])
  <2>1. CASE ConnectWithoutToken
    <3>1. link.conn = "down" /\ d = down
      BY <1>3, <2>1 DEF ConnectWithoutToken
    <3> QED BY <3>1, NothingBears
  <2>2. CASE ReceiveAuthed
    <3>1. Arrives("authed")
      BY <2>2 DEF ReceiveAuthed
    <3>2. link.conn # "up"
      BY <3>1, ArrivesOk DEF IsAuth
    <3>3. Drops(d, down) /\ \A n : Consented(d, n) => Consented(down, n)
      BY <1>3, <3>1, ArrivesFlow
    <3>4. \A k \in DOMAIN down : ~Bearing(down[k])
      BY <3>2, NothingBears
    <3> QED BY <3>2, <3>3, <3>4 DEF Drops
  <2> QED BY <2>1, <2>2
<1>5. \A k \in DOMAIN up : ~Bearing(up[k])
  BY <1>4, NothingBears
<1>6. PICK listens, requests : Restored(link, listens, requests)
  BY <1>1, <1>2, RestoreShape
<1>7. PICK p : p = link'.puts
  OBVIOUS
<1>8. /\ up' = up \o listens \o requests
      /\ listens \in Seq(RequestMessage) /\ requests \in Seq(RequestMessage)
      /\ \A i \in DOMAIN listens : ~Bearing(listens[i])
      /\ RequestsOf(requests, p)
      /\ p \in Seq(Put) /\ DOMAIN p = DOMAIN link.puts
      /\ \A i \in DOMAIN p : p[i].of = link.puts[i].of
      /\ link'.held = link.held /\ link'.due = link.due
  BY <1>6, <1>7 DEF Restored, Bearing, RequestsOf, LinkRecord
<1>9. PICK u : u = up \o listens
  OBVIOUS
<1>10. u \in Seq(RequestMessage) /\ \A k \in DOMAIN u : ~Bearing(u[k])
  <2>1. u \in Seq(RequestMessage) /\ Extends(u, up)
    BY <1>1, <1>8, <1>9, ExtendsJoin
  <2> QED BY <1>5, <2>1 DEF Extends
<1>11. PICK e : e = <<>> /\ e \in Seq(Put)
  <2>1. <<>> \in Seq(Put)
    OBVIOUS
  <2> QED BY <2>1
<1>12. Stream(e, d, u)
  <2>1. DOMAIN e = {}
    BY <1>11
  <2> QED BY <1>4, <1>10, <2>1 DEF Stream, Covered, Ordered, Ahead
<1>13. Fresh(e, p)
  <2>1. DOMAIN e = {}
    BY <1>11
  <2>2. \A i \in DOMAIN link.puts : PutOk(repo, link.puts[i].of)
    BY AllCalled
  <2>3. \A i \in DOMAIN p : p[i].of # {}
    BY <1>8, <2>2 DEF PutOk
  <2>4. \A i, j \in DOMAIN p : i # j => p[i].of \cap p[j].of = {}
    BY <1>1, <1>8 DEF Distinct
  <2> QED BY <2>1, <2>3, <2>4 DEF Fresh
<1>14. PICK w : w = u \o requests
  OBVIOUS
<1>15. PICK s : s = e \o p
  OBVIOUS
<1>16. s = p
  BY <1>8, <1>11, <1>15
<1>17. Stream(s, d, w)
  BY <1>8, <1>10, <1>11, <1>12, <1>13, <1>14, <1>15, StreamPost
<1>18. up' = w /\ Stream(p, d, up')
  BY <1>8, <1>9, <1>14, <1>16, <1>17
<1>19. PutsInOrder(repo, p)
  BY <1>1, <1>8 DEF PutsInOrder
<1>20. \A m : Outstanding(p, m) => Outstanding(link.puts, m)
  BY <1>8 DEF Outstanding
<1>21. PICK l : l = link'
  OBVIOUS
<1>22. /\ l.puts = p /\ l.held = link.held /\ l.due = link.due
       /\ link' = l /\ down' = d /\ up' = w
       /\ server'.version \in {server.version, server.version + 1}
  BY <1>2, <1>3, <1>7, <1>8, <1>18, <1>21
<1> QED BY <1>1, <1>2, <1>4, <1>18, <1>19, <1>20, <1>22, MoveFlow

\* The puts a lost connection keeps stay in their order.
LEMMA KeptOrder ==
  ASSUME NEW q \in Seq(Put), NEW s, s = Kept(q)
  PROVE  \E g \in [DOMAIN s -> DOMAIN q] :
            /\ \A j \in DOMAIN s : s[j] = q[g[j]]
            /\ \A j, k \in DOMAIN s : j < k => g[j] < g[k]
<1>1. PICK I : I = KeptAt(q)
  OBVIOUS
<1>2. PICK b \in Nat : b = Len(q) /\ DOMAIN q = 1 .. b
  OBVIOUS
<1>3. I \in SUBSET (1 .. b)
  BY <1>1, <1>2 DEF KeptAt
<1>4. PICK g : g = [k \in 1 .. Cardinality(I) |-> CHOOSE i \in I : Rank(i, I) = k]
  OBVIOUS
<1>5. DOMAIN s = 1 .. Cardinality(I) /\ DOMAIN g = 1 .. Cardinality(I)
  BY <1>1, <1>4 DEF Kept, KeptAt
<1>6. ASSUME NEW k \in 1 .. Cardinality(I)
      PROVE  g[k] \in I /\ Rank(g[k], I) = k /\ s[k] = q[g[k]]
  <2>1. \E i \in I : Rank(i, I) = k
    BY <1>3, RankIsTaken
  <2>2. PICK c : c = CHOOSE i \in I : Rank(i, I) = k
    OBVIOUS
  <2>3. c \in I /\ Rank(c, I) = k
    BY <2>1, <2>2
  <2>4. g[k] = c
    BY <1>4, <2>2, Zenon
  <2>5. s[k] = q[CHOOSE i \in I : Rank(i, I) = k]
    BY <1>1 DEF Kept, KeptAt
  <2> QED BY <2>2, <2>3, <2>4, <2>5, Zenon
<1>7. g \in [DOMAIN s -> DOMAIN q]
  <2>1. \A k \in 1 .. Cardinality(I) : g[k] \in 1 .. b
    BY <1>3, <1>6
  <2>2. g = [k \in 1 .. Cardinality(I) |-> g[k]]
    BY <1>4
  <2> QED BY <1>2, <1>5, <2>1, <2>2
<1>8. ASSUME NEW j \in DOMAIN s, NEW k \in DOMAIN s, j < k PROVE g[j] < g[k]
  <2>1. /\ g[j] \in I /\ Rank(g[j], I) = j
        /\ g[k] \in I /\ Rank(g[k], I) = k
    BY <1>5, <1>6, <1>8
  <2>2. g[j] \in Nat /\ g[k] \in Nat
    BY <1>3, <2>1
  <2>3. j \in Nat /\ k \in Nat
    BY <1>5
  <2>4. ASSUME g[k] < g[j] PROVE FALSE
    <3>1. PICK x \in I : x = g[k]
      BY <2>1
    <3>2. PICK y \in I : y = g[j]
      BY <2>1
    <3>3. Rank(x, I) < Rank(y, I)
      BY <1>3, <2>4, <3>1, <3>2, RankGrows
    <3> QED BY <1>8, <2>1, <2>3, <3>1, <3>2, <3>3
  <2>5. g[k] # g[j]
    BY <1>8, <2>1, <2>3
  <2> QED BY <2>2, <2>4, <2>5
<1> QED BY <1>5, <1>6, <1>7, <1>8

\* A lost connection tells nothing and leaves what is outstanding in its order.
LEMMA DropFlow ==
  ASSUME ClientInv, FlowInv, landedAt \in [Ops -> Nat], Drop
  PROVE  FlowInv'
<1>1. /\ link \in LinkRecord /\ server \in ServerRecord /\ link.puts \in Seq(Put)
      /\ PutsInOrder(repo, link.puts)
  BY DEF ClientInv, ClientOk, FlowInv, LinkRecord
<1>2. PICK s : s = Kept(link.puts)
  OBVIOUS
<1>3. PICK c : c = Cancelled(link.puts)
  OBVIOUS
<1>4. PICK l : l = link'
  OBVIOUS
<1>5. /\ l = [link EXCEPT !.conn = "down", !.puts = s, !.due = c, !.unacked = 0]
      /\ UNCHANGED <<repo, landedAt>> /\ down' = <<>>
      /\ server' = [server EXCEPT !.subscribed = FALSE]
  BY <1>2, <1>3, <1>4 DEF Drop, historyVars
<1>6. l.conn # "up" /\ l.puts = s /\ l.held = link.held /\ l.due = c
  BY <1>1, <1>5 DEF LinkRecord
<1>7. server'.version \in {server.version, server.version + 1} /\ server.version \in Nat
  BY <1>1, <1>5 DEF ServerRecord
<1>8. PICK g \in [DOMAIN s -> DOMAIN link.puts] :
         /\ \A j \in DOMAIN s : s[j] = link.puts[g[j]]
         /\ \A j, k \in DOMAIN s : j < k => g[j] < g[k]
  BY <1>1, <1>2, KeptOrder
<1>9. PutsInOrder(repo, s)
  BY <1>1, <1>8 DEF PutsInOrder
<1>10. \A m : Outstanding(s, m) => Outstanding(link.puts, m)
  BY <1>8 DEF Outstanding
<1>11. \A n : ~Told(c, n)
  <2>2. \A j \in DOMAIN c : c[j].status = "disconnect"
    BY <1>3 DEF Cancelled
  <2> QED BY <2>2 DEF Told
<1>12. PICK d : d = down'
  OBVIOUS
<1>13. PICK u : u = up'
  OBVIOUS
<1>14. \A n : ~Consented(d, n)
  BY <1>5, <1>12 DEF Consented
<1>15. /\ link' = l /\ down' = d /\ up' = u
       /\ PutsInOrder(repo, l.puts)
       /\ \A m : Outstanding(l.puts, m) => Outstanding(link.puts, m)
       /\ \A n : Told(l.held, n) \/ Told(l.due, n) => Told(link.held, n) \/ Told(link.due, n)
       /\ \A n : Consented(d, n) => Consented(down, n)
  BY <1>4, <1>6, <1>9, <1>10, <1>11, <1>12, <1>13, <1>14
<1> QED BY <1>5, <1>6, <1>7, <1>15, MoveFlow

\* Without the first message drops it.
LEMMA DropsWithout ==
  ASSUME NEW T, NEW q \in Seq(T), 1 \in DOMAIN q, NEW s, s = Without(q, 1)
  PROVE  Drops(s, q)
<1>1. PICK b \in Nat : b = Len(q) /\ DOMAIN q = 1 .. b
  OBVIOUS
<1>2. /\ DOMAIN s = 1 .. b - 1
      /\ \A j \in 1 .. b - 1 : s[j] = IF j < 1 THEN q[j] ELSE q[j + 1]
  BY <1>1 DEF Without
<1> QED BY <1>1, <1>2 DEF Drops

\* The answer of m is taken: its put, the first one, is no longer outstanding, and
\* it is held or about to be told.
Settles(l, m) ==
    /\ link' = l /\ Drops(l.puts, link.puts) /\ l.conn = link.conn
    /\ \A n : Told(l.held, n) \/ Told(l.due, n) =>
                 \/ Told(link.held, n) \/ Told(link.due, n)
                 \/ m.status = "ok" /\ n \in m.of

\* The first answer is to the first put.
LEMMA AnswerShape ==
  ASSUME ClientInv, ReceiveAnswer, NEW m, m = Head(down), 1 \in DOMAIN link.puts,
         \A i \in DOMAIN link.puts : link.puts[i].of = m.of <=> i = 1
  PROVE  \E l : Settles(l, m)
<1>1. /\ link \in LinkRecord /\ link.puts \in Seq(Put) /\ link.held \in Seq(AnswerRecord)
  BY DEF ClientInv, ClientOk, LinkRecord
<1>2. PICK answer : answer = [of |-> m.of, status |-> m.status]
  OBVIOUS
<1>3. PICK mine : mine = {j \in DOMAIN link.puts : link.puts[j].of = answer.of}
  OBVIOUS
<1>4. mine = {1} /\ (CHOOSE j \in mine : TRUE) = 1
  <2>1. mine = {1}
    BY <1>2, <1>3
  <2> QED BY <2>1
<1>5. PICK puts : puts = Without(link.puts, 1)
  OBVIOUS
<1>6. PICK rest : rest = [link EXCEPT !.puts = Without(@, CHOOSE j \in mine : TRUE)]
  OBVIOUS
<1>7. link' = IF HoldsBack(link) THEN [rest EXCEPT !.held = Append(@, answer)]
              ELSE [rest EXCEPT !.due = <<answer>>]
  BY <1>2, <1>3, <1>4, <1>6 DEF ReceiveAnswer
<1>8. rest = [link EXCEPT !.puts = puts]
  BY <1>4, <1>5, <1>6
<1>9. /\ rest.held = link.held /\ rest.puts = puts /\ rest.conn = link.conn
      /\ rest.due = link.due
      /\ rest = [conn |-> link.conn, puts |-> puts, held |-> link.held,
                 due |-> link.due, unacked |-> link.unacked, reading |-> link.reading]
  BY <1>1, <1>8 DEF LinkRecord
<1>10. PICK l : l = link'
  OBVIOUS
<1>11. /\ l.puts = puts /\ l.conn = link.conn
       /\ \/ l.held = Append(link.held, answer) /\ l.due = link.due
          \/ l.held = link.held /\ l.due = <<answer>>
  BY <1>7, <1>9, <1>10
<1>12. answer.of = m.of /\ answer.status = m.status
  BY <1>2
<1>13. ASSUME NEW q, q = Append(link.held, answer), NEW n, Told(q, n)
       PROVE  Told(link.held, n) \/ (m.status = "ok" /\ n \in m.of)
  <2>1. PICK b \in Nat : b = Len(link.held) /\ DOMAIN link.held = 1 .. b
    BY <1>1
  <2>2. /\ DOMAIN q = 1 .. b + 1 /\ q[b + 1] = answer
        /\ \A i \in 1 .. b : q[i] = link.held[i]
    BY <1>1, <1>13, <2>1
  <2>3. PICK i \in DOMAIN q : n \in q[i].of /\ q[i].status = "ok"
    BY <1>13 DEF Told
  <2>4. CASE i = b + 1
    BY <1>12, <2>2, <2>3, <2>4
  <2>5. CASE i # b + 1
    <3>1. i \in 1 .. b
      BY <2>1, <2>2, <2>5
    <3> QED BY <2>1, <2>2, <2>3, <3>1 DEF Told
  <2> QED BY <2>4, <2>5
<1>14. ASSUME NEW q, q = <<answer>>, NEW n, Told(q, n)
       PROVE  m.status = "ok" /\ n \in m.of
  BY <1>12, <1>14 DEF Told
<1>15. Drops(puts, link.puts)
  BY <1>1, <1>5, DropsWithout
<1>16. ASSUME NEW n, Told(l.held, n) \/ Told(l.due, n)
       PROVE  \/ Told(link.held, n) \/ Told(link.due, n)
              \/ m.status = "ok" /\ n \in m.of
  BY <1>11, <1>13, <1>14, <1>16
<1>17. Settles(l, m)
  BY <1>10, <1>11, <1>15, <1>16 DEF Settles
<1> QED BY <1>17

\* The answer to an overwrite reaches the client when no older one is outstanding.
LEMMA AnswerFlow ==
  ASSUME ClientInv, FlowInv, ReceiveAnswer
  PROVE  FlowInv'
<1>1. /\ link.puts \in Seq(Put) /\ down \in Seq(Message)
      /\ PutsInOrder(repo, link.puts) /\ OrderOk(repo, link, down, landedAt)
  BY DEF ClientInv, ClientOk, LinkRecord, FlowInv
<1>2. Arrives("answer") /\ UNCHANGED <<repo, up, server, landedAt>>
  BY DEF ReceiveAnswer
<1>3. PICK m : m = Head(down)
  OBVIOUS
<1>4. PICK d : d = down'
  OBVIOUS
<1>5. /\ Drops(d, down) /\ down[1] = m /\ m.type = "answer"
      /\ \A n : Consented(d, n) => Consented(down, n)
      /\ \A k \in DOMAIN down : k \in Nat \ {0}
  BY <1>2, <1>3, <1>4, ArrivesFlow
<1>6. link.conn = "up"
  BY <1>2, <1>3, <1>5, ArrivesOk DEF MessageOk
<1>7. /\ Stream(link.puts, down, up) /\ Bearing(down[1])
      /\ \A i \in DOMAIN link.puts : i \in Nat \ {0} /\ 1 \in DOMAIN link.puts
  BY <1>1, <1>5, <1>6 DEF FlowInv, Bearing
<1>8. /\ 1 \in DOMAIN link.puts
      /\ \A i \in DOMAIN link.puts : link.puts[i].of = m.of <=> i = 1
      /\ \A t : Drops(t, link.puts) => Stream(t, d, up)
  BY <1>5, <1>7, StreamAnswered
<1>9. PICK l : Settles(l, m)
  BY <1>3, <1>8, AnswerShape
<1>10. PICK p : p = l.puts
  OBVIOUS
<1>11. /\ link' = l /\ Drops(p, link.puts) /\ Stream(p, d, up)
       /\ \A n : Told(l.held, n) \/ Told(l.due, n) =>
                    \/ Told(link.held, n) \/ Told(link.due, n)
                    \/ m.status = "ok" /\ n \in m.of
  BY <1>8, <1>9, <1>10 DEF Settles
<1>12. \A i \in DOMAIN p : /\ i \in Nat \ {0} /\ i + 1 \in DOMAIN link.puts
                           /\ p[i] = link.puts[i + 1]
  BY <1>11 DEF Drops
<1>13. PutsInOrder(repo, p)
  <2> SUFFICES ASSUME NEW i \in DOMAIN p, NEW j \in DOMAIN p, NEW x \in p[i].of,
                      NEW n \in p[j].of, Is(repo, x, "overwrite"),
                      Is(repo, n, "overwrite"), i < j
               PROVE  x < n
    BY DEF PutsInOrder
  <2>1. PICK a \in DOMAIN link.puts : a = i + 1 /\ p[i] = link.puts[a]
    BY <1>12
  <2>2. PICK b \in DOMAIN link.puts : b = j + 1 /\ p[j] = link.puts[b]
    BY <1>12
  <2>3. a < b
    BY <1>12, <2>1, <2>2
  <2> QED BY <1>1, <2>1, <2>2, <2>3 DEF PutsInOrder
<1>14. \A x : Outstanding(p, x) => Outstanding(link.puts, x)
  BY <1>12 DEF Outstanding
<1>15. OrderOk(repo, l, d, landedAt)
  <2> SUFFICES ASSUME NEW x \in Ops, NEW n \in Ops, Over(repo, x, n)
               PROVE  /\ Consented(d, n) => landedAt[x] < landedAt[n]
                      /\ Agreed(repo, l, n) =>
                            ~Outstanding(p, x) /\ landedAt[x] < landedAt[n]
    BY <1>10 DEF OrderOk
  <2>1. /\ Consented(down, n) => landedAt[x] < landedAt[n]
        /\ Agreed(repo, link, n) =>
              ~Outstanding(link.puts, x) /\ landedAt[x] < landedAt[n]
    BY <1>1 DEF OrderOk
  <2>2. Agreed(repo, l, n) => Agreed(repo, link, n) \/ (m.status = "ok" /\ n \in m.of)
    BY <1>11 DEF Agreed
  <2>3. ASSUME m.status = "ok", n \in m.of
        PROVE  ~Outstanding(p, x) /\ landedAt[x] < landedAt[n]
    <3>1. Consented(down, n)
      BY <1>5, <2>3 DEF Consented, Drops
    <3>2. ASSUME Outstanding(p, x) PROVE FALSE
      <4>1. PICK i \in DOMAIN p : x \in p[i].of
        BY <3>2 DEF Outstanding
      <4>2. PICK a \in DOMAIN link.puts : 1 < a /\ x \in link.puts[a].of
        BY <1>12, <4>1
      <4>3. n \in link.puts[1].of
        BY <1>8, <2>3
      <4>4. n < x
        BY <1>1, <1>8, <4>2, <4>3 DEF PutsInOrder, Over
      <4>5. x < n /\ x \in Nat /\ n \in Nat
        BY MaxOpsType DEF Over
      <4> QED BY <4>4, <4>5
    <3> QED BY <2>1, <3>1, <3>2
  <2> QED BY <1>5, <1>14, <2>1, <2>2, <2>3
<1> QED BY <1>2, <1>4, <1>10, <1>11, <1>13, <1>15 DEF FlowInv

\* What the database takes, and what else is on its way.
LEMMA TakesFlow ==
  ASSUME ClientInv, FlowInv, NEW type, Takes(type)
  PROVE  /\ Drops(up', up) /\ up[1] = Head(up) /\ Head(up).type = type
         /\ type # "put" /\ link.conn = "up" => Stream(link.puts, down, up')
         /\ type = "put" => link.conn = "up"
<1>1. /\ up # <<>> /\ up \in Seq(RequestMessage) /\ up' = Tail(up)
      /\ Head(up).type = type /\ Head(up) \in RequestMessage
      /\ MessageOk(repo, link, landed, Head(up))
  BY TakesOk DEF ClientInv, ClientOk, Takes
<1>2. PICK t : t = Tail(up)
  OBVIOUS
<1>3. Drops(t, up)
  BY <1>1, <1>2, DropsTail
<1>4. up[1] = Head(up)
  BY <1>1
<1>5. ASSUME type # "put", link.conn = "up" PROVE Stream(link.puts, down, t)
  <2>1. ~Bearing(up[1])
    BY <1>1, <1>4, <1>5 DEF Bearing, RequestMessage
  <2> QED BY <1>3, <1>5, <2>1, StreamTailUp DEF FlowInv
<1>6. type = "put" => link.conn = "up"
  BY <1>1 DEF MessageOk
<1> QED BY <1>1, <1>2, <1>3, <1>4, <1>5, <1>6

\* The token, the listens and the reads the database takes move no put.
LEMMA TakeOtherFlow ==
  ASSUME ClientInv, FlowInv, landedAt \in [Ops -> Nat],
         TakeAuth \/ TakeWatch \/ TakeUnwatch \/ TakeRead
  PROVE  FlowInv'
<1>1. /\ server \in ServerRecord /\ down \in Seq(Message) /\ link \in LinkRecord
      /\ PutsInOrder(repo, link.puts)
  BY DEF ClientInv, ClientOk, FlowInv
<1>2. /\ UNCHANGED <<repo, link, landedAt>>
      /\ server' = server \/ server' = [server EXCEPT !.subscribed = TRUE]
           \/ server' = [server EXCEPT !.subscribed = FALSE]
  BY DEF TakeAuth, TakeWatch, TakeUnwatch, TakeRead, historyVars
<1>3. server'.version \in {server.version, server.version + 1} /\ server.version \in Nat
  BY <1>1, <1>2 DEF ServerRecord
<1>4. PICK type : type \in {"auth", "watch", "unwatch", "read"} /\ Takes(type)
  BY DEF TakeAuth, TakeWatch, TakeUnwatch, TakeRead
<1>5. link.conn = "up" => Stream(link.puts, down, up')
  BY <1>4, TakesFlow
<1>6. \E q \in Seq(Message) : /\ down' = down \o q
                              /\ \A i \in DOMAIN q : ~Bearing(q[i])
  <2>1. CASE TakeAuth
    <3>1. PICK x : x = [type |-> "authed"]
      OBVIOUS
    <3>2. x \in Message /\ ~Bearing(x)
      BY <3>1 DEF Message, Bearing
    <3>3. PICK q : q = <<x>>
      OBVIOUS
    <3>4. q \in Seq(Message) /\ \A i \in DOMAIN q : ~Bearing(q[i])
      BY <3>2, <3>3
    <3>5. Append(down, x) = down \o <<x>>
      BY <1>1, <3>2
    <3>6. down' = down \o q
      BY <2>1, <3>1, <3>3, <3>5 DEF TakeAuth
    <3> QED BY <3>4, <3>6
  <2>2. CASE TakeWatch
    <3>1. PICK x : x = Data(server.value, server.version)
      OBVIOUS
    <3>2. PICK y : y = Listened
      OBVIOUS
    <3>3. server.value \in Nat /\ server.version \in Nat
      BY <1>1 DEF ServerRecord
    <3>4. x \in Message /\ ~Bearing(x) /\ y \in Message /\ ~Bearing(y)
      BY <3>1, <3>2, <3>3 DEF Data, Listened, Message, Bearing
    <3>5. PICK q : q = <<x, y>>
      OBVIOUS
    <3>6. q \in Seq(Message) /\ \A i \in DOMAIN q : ~Bearing(q[i])
      BY <3>4, <3>5
    <3>7. down' = down \o q
      BY <2>2, <3>1, <3>2, <3>5 DEF TakeWatch
    <3> QED BY <3>6, <3>7
  <2>3. CASE TakeUnwatch
    <3>1. PICK q : q = <<>>
      OBVIOUS
    <3>2. q \in Seq(Message) /\ down \o q = down /\ DOMAIN q = {}
      BY <1>1, <3>1
    <3>3. down' = down \o q
      BY <2>3, <3>2 DEF TakeUnwatch
    <3> QED BY <3>2, <3>3, Zenon
  <2>4. CASE TakeRead
    <3>1. PICK x : x = [type |-> "elsewhere"]
      OBVIOUS
    <3>2. PICK y : y = Listened
      OBVIOUS
    <3>3. x \in Message /\ ~Bearing(x) /\ y \in Message /\ ~Bearing(y)
      BY <3>1, <3>2 DEF Listened, Message, Bearing
    <3>4. PICK q : q = <<x, y>>
      OBVIOUS
    <3>5. q \in Seq(Message) /\ \A i \in DOMAIN q : ~Bearing(q[i])
      BY <3>3, <3>4
    <3>6. down' = down \o q
      BY <2>4, <3>1, <3>2, <3>4 DEF TakeRead
    <3> QED BY <3>5, <3>6
  <2> QED BY <2>1, <2>2, <2>3, <2>4
<1>7. PICK q \in Seq(Message) : down' = down \o q /\ \A i \in DOMAIN q : ~Bearing(q[i])
  BY <1>6
<1>8. PICK d : d = down \o q
  OBVIOUS
<1>9. Extends(d, down)
  BY <1>1, <1>7, <1>8, ExtendsJoin
<1>10. PICK u : u = up'
  OBVIOUS
<1>11. Extends(u, u)
  BY DEF Extends
<1>12. link.conn = "up" => Stream(link.puts, d, u)
  BY <1>5, <1>9, <1>10, <1>11, StreamQuiet
<1>13. \A n : Consented(d, n) => Consented(down, n)
  BY <1>9 DEF Extends, Consented, Bearing
<1>14. PICK l : l = link
  OBVIOUS
<1>15. link' = l /\ down' = d /\ up' = u /\ l = link
  BY <1>2, <1>7, <1>8, <1>10, <1>14
<1> QED BY <1>1, <1>2, <1>3, <1>12, <1>13, <1>15, MoveFlow

\* The credit of another client moves none either.
LEMMA CreditFlow ==
  ASSUME ClientInv, FlowInv, landedAt \in [Ops -> Nat], CreditByOther
  PROVE  FlowInv'
<1>1. /\ server.version \in Nat /\ down \in Seq(Message) /\ PutsInOrder(repo, link.puts)
  BY DEF ClientInv, ClientOk, FlowInv, ServerRecord
<1>2. PICK q : Credits(q)
  BY CreditShape
<1>3. /\ UNCHANGED <<repo, link, up, landedAt>> /\ q \in Seq(Message)
      /\ \A i \in DOMAIN q : ~Bearing(q[i])
      /\ down' = down \o q /\ server'.version = server.version + 1
  BY <1>2 DEF Credits, Bearing
<1>4. PICK d : d = down \o q
  OBVIOUS
<1>5. Extends(d, down)
  BY <1>1, <1>3, <1>4, ExtendsJoin
<1>6. PICK u : u = up
  OBVIOUS
<1>7. Extends(u, up)
  BY <1>6 DEF Extends
<1>8. link.conn = "up" => Stream(link.puts, d, u)
  BY <1>5, <1>7, StreamQuiet DEF FlowInv
<1>9. \A n : Consented(d, n) => Consented(down, n)
  BY <1>5 DEF Extends, Consented, Bearing
<1>10. PICK l : l = link
  OBVIOUS
<1>11. /\ link' = l /\ down' = d /\ up' = u /\ l = link
       /\ server'.version \in {server.version, server.version + 1}
  BY <1>3, <1>4, <1>6, <1>10
<1> QED BY <1>1, <1>3, <1>8, <1>9, <1>11, MoveFlow

\* The database stores an overwrite after the older ones of the client: their puts
\* are behind, and none it has answered is of a later one.
LEMMA PutFlow ==
  ASSUME ClientInv, FlowInv, landedAt \in [Ops -> Nat], TakePut \/ RefusePut
  PROVE  FlowInv'
<1>1. /\ server.version \in Nat /\ down \in Seq(Message) /\ link.puts \in Seq(Put)
      /\ PutsInOrder(repo, link.puts) /\ OrderOk(repo, link, down, landedAt)
      /\ \A n \in Ops : landedAt[n] <= server.version
  BY DEF ClientInv, ClientOk, FlowInv, ServerRecord, LinkRecord
<1>2. PICK q, m : Answers(q, m)
  BY PutShape
<1>3. PICK u : u = up'
  OBVIOUS
<1>4. PICK e : e = down \o q
  OBVIOUS
<1>5. PICK d : d = Append(e, m)
  OBVIOUS
<1>6. /\ Takes("put") /\ UNCHANGED <<repo, link>>
      /\ q \in Seq(Message) /\ \A i \in DOMAIN q : ~Bearing(q[i])
      /\ m \in Message /\ m.type = "answer" /\ m.of = Head(up).of /\ down' = d
  BY <1>2, <1>4, <1>5 DEF Answers, Bearing
<1>7. /\ Drops(u, up) /\ up[1] = Head(up) /\ Head(up).type = "put"
      /\ link.conn = "up"
  BY <1>3, <1>6, TakesFlow
<1>8. e \in Seq(Message) /\ Extends(e, down)
  BY <1>1, <1>4, <1>6, ExtendsJoin
<1>9. d \in Seq(Message) /\ Adjoins(d, e, m)
  BY <1>5, <1>6, <1>8, AdjoinsAppend
<1>10. Stream(link.puts, e, up)
  <2>1. Extends(up, up)
    BY DEF Extends
  <2> QED BY <1>7, <1>8, <2>1, StreamQuiet DEF FlowInv
<1>11. Stream(link.puts, d, u)
  <2>1. \A i \in DOMAIN link.puts : i \in Nat
    BY <1>1
  <2>2. \A k \in DOMAIN e : k \in Nat
    BY <1>8
  <2>3. Bearing(up[1]) /\ Bearing(m) /\ m.of = up[1].of
    BY <1>6, <1>7 DEF Bearing
  <2> QED BY <1>7, <1>9, <1>10, <2>1, <2>2, <2>3, StreamPass
<1>12. \A n : Consented(d, n) => Consented(down, n) \/ (m.status = "ok" /\ n \in m.of)
  <2>1. \A n : Consented(e, n) => Consented(down, n)
    BY <1>8 DEF Extends, Consented, Bearing
  <2>2. \A n : Consented(d, n) => Consented(e, n) \/ (m.status = "ok" /\ n \in m.of)
    BY <1>9 DEF Adjoins, Consented
  <2> QED BY <2>1, <2>2
<1>13. CASE m.status # "ok"
  <2>1. UNCHANGED <<server, landedAt>>
    BY <1>2, <1>13 DEF Answers
  <2>2. PICK l : l = link
    OBVIOUS
  <2>3. /\ link' = l /\ down' = d /\ up' = u /\ l = link
        /\ server'.version \in {server.version, server.version + 1}
        /\ \A n : Consented(d, n) => Consented(down, n)
    BY <1>3, <1>6, <1>12, <1>13, <2>1, <2>2
  <2> QED BY <1>1, <1>6, <1>11, <2>1, <2>3, MoveFlow
<1>14. CASE m.status = "ok"
  <2>1. PICK f : f = m.of
    OBVIOUS
  <2>2. PICK A : A = landedAt'
    OBVIOUS
  <2>3. /\ server'.version = server.version + 1
        /\ \A n \in Ops : A[n] = IF n \in f THEN server.version + 1 ELSE landedAt[n]
    BY <1>2, <1>14, <2>1, <2>2 DEF Answers
  <2>4. PICK i \in DOMAIN link.puts : link.puts[i].of = f /\ Pair(link.puts, up, 1, i)
    <3>1. 1 \in DOMAIN up /\ Bearing(up[1]) /\ f = up[1].of
      BY <1>6, <1>7, <2>1 DEF Drops, Bearing
    <3> QED BY <1>10, <3>1 DEF Stream, Covered, Pair
  <2>5. PutOk(repo, f)
    BY <2>4, AllCalled
  <2>6. OrderOk(repo, link, d, A)
    <3> SUFFICES ASSUME NEW x \in Ops, NEW n \in Ops, Over(repo, x, n)
                 PROVE  /\ Consented(d, n) => A[x] < A[n]
                        /\ Agreed(repo, link, n) =>
                              ~Outstanding(link.puts, x) /\ A[x] < A[n]
      BY DEF OrderOk
    <3>1. /\ Consented(down, n) => landedAt[x] < landedAt[n]
          /\ Agreed(repo, link, n) =>
                ~Outstanding(link.puts, x) /\ landedAt[x] < landedAt[n]
      BY <1>1 DEF OrderOk
    <3>2. x < n /\ x \in Nat /\ n \in Nat
      BY MaxOpsType DEF Over
    <3>3. ~(x \in f /\ n \in f)
      BY <2>5, <3>2 DEF PutOk, Over, Is
    <3>4. CASE n \in f
      <4>1. A[n] = server.version + 1 /\ A[x] = landedAt[x] /\ landedAt[x] \in Nat
        BY <2>3, <3>3, <3>4
      <4>2. A[x] < A[n]
        BY <1>1, <4>1
      <4> QED BY <3>1, <4>2
    <3>5. CASE n \notin f /\ x \notin f
      <4>1. A[n] = landedAt[n] /\ A[x] = landedAt[x]
        BY <2>3, <3>5
      <4> QED BY <1>12, <2>1, <3>1, <3>5, <4>1
    <3>6. CASE n \notin f /\ x \in f
      <4>1. ~Agreed(repo, link, n)
        BY <2>4, <3>1, <3>6 DEF Outstanding
      <4>2. ASSUME Consented(down, n) PROVE FALSE
        <5>1. PICK k \in DOMAIN down : down[k].type = "answer" /\ n \in down[k].of
          BY <4>2 DEF Consented
        <5>2. k \in DOMAIN e /\ Bearing(e[k]) /\ e[k] = down[k]
          BY <1>8, <5>1 DEF Extends, Bearing
        <5>3. PICK j \in DOMAIN link.puts : Pair(link.puts, e, k, j)
          BY <1>10, <5>2 DEF Stream, Covered, Pair
        <5>4. 1 \in DOMAIN up
          BY <1>7 DEF Drops
        <5>5. j < i
          BY <1>10, <2>4, <5>2, <5>3, <5>4 DEF Stream, Ahead
        <5>6. n \in link.puts[j].of /\ x \in link.puts[i].of
          BY <2>4, <3>6, <5>1, <5>2, <5>3 DEF Pair
        <5>7. n < x
          BY <1>1, <5>5, <5>6 DEF PutsInOrder, Over
        <5> QED BY <3>2, <5>7
      <4> QED BY <1>12, <2>1, <3>6, <4>1, <4>2
    <3> QED BY <3>4, <3>5, <3>6
  <2>7. \A n \in Ops : A[n] <= server'.version
    <3>1. \A n \in Ops : landedAt[n] \in Nat
      OBVIOUS
    <3> QED BY <1>1, <2>3, <3>1
  <2> QED BY <1>1, <1>3, <1>6, <1>11, <2>2, <2>6, <2>7 DEF FlowInv
<1> QED BY <1>13, <1>14

\* The order holds at first, when nothing is stored.
LEMMA InitFlow == Init => FlowInv
<1> SUFFICES ASSUME Init PROVE FlowInv
  OBVIOUS
<1>1. /\ link.conn # "up" /\ link.puts = <<>>
      /\ link.held = <<>> /\ link.due = <<>> /\ down = <<>>
      /\ \A n \in Ops : landedAt[n] = 0 /\ repo.report[n] = "none"
      /\ server.version = 1
  BY DEF Init
<1>2. PutsInOrder(repo, link.puts)
  BY <1>1 DEF PutsInOrder
<1>3. OrderOk(repo, link, down, landedAt)
  BY <1>1 DEF OrderOk, Consented, Agreed, Told
<1> QED BY <1>1, <1>2, <1>3 DEF FlowInv

\* Every step keeps it.
LEMMA StepFlow == ClientInv /\ RestTypes /\ FlowInv /\ [Next]_vars => FlowInv'
<1> SUFFICES ASSUME ClientInv, RestTypes, FlowInv, [Next]_vars PROVE FlowInv'
  OBVIOUS
<1>0. landedAt \in [Ops -> Nat]
  BY DEF RestTypes
<1>1. CASE UNCHANGED vars
  <2>1. UNCHANGED <<repo, link, up, down, server, landedAt>>
    BY <1>1 DEF vars, networkVars, historyVars
  <2> QED BY <2>1 DEF FlowInv
<1>2. CASE \E n \in Ops : Transact(n)
  BY <1>2, CallFlow
<1>3. CASE \E n \in Ops, v \in Values : Overwrite(n, v)
  BY <1>3, CallFlow
<1>4. CASE Read \/ ConnectWithToken
  BY <1>0, <1>4, QuietFlow
<1>5. CASE ConnectWithoutToken
  BY <1>0, <1>5, RestoreFlow
<1>6. CASE \E i \in DOMAIN link.due : Callback(i)
  BY <1>6, CallbackFlow
<1>7. CASE Receive
  BY <1>0, <1>7, RestoreFlow, DataFlow, QuietFlow, AnswerFlow DEF Receive
<1>8. CASE Take
  BY <1>0, <1>8, TakeOtherFlow, PutFlow DEF Take
<1>9. CASE Failure
  BY <1>0, <1>9, DropFlow, PutFlow DEF Failure
<1>10. CASE CreditByOther
  BY <1>0, <1>10, CreditFlow
<1> QED BY <1>1, <1>2, <1>3, <1>4, <1>5, <1>6, <1>7, <1>8, <1>9, <1>10
       DEF Next, User, Network

\* An overwrite reported as stored was stored after every older one of the client
\* and stays so: FPersistentConnection sends outstanding puts in the order of their
\* calls, again after every reconnection, and takes an answer for the put it is of.
THEOREM InOrder == Spec => []StoredInOrder
<1>1. ClientInv /\ FlowInv => StoredInOrder
  <2> SUFFICES ASSUME FlowInv, NEW m \in Ops, NEW n \in Ops, Is(repo, m, "overwrite"),
                      Is(repo, n, "overwrite"), m < n, repo.report[n] = "ok"
               PROVE  landedAt[m] < landedAt[n]
    BY DEF StoredInOrder, Overwrites
  <2>1. Over(repo, m, n) /\ Agreed(repo, link, n)
    BY DEF Over, Agreed
  <2> QED BY <2>1 DEF FlowInv, OrderOk
<1>2. Spec => [](ClientInv /\ RestTypes /\ FlowInv)
  <2>1. Init => ClientInv /\ RestTypes /\ FlowInv
    BY InitInv, InitRest, InitFlow
  <2>2. /\ ClientInv /\ RestTypes /\ FlowInv /\ [Next]_vars
        => (ClientInv /\ RestTypes /\ FlowInv)'
    BY StepInv, StepRest, StepFlow
  <2> QED BY <2>1, <2>2, PTL DEF Spec
<1> QED BY <1>1, <1>2, PTL

-----------------------------------------------------------------------------
(* What a client that listens sees.  A version the database told of its     *)
(* consent to is seen, or comes: as data ahead of the answer to a listen,    *)
(* for which the consent is held back, or with a listen still to be answered.*)

\* A figure that is no older than version v.
Newer(m, v) == m.type = "data" /\ v <= m.version
Awaits(u) == \E j \in DOMAIN u : u[j].type = "watch"
Coming(u, d, v) ==
    \/ Awaits(u)
    \/ \E j, x \in DOMAIN d : j < x /\ Newer(d[j], v) /\ d[x].type = "listened"
Covers(s, u, d, v) == v <= s \/ Coming(u, d, v)
Before(d, k, v) == \E j \in DOMAIN d : j < k /\ Newer(d[j], v)
Consents(m, n) == m.type = "answer" /\ n \in m.of /\ m.status = "ok"

\* What is seen (s), the figures on their way and the database's (x) are of
\* ascending versions.
VersionsOk(s, x, d) ==
    /\ s <= x
    /\ \A k \in DOMAIN d : d[k].type = "data" => s <= d[k].version /\ d[k].version <= x
    /\ \A k, j \in DOMAIN d : k < j /\ d[k].type = "data" /\ d[j].type = "data" =>
          d[k].version <= d[j].version

\* The database knows that the client listens, or the last it will hear says so.
Listening(u, subscribed) ==
    \/ \E k \in DOMAIN u : /\ u[k].type = "watch"
                           /\ \A x \in DOMAIN u : u[x].type = "unwatch" => x < k
    \/ subscribed /\ \A x \in DOMAIN u : u[x].type # "unwatch"

\* While a token is on its way, or its answer, nothing travels ahead of it.
FirstAuth(u, d, subscribed) ==
    \/ 1 \in DOMAIN u /\ u[1].type = "auth" /\ DOMAIN d = {} /\ ~subscribed
    \/ 1 \in DOMAIN d /\ d[1].type = "authed"

\* A consent to operation n, for a version a, is covered where it is held back or
\* on its way.
Sees(n, s, l, u, d, a) ==
    /\ Told(l.held, n) => Covers(s, u, d, a)
    /\ \A k \in DOMAIN d : Consents(d[k], n) => Covers(s, u, d, a) \/ Before(d, k, a)
Sighted(s, l, u, d, A) == \A n \in Ops : Sees(n, s, l, u, d, A[n])

SeenInv ==
    /\ VersionsOk(repo.seen, server.version, down)
    /\ link.conn = "authenticating" => FirstAuth(up, down, server.subscribed)
    /\ Watchers(repo) # {} =>
          /\ \A n \in Ops : Told(link.due, n) => landedAt[n] <= repo.seen
          /\ link.conn = "up" => /\ Sighted(repo.seen, link, up, down, landedAt)
                                 /\ Listening(up, server.subscribed)

\* s is q with messages after it.
Trails(s, q) ==
    /\ DOMAIN q \subseteq DOMAIN s
    /\ \A k \in DOMAIN q : s[k] = q[k]
    /\ \A j \in DOMAIN q, k \in DOMAIN s \ DOMAIN q : j < k

\* These messages are x.
Joined(s, q, x) ==
    /\ Trails(s, q)
    /\ \A k \in DOMAIN s \ DOMAIN q : \E i \in DOMAIN x : s[k] = x[i]
    /\ \A i \in DOMAIN x : \E k \in DOMAIN s \ DOMAIN q : s[k] = x[i]

\* Joined messages come after.
LEMMA TrailsJoin ==
  ASSUME NEW T, NEW q \in Seq(T), NEW x \in Seq(T), NEW s, s = q \o x
  PROVE  s \in Seq(T) /\ Joined(s, q, x)
<1>1. PICK a \in Nat, b \in Nat : a = Len(q) /\ b = Len(x)
  OBVIOUS
<1>2. /\ s \in Seq(T) /\ DOMAIN q = 1 .. a /\ DOMAIN x = 1 .. b
      /\ DOMAIN s = 1 .. a + b
      /\ \A j \in 1 .. a : s[j] = q[j]
      /\ \A j \in 1 .. b : s[a + j] = x[j]
  BY <1>1
<1>3. Trails(s, q)
  BY <1>2 DEF Trails
<1>4. ASSUME NEW k \in DOMAIN s \ DOMAIN q
      PROVE  k - a \in DOMAIN x /\ s[k] = x[k - a]
  <2>1. k - a \in 1 .. b /\ a + (k - a) = k
    BY <1>2
  <2> QED BY <1>2, <2>1
<1>5. ASSUME NEW i \in DOMAIN x
      PROVE  a + i \in DOMAIN s \ DOMAIN q /\ s[a + i] = x[i]
  BY <1>2
<1> QED BY <1>2, <1>3, <1>4, <1>5 DEF Joined

\* Nothing may come after.
LEMMA TrailsSame == \A q : Trails(q, q)
BY DEF Trails

\* This is one message, m.
Appended(s, q, m) ==
    /\ Trails(s, q)
    /\ \E y \in DOMAIN s : s[y] = m /\ DOMAIN s \ DOMAIN q = {y}

\* One message comes after.
LEMMA TrailsAppend ==
  ASSUME NEW T, NEW q \in Seq(T), NEW m \in T, NEW s, s = Append(q, m)
  PROVE  s \in Seq(T) /\ Appended(s, q, m)
<1>1. PICK a \in Nat : a = Len(q)
  OBVIOUS
<1>2. /\ s \in Seq(T) /\ DOMAIN q = 1 .. a /\ DOMAIN s = 1 .. a + 1
      /\ s[a + 1] = m /\ \A j \in 1 .. a : s[j] = q[j]
  BY <1>1
<1>3. DOMAIN s \ DOMAIN q = {a + 1} /\ a + 1 \in DOMAIN s
  BY <1>2
<1>4. Trails(s, q)
  BY <1>2 DEF Trails
<1> QED BY <1>2, <1>3, <1>4 DEF Appended

\* Twice after is after.
LEMMA TrailsTrails ==
  ASSUME NEW q, NEW s, NEW t, Trails(s, q), Trails(t, s)
  PROVE  Trails(t, q)
BY DEF Trails

\* Places are numbers, and so are versions.
LEMMA Versions ==
  ASSUME NEW d \in Seq(Message)
  PROVE  /\ \A k \in DOMAIN d : k \in Nat /\ 1 <= k
         /\ \A k \in DOMAIN d : d[k].type = "data" => d[k].version \in Nat
<1>1. \A k \in DOMAIN d : d[k] \in Message /\ k \in Nat /\ 1 <= k
  OBVIOUS
<1>2. \A m \in Message : m.type = "data" => m.version \in Nat
  BY DEF Message
<1> QED BY <1>1, <1>2

\* A newer figure, or anything else, can follow.
LEMMA VersionsTrail ==
  ASSUME NEW s \in Nat, NEW x \in Nat, NEW y \in Nat, x <= y,
         NEW d \in Seq(Message), VersionsOk(s, x, d),
         NEW e \in Seq(Message), Trails(e, d),
         \A k \in DOMAIN e \ DOMAIN d : e[k].type = "data" => e[k].version = y
  PROVE  VersionsOk(s, y, e)
<1>1. /\ \A k \in DOMAIN e : k \in Nat /\ (e[k].type = "data" => e[k].version \in Nat)
      /\ \A k \in DOMAIN d : k \in DOMAIN e /\ e[k] = d[k]
      /\ \A j \in DOMAIN d, k \in DOMAIN e \ DOMAIN d : j < k
  BY Versions DEF Trails
<1>2. ASSUME NEW k \in DOMAIN e, e[k].type = "data"
      PROVE  s <= e[k].version /\ e[k].version <= y
  <2>1. CASE k \in DOMAIN d
    <3>1. s <= e[k].version /\ e[k].version <= x /\ e[k].version \in Nat
      BY <1>1, <1>2, <2>1 DEF VersionsOk
    <3> QED BY <3>1
  <2>2. CASE k \notin DOMAIN d
    <3>1. e[k].version = y /\ s <= x
      BY <1>2, <2>2 DEF VersionsOk
    <3> QED BY <3>1
  <2> QED BY <2>1, <2>2
<1>3. ASSUME NEW k \in DOMAIN e, NEW j \in DOMAIN e, k < j, e[k].type = "data",
             e[j].type = "data"
      PROVE  e[k].version <= e[j].version
  <2>1. CASE j \in DOMAIN d
    <3>1. k \in DOMAIN d
      BY <1>1, <1>3, <2>1
    <3> QED BY <1>1, <1>3, <2>1, <3>1 DEF VersionsOk
  <2>2. CASE j \notin DOMAIN d
    BY <1>2, <1>3, <2>2
  <2> QED BY <2>1, <2>2
<1>4. s <= y
  BY DEF VersionsOk
<1> QED BY <1>2, <1>3, <1>4 DEF VersionsOk

\* The first message can leave, and be seen.
LEMMA VersionsDrop ==
  ASSUME NEW s \in Nat, NEW x \in Nat, NEW d \in Seq(Message), VersionsOk(s, x, d),
         NEW e \in Seq(Message), Drops(e, d),
         NEW z, \/ z = 0 \/ z = s
                \/ d[1].type = "data" /\ z = d[1].version
  PROVE  VersionsOk(z, x, e)
<1>1. /\ \A k \in DOMAIN d : k \in Nat /\ (d[k].type = "data" => d[k].version \in Nat)
      /\ \A k \in DOMAIN e : k \in Nat \ {0} /\ k + 1 \in DOMAIN d /\ e[k] = d[k + 1]
      /\ 1 \in DOMAIN d
  BY Versions DEF Drops
<1>2. z \in Nat /\ z <= x
  BY <1>1 DEF VersionsOk
<1>3. ASSUME NEW k \in DOMAIN e, e[k].type = "data"
      PROVE  z <= e[k].version /\ e[k].version <= x
  <2>1. /\ k + 1 \in DOMAIN d /\ 1 < k + 1 /\ e[k] = d[k + 1]
        /\ s <= e[k].version /\ e[k].version <= x /\ e[k].version \in Nat
    BY <1>1, <1>3 DEF VersionsOk
  <2>2. d[1].type = "data" => d[1].version <= e[k].version
    BY <1>1, <1>3, <2>1 DEF VersionsOk
  <2> QED BY <2>1, <2>2
<1>4. ASSUME NEW k \in DOMAIN e, NEW j \in DOMAIN e, k < j, e[k].type = "data",
             e[j].type = "data"
      PROVE  e[k].version <= e[j].version
  <2>1. /\ k + 1 \in DOMAIN d /\ j + 1 \in DOMAIN d /\ k + 1 < j + 1
        /\ e[k] = d[k + 1] /\ e[j] = d[j + 1]
    BY <1>1, <1>4
  <2> QED BY <1>4, <2>1 DEF VersionsOk
<1> QED BY <1>2, <1>3, <1>4 DEF VersionsOk

\* What the client loses from sight when its last watcher leaves.
LEMMA VersionsForget ==
  ASSUME NEW s \in Nat, NEW x \in Nat, NEW d \in Seq(Message), VersionsOk(s, x, d),
         NEW z, z = 0 \/ z = s
  PROVE  VersionsOk(z, x, d)
<1>1. \A k \in DOMAIN d : d[k].type = "data" => d[k].version \in Nat
  BY Versions
<1>2. z <= x /\ \A k \in DOMAIN d : d[k].type = "data" => z <= d[k].version
  BY <1>1 DEF VersionsOk
<1> QED BY <1>2 DEF VersionsOk

\* Messages that follow take nothing away.
LEMMA SeesTrail ==
  ASSUME NEW n, NEW a, NEW s, NEW l, NEW u, NEW d, Sees(n, s, l, u, d, a),
         NEW k, Told(k.held, n) => Told(l.held, n),
         NEW v, Awaits(u) => Awaits(v),
         NEW e, Trails(e, d),
         \A i \in DOMAIN e \ DOMAIN d : Consents(e[i], n) =>
            Covers(s, v, e, a) \/ Before(e, i, a)
  PROVE  Sees(n, s, k, v, e, a)
<1>1. Covers(s, u, d, a) => Covers(s, v, e, a)
  BY DEF Covers, Coming, Trails
<1>2. \A i \in DOMAIN d : Before(d, i, a) => Before(e, i, a)
  BY DEF Before, Trails
<1>3. Told(k.held, n) => Covers(s, v, e, a)
  BY <1>1 DEF Sees
<1>4. ASSUME NEW i \in DOMAIN e, Consents(e[i], n)
      PROVE  Covers(s, v, e, a) \/ Before(e, i, a)
  <2>1. CASE i \in DOMAIN d
    <3>1. e[i] = d[i]
      BY <2>1 DEF Trails
    <3> QED BY <1>1, <1>2, <1>4, <2>1, <3>1 DEF Sees
  <2>2. CASE i \notin DOMAIN d
    BY <1>4, <2>2
  <2> QED BY <2>1, <2>2
<1> QED BY <1>3, <1>4 DEF Sees

\* For every operation, when none of them is a consent.
LEMMA SightedTrail ==
  ASSUME NEW s, NEW l, NEW u, NEW d, NEW A, Sighted(s, l, u, d, A),
         NEW k, \A n : Told(k.held, n) => Told(l.held, n),
         NEW v, Awaits(u) => Awaits(v),
         NEW e, Trails(e, d),
         \A n : \A i \in DOMAIN e \ DOMAIN d : ~Consents(e[i], n)
  PROVE  Sighted(s, k, v, e, A)
<1> SUFFICES ASSUME NEW n \in Ops PROVE Sees(n, s, k, v, e, A[n])
  BY DEF Sighted
<1>1. Sees(n, s, l, u, d, A[n])
  BY DEF Sighted
<1> QED BY <1>1, SeesTrail

\* The first message leaves: a figure is seen, a consent is held back.
LEMMA SightedDrop ==
  ASSUME NEW s \in Nat, NEW l, NEW u, NEW d \in Seq(Message),
         NEW A \in [Ops -> Nat], Sighted(s, l, u, d, A), NEW e, Drops(e, d),
         NEW z \in Nat, s <= z, d[1].type = "data" => d[1].version <= z,
         NEW k, \A n : Told(k.held, n) => Told(l.held, n) \/ Consents(d[1], n)
  PROVE  Sighted(z, k, u, e, A)
<1>1. /\ \A i \in DOMAIN d : i \in Nat /\ 1 <= i
                             /\ (d[i].type = "data" => d[i].version \in Nat)
      /\ \A i \in DOMAIN d : i # 1 => i - 1 \in DOMAIN e /\ e[i - 1] = d[i]
      /\ \A i \in DOMAIN e : i \in Nat \ {0} /\ i + 1 \in DOMAIN d /\ e[i] = d[i + 1]
      /\ 1 \in DOMAIN d
  BY Versions DEF Drops
<1>2. ASSUME NEW x \in Nat, Covers(s, u, d, x) PROVE Covers(z, u, e, x)
  <2>1. CASE x <= s \/ Awaits(u)
    BY <2>1 DEF Covers, Coming
  <2>2. CASE ~(x <= s \/ Awaits(u))
    <3>1. PICK j \in DOMAIN d, y \in DOMAIN d :
             j < y /\ Newer(d[j], x) /\ d[y].type = "listened"
      BY <1>2, <2>2 DEF Covers, Coming
    <3>2. CASE j = 1
      <4>1. x <= d[1].version /\ d[1].version <= z /\ d[1].version \in Nat
        BY <1>1, <3>1, <3>2 DEF Newer
      <4>2. x <= z
        BY <4>1
      <4> QED BY <4>2 DEF Covers
    <3>3. CASE j # 1
      <4>1. /\ j \in Nat /\ y \in Nat /\ 1 <= j /\ y # 1
        BY <1>1, <3>1, <3>3
      <4>2. /\ j - 1 \in DOMAIN e /\ y - 1 \in DOMAIN e /\ j - 1 < y - 1
            /\ e[j - 1] = d[j] /\ e[y - 1] = d[y]
        BY <1>1, <3>1, <3>3, <4>1
      <4> QED BY <3>1, <4>2 DEF Covers, Coming
    <3> QED BY <3>2, <3>3
  <2> QED BY <2>1, <2>2
<1>3. ASSUME NEW i \in DOMAIN e, NEW x \in Nat, Before(d, i + 1, x)
      PROVE  x <= z \/ Before(e, i, x)
  <2>1. PICK j \in DOMAIN d : j < i + 1 /\ Newer(d[j], x)
    BY <1>3 DEF Before
  <2>2. CASE j = 1
    <3>1. x <= d[1].version /\ d[1].version <= z /\ d[1].version \in Nat
      BY <1>1, <2>1, <2>2 DEF Newer
    <3> QED BY <3>1
  <2>3. CASE j # 1
    <3>1. j - 1 \in DOMAIN e /\ e[j - 1] = d[j]
      BY <1>1, <2>1, <2>3
    <3>2. j \in Nat /\ i \in Nat
      BY <1>1
    <3>3. j - 1 < i
      BY <2>1, <3>2
    <3> QED BY <2>1, <3>1, <3>3 DEF Before
  <2> QED BY <2>2, <2>3
<1> SUFFICES ASSUME NEW n \in Ops
             PROVE  /\ Told(k.held, n) => Covers(z, u, e, A[n])
                    /\ \A i \in DOMAIN e : Consents(e[i], n) =>
                          Covers(z, u, e, A[n]) \/ Before(e, i, A[n])
  BY DEF Sighted, Sees
<1>4. /\ Told(l.held, n) => Covers(s, u, d, A[n])
      /\ \A i \in DOMAIN d : Consents(d[i], n) =>
            Covers(s, u, d, A[n]) \/ Before(d, i, A[n])
      /\ A[n] \in Nat
  BY DEF Sighted, Sees
<1>5. Consents(d[1], n) => Covers(s, u, d, A[n])
  <2>1. ~Before(d, 1, A[n])
    <3>1. \A j \in DOMAIN d : ~(j < 1)
      BY <1>1
    <3> QED BY <3>1 DEF Before
  <2> QED BY <1>1, <1>4, <2>1
<1>6. Told(k.held, n) => Covers(z, u, e, A[n])
  BY <1>2, <1>4, <1>5
<1>7. ASSUME NEW i \in DOMAIN e, Consents(e[i], n)
      PROVE  Covers(z, u, e, A[n]) \/ Before(e, i, A[n])
  <2>1. Covers(s, u, d, A[n]) \/ Before(d, i + 1, A[n])
    BY <1>1, <1>4, <1>7
  <2>2. A[n] <= z => Covers(z, u, e, A[n])
    BY DEF Covers
  <2> QED BY <1>2, <1>3, <1>4, <2>1, <2>2
<1> QED BY <1>6, <1>7

\* What is on its way to a listen covers everything.
LEMMA SightedCome ==
  ASSUME NEW s, NEW l, NEW u, NEW d, NEW A, \A n \in Ops : Coming(u, d, A[n])
  PROVE  Sighted(s, l, u, d, A)
BY DEF Sighted, Sees, Covers

\* The client still listens when what it sends after is no farewell.
LEMMA ListeningTrail ==
  ASSUME NEW u, NEW b, Listening(u, b), NEW v, Trails(v, u),
         \A k \in DOMAIN v \ DOMAIN u : v[k].type # "unwatch"
  PROVE  Listening(v, b)
<1>1. CASE \E k \in DOMAIN u : /\ u[k].type = "watch"
                               /\ \A x \in DOMAIN u : u[x].type = "unwatch" => x < k
  BY <1>1 DEF Listening, Trails
<1>2. CASE b /\ \A x \in DOMAIN u : u[x].type # "unwatch"
  BY <1>2 DEF Listening, Trails
<1> QED BY <1>1, <1>2 DEF Listening

\* It listens again when it says so last.
LEMMA ListeningWatch ==
  ASSUME NEW u, NEW b, NEW v, Trails(v, u), NEW k \in DOMAIN v \ DOMAIN u,
         v[k].type = "watch", \A x \in DOMAIN v \ DOMAIN u : v[x].type # "unwatch"
  PROVE  Listening(v, b)
BY DEF Listening, Trails

\* The database hears what the client sends, in order.
LEMMA ListeningDrop ==
  ASSUME NEW u, NEW b, Listening(u, b), NEW v, Drops(v, u),
         \A k \in DOMAIN u : k \in Nat,
         NEW c, IF u[1].type = "watch" THEN c
                ELSE u[1].type # "unwatch" => c = b
  PROVE  Listening(v, c)
<1>1. /\ 1 \in DOMAIN u
      /\ \A i \in DOMAIN u : i # 1 => i - 1 \in DOMAIN v /\ v[i - 1] = u[i]
      /\ \A i \in DOMAIN v : i \in Nat \ {0} /\ i + 1 \in DOMAIN u /\ v[i] = u[i + 1]
  BY DEF Drops
<1>2. CASE \E k \in DOMAIN u : /\ u[k].type = "watch"
                               /\ \A x \in DOMAIN u : u[x].type = "unwatch" => x < k
  <2>1. PICK k \in DOMAIN u : /\ u[k].type = "watch"
                              /\ \A x \in DOMAIN u : u[x].type = "unwatch" => x < k
    BY <1>2
  <2>2. CASE k = 1
    <3>1. ASSUME NEW x \in DOMAIN v PROVE v[x].type # "unwatch"
      <4>1. x + 1 \in DOMAIN u /\ v[x] = u[x + 1] /\ ~(x + 1 < 1)
        BY <1>1
      <4> QED BY <2>1, <2>2, <4>1
    <3> QED BY <2>1, <2>2, <3>1 DEF Listening
  <2>3. CASE k # 1
    <3>1. k - 1 \in DOMAIN v /\ v[k - 1] = u[k] /\ k \in Nat
      BY <1>1, <2>3
    <3>2. ASSUME NEW x \in DOMAIN v, v[x].type = "unwatch" PROVE x < k - 1
      <4>1. x \in Nat /\ x + 1 < k
        BY <1>1, <2>1, <3>2
      <4> QED BY <3>1, <4>1
    <3> QED BY <2>1, <3>1, <3>2 DEF Listening
  <2> QED BY <2>2, <2>3
<1>3. CASE b /\ \A x \in DOMAIN u : u[x].type # "unwatch"
  <2>1. c
    BY <1>1, <1>3
  <2>2. \A x \in DOMAIN v : v[x].type # "unwatch"
    BY <1>1, <1>3
  <2> QED BY <2>1, <2>2 DEF Listening
<1> QED BY <1>2, <1>3 DEF Listening

\* What follows the token, or its answer, does not overtake it.
LEMMA FirstAuthTrail ==
  ASSUME NEW u, NEW d, NEW b, FirstAuth(u, d, b), NEW v, Trails(v, u),
         NEW e, Trails(e, d), ~b => DOMAIN e = DOMAIN d
  PROVE  FirstAuth(v, e, b)
BY DEF FirstAuth, Trails

\* Where no listen is counted, none is.
LEMMA NoneListens ==
  ASSUME NEW T, NEW q \in Seq(T), Count(q) = 0
  PROVE  \A i \in DOMAIN q : ~Listens(q[i])
<1>1. ListensOf(q) = {}
  BY CountType, FS_EmptySet DEF Count
<1> QED BY <1>1 DEF ListensOf

\* What is seen is a number, and so are the versions the database made.
LEMMA SeenTypes ==
  ASSUME ClientInv, RestTypes
  PROVE  /\ repo \in RepoRecord /\ link \in LinkRecord /\ repo.seen \in Nat
         /\ up \in Seq(RequestMessage) /\ down \in Seq(Message)
         /\ server.version \in Nat /\ server \in ServerRecord
         /\ landedAt \in [Ops -> Nat]
BY DEF ClientInv, ClientOk, RepoOk, RepoRecord, RestTypes, ServerRecord

\* What a settled handler sends comes after what travels already.
LEMMA SettledTrails ==
  ASSUME up \in Seq(RequestMessage), NEW r, NEW l, NEW new, NEW before, NEW requests,
         NEW after, Settled(r, l, new, before, requests, after)
  PROVE  /\ Trails(up', up)
         /\ \A k \in DOMAIN up' \ DOMAIN up :
               \/ up'[k].type \in {"watch", "put"}
               \/ after # <<>>
         /\ before # <<>> => \E k \in DOMAIN up' \ DOMAIN up : up'[k].type = "watch"
<1>1. /\ up' = up \o before \o requests \o after
      /\ before \in Seq(RequestMessage) /\ requests \in Seq(RequestMessage)
      /\ after \in Seq(RequestMessage)
      /\ \A i \in DOMAIN before : before[i].type = "watch"
      /\ \A i \in DOMAIN requests : requests[i].type = "put"
  BY DEF Settled
<1>2. PICK u : u = up \o before
  OBVIOUS
<1>3. PICK w : w = u \o requests
  OBVIOUS
<1>4. PICK x : x = w \o after
  OBVIOUS
<1>5. u \in Seq(RequestMessage) /\ Joined(u, up, before)
  BY <1>1, <1>2, TrailsJoin
<1>6. w \in Seq(RequestMessage) /\ Joined(w, u, requests)
  BY <1>1, <1>3, <1>5, TrailsJoin
<1>7. x \in Seq(RequestMessage) /\ Joined(x, w, after)
  BY <1>1, <1>4, <1>6, TrailsJoin
<1>8. up' = x
  BY <1>1, <1>2, <1>3, <1>4
<1>9. Trails(x, up) /\ Trails(x, u)
  <2>1. Trails(u, up) /\ Trails(w, u) /\ Trails(x, w)
    BY <1>5, <1>6, <1>7 DEF Joined
  <2>2. Trails(x, u)
    BY <2>1, TrailsTrails
  <2> QED BY <2>1, <2>2, TrailsTrails
<1>10. ASSUME NEW k \in DOMAIN x \ DOMAIN up
       PROVE  x[k].type \in {"watch", "put"} \/ after # <<>>
  <2>1. CASE k \in DOMAIN u
    <3>1. x[k] = u[k]
      BY <1>9, <2>1 DEF Trails
    <3>2. PICK i \in DOMAIN before : u[k] = before[i]
      BY <1>5, <1>10, <2>1 DEF Joined
    <3> QED BY <1>1, <3>1, <3>2
  <2>2. CASE k \in DOMAIN w \ DOMAIN u
    <3>1. x[k] = w[k]
      BY <1>7, <2>2 DEF Joined, Trails
    <3>2. PICK i \in DOMAIN requests : w[k] = requests[i]
      BY <1>6, <2>2 DEF Joined
    <3> QED BY <1>1, <3>1, <3>2
  <2>3. CASE k \notin DOMAIN w
    <3>1. PICK i \in DOMAIN after : x[k] = after[i]
      BY <1>7, <1>10, <2>3 DEF Joined
    <3>2. after # <<>>
      BY <3>1
    <3> QED BY <3>2
  <2> QED BY <2>1, <2>2, <2>3
<1>11. ASSUME before # <<>>
       PROVE  \E k \in DOMAIN x \ DOMAIN up : x[k].type = "watch"
  <2>1. 1 \in DOMAIN before
    BY <1>1, <1>11
  <2>2. PICK k \in DOMAIN u \ DOMAIN up : u[k] = before[1]
    BY <1>5, <2>1 DEF Joined
  <2>3. k \in DOMAIN x /\ x[k] = u[k]
    BY <1>9, <2>2 DEF Trails
  <2> QED BY <1>1, <2>1, <2>2, <2>3
<1> QED BY <1>8, <1>9, <1>10, <1>11

\* A handler of FRepo keeps what is seen if it tells nobody of what is not: the first
\* watcher listens, for which every consent is held back.
LEMMA SettledSeen ==
  ASSUME ClientInv, RestTypes, SeenInv, NEW r \in RepoRecord, NEW l \in LinkRecord,
         Settle(r, l), l.conn = link.conn, l.held = link.held,
         NEW d, down' = d, UNCHANGED <<landedAt, server>>,
         d \in Seq(Message), VersionsOk(r.seen, server.version, d),
         link.conn = "authenticating" => FirstAuth(up, d, server.subscribed),
         Watchers(repo) # {} /\ Watchers(r) # {} =>
            \A n \in Ops : Told(l.due, n) => landedAt[n] <= r.seen,
         Watchers(repo) # {} /\ Watchers(r) # {} /\ link.conn = "up" =>
            Sighted(r.seen, l, up, d, landedAt),
         Watchers(repo) = {} /\ Watchers(r) # {} => \A n \in Ops : ~Told(l.due, n)
  PROVE  SeenInv'
<1>1. /\ up \in Seq(RequestMessage) /\ r.seen \in Nat /\ server.version \in Nat
  BY SeenTypes DEF RepoRecord
<1>2. PICK new, before, requests, after : Settled(r, l, new, before, requests, after)
  BY <1>1, SettleShape
<1>3. /\ Trails(up', up)
      /\ \A k \in DOMAIN up' \ DOMAIN up :
            up'[k].type \in {"watch", "put"} \/ after # <<>>
      /\ before # <<>> => \E k \in DOMAIN up' \ DOMAIN up : up'[k].type = "watch"
  BY <1>1, <1>2, SettledTrails
<1>4. /\ link'.conn = l.conn /\ link'.held = l.held /\ link'.due = l.due
      /\ Watchers(repo') = Watchers(r)
      /\ repo'.seen = IF Watchers(repo) # {} /\ Watchers(r) = {} THEN 0 ELSE r.seen
      /\ Watchers(repo) = {} /\ Watchers(r) # {} /\ Connected(l) => before # <<>>
      /\ Watchers(r) # {} => after = <<>>
  BY <1>2 DEF Settled
<1>5. PICK v : v = up'
  OBVIOUS
<1>6. PICK k : k = link'
  OBVIOUS
<1>7. VersionsOk(repo'.seen, server.version, d)
  BY <1>1, <1>4, VersionsForget
<1>8. ASSUME link.conn = "authenticating" PROVE FirstAuth(v, d, server.subscribed)
  <2>1. FirstAuth(up, d, server.subscribed)
    BY <1>8
  <2>2. Trails(v, up) /\ Trails(d, d)
    BY <1>3, <1>5, TrailsSame
  <2> QED BY <2>1, <2>2, FirstAuthTrail
<1>9. ASSUME Watchers(r) # {}
      PROVE  /\ \A n \in Ops : Told(k.due, n) => landedAt[n] <= repo'.seen
             /\ k.conn = "up" => /\ Sighted(repo'.seen, k, v, d, landedAt)
                                 /\ Listening(v, server.subscribed)
  <2>1. /\ k.conn = link.conn /\ k.held = l.held /\ k.due = l.due /\ repo'.seen = r.seen
        /\ \A i \in DOMAIN v \ DOMAIN up : v[i].type # "unwatch"
    BY <1>3, <1>4, <1>5, <1>6, <1>9
  <2>2. CASE Watchers(repo) # {}
    <3>1. \A n \in Ops : Told(k.due, n) => landedAt[n] <= repo'.seen
      BY <1>9, <2>1, <2>2
    <3>2. ASSUME k.conn = "up"
          PROVE  Sighted(r.seen, k, v, d, landedAt) /\ Listening(v, server.subscribed)
      <4>1. Sighted(r.seen, l, up, d, landedAt) /\ Listening(up, server.subscribed)
        BY <1>9, <2>1, <2>2, <3>2 DEF SeenInv
      <4>2. Trails(v, up) /\ Trails(d, d) /\ DOMAIN d \ DOMAIN d = {}
        BY <1>3, <1>5, TrailsSame
      <4>3. Awaits(up) => Awaits(v)
        BY <4>2 DEF Awaits, Trails
      <4>4. Sighted(r.seen, k, v, d, landedAt)
        <5>1. \A n : Told(k.held, n) => Told(l.held, n)
          BY <2>1
        <5>2. \A n : \A i \in DOMAIN d \ DOMAIN d : ~Consents(d[i], n)
          BY <4>2
        <5> QED BY <4>1, <4>2, <4>3, <5>1, <5>2, SightedTrail
      <4>5. Listening(v, server.subscribed)
        BY <2>1, <4>1, <4>2, ListeningTrail
      <4> QED BY <4>4, <4>5
    <3> QED BY <2>1, <3>1, <3>2
  <2>3. CASE Watchers(repo) = {}
    <3>1. \A n \in Ops : Told(k.due, n) => landedAt[n] <= repo'.seen
      BY <1>9, <2>1, <2>3
    <3>2. ASSUME k.conn = "up"
          PROVE  Sighted(r.seen, k, v, d, landedAt) /\ Listening(v, server.subscribed)
      <4>1. Connected(l)
        BY <2>1, <3>2 DEF Connected
      <4>2. PICK y \in DOMAIN v \ DOMAIN up : v[y].type = "watch"
        BY <1>3, <1>4, <1>5, <1>9, <2>3, <4>1
      <4>3. \A n \in Ops : Coming(v, d, landedAt[n])
        BY <4>2 DEF Coming, Awaits
      <4>4. Sighted(r.seen, k, v, d, landedAt)
        BY <4>3, SightedCome
      <4>5. Trails(v, up)
        BY <1>3, <1>5
      <4>6. Listening(v, server.subscribed)
        BY <2>1, <4>2, <4>5, ListeningWatch
      <4> QED BY <4>4, <4>6
    <3> QED BY <2>1, <3>1, <3>2
  <2> QED BY <2>2, <2>3
<1> QED BY <1>4, <1>5, <1>6, <1>7, <1>8, <1>9 DEF SeenInv

\* runTransaction tells nobody.
LEMMA TransactSeen ==
  ASSUME ClientInv, RestTypes, SeenInv, NEW n \in Ops, Transact(n)
  PROVE  SeenInv'
<1>1. PICK r : Handled(r, link, {}, {}) /\ r.seen = repo.seen
  BY TransactShape
<1>2. r \in RepoRecord /\ link \in LinkRecord /\ Settle(r, link)
  BY <1>1 DEF Handled, RepoOk
<1>3. link.due = <<>> /\ down' = down /\ UNCHANGED <<landedAt, server>>
  BY DEF Transact, Idle, historyVars
<1>4. \A m \in Ops : ~Told(link.due, m)
  BY <1>3 DEF Told
<1>5. PICK d : d = down
  OBVIOUS
<1>6. PICK l : l = link
  OBVIOUS
<1>7. down' = d /\ l \in LinkRecord /\ Settle(r, l) /\ l.conn = link.conn /\ l.held = link.held
  BY <1>2, <1>3, <1>5, <1>6
<1>8. d \in Seq(Message) /\ VersionsOk(r.seen, server.version, d)
  BY <1>1, <1>5, SeenTypes DEF SeenInv
<1>9. /\ link.conn = "authenticating" => FirstAuth(up, d, server.subscribed)
      /\ Watchers(repo) # {} /\ link.conn = "up" => Sighted(r.seen, l, up, d, landedAt)
  BY <1>1, <1>5, <1>6 DEF SeenInv
<1> QED BY <1>2, <1>3, <1>4, <1>6, <1>7, <1>8, <1>9, SettledSeen

\* set and update tell nobody, nor do they let anybody start to watch.
LEMMA OverwriteSeen ==
  ASSUME ClientInv, RestTypes, SeenInv, NEW n \in Ops, NEW v \in Values, Overwrite(n, v)
  PROVE  SeenInv'
<1>1. PICK r : Handled(r, link, {n}, {}) /\ Steady(repo, r, {})
  BY OverwriteShape
<1>2. /\ r \in RepoRecord /\ link \in LinkRecord /\ Settle(r, link)
      /\ r.seen = repo.seen /\ Watchers(r) \subseteq Watchers(repo)
  BY <1>1 DEF Handled, RepoOk, Steady
<1>3. link.due = <<>> /\ down' = down /\ UNCHANGED <<landedAt, server>>
  BY DEF Overwrite, Idle, historyVars
<1>4. \A m \in Ops : ~Told(link.due, m)
  BY <1>3 DEF Told
<1>5. PICK d : d = down
  OBVIOUS
<1>6. PICK l : l = link
  OBVIOUS
<1>7. down' = d /\ l \in LinkRecord /\ Settle(r, l) /\ l.conn = link.conn /\ l.held = link.held
  BY <1>2, <1>3, <1>5, <1>6
<1>8. d \in Seq(Message) /\ VersionsOk(r.seen, server.version, d)
  BY <1>2, <1>5, SeenTypes DEF SeenInv
<1>9. /\ link.conn = "authenticating" => FirstAuth(up, d, server.subscribed)
      /\ Watchers(repo) # {} /\ link.conn = "up" => Sighted(r.seen, l, up, d, landedAt)
  BY <1>2, <1>5, <1>6 DEF SeenInv
<1> QED BY <1>2, <1>3, <1>4, <1>6, <1>7, <1>8, <1>9, SettledSeen

\* A callback tells of what is seen, and leaves the others to be told.
LEMMA CallbackSeen ==
  ASSUME ClientInv, RestTypes, SeenInv, NEW i \in DOMAIN link.due, Callback(i)
  PROVE  SeenInv'
<1>1. PICK l : l = Passed(link, i)
  OBVIOUS
<1>2. PICK f, g : f = link.due[i].of /\ g = Pleased(link.due[i].of, link.due[i].status)
  OBVIOUS
<1>3. PICK r : Handled(r, l, {}, f) /\ Steady(repo, r, g)
  BY <1>1, <1>2, CallbackShape
<1>4. /\ r \in RepoRecord /\ l \in LinkRecord /\ Settle(r, l)
      /\ r.seen = repo.seen /\ Watchers(r) \subseteq Watchers(repo)
  BY <1>3 DEF Handled, RepoOk, Steady
<1>5. /\ l.held = link.held /\ l.conn = link.conn
      /\ \A j \in DOMAIN l.due : \E k \in DOMAIN link.due : l.due[j] = link.due[k]
  BY <1>1, PassedType
<1>6. \A n \in Ops : Told(l.due, n) => Told(link.due, n)
  BY <1>5 DEF Told
<1>7. PICK d : d = down
  OBVIOUS
<1>8. down' = d /\ UNCHANGED <<landedAt, server>>
  BY <1>7 DEF Callback, historyVars
<1>9. d \in Seq(Message) /\ VersionsOk(r.seen, server.version, d)
  BY <1>4, <1>7, SeenTypes DEF SeenInv
<1>10. /\ link.conn = "authenticating" => FirstAuth(up, d, server.subscribed)
       /\ Watchers(repo) # {} /\ link.conn = "up" => Sighted(r.seen, l, up, d, landedAt)
       /\ Watchers(repo) # {} => \A n \in Ops : Told(l.due, n) => landedAt[n] <= r.seen
  BY <1>4, <1>5, <1>6, <1>7 DEF SeenInv, Sighted, Sees
<1> QED BY <1>4, <1>5, <1>8, <1>9, <1>10, SettledSeen

\* A read is no farewell.
LEMMA ReadSeen ==
  ASSUME ClientInv, RestTypes, SeenInv, Read
  PROVE  SeenInv'
<1>1. /\ link \in LinkRecord /\ up \in Seq(RequestMessage)
  BY SeenTypes
<1>2. /\ link'.conn = link.conn /\ link'.held = link.held /\ link'.due = link.due
      /\ UNCHANGED <<repo, down, server, landedAt>>
  BY <1>1 DEF Read, LinkRecord, historyVars
<1>3. PICK m : m = [type |-> "read"]
  OBVIOUS
<1>4. m \in RequestMessage
  BY <1>3 DEF RequestMessage
<1>5. PICK v : v = up'
  OBVIOUS
<1>6. v = up \/ v = Append(up, m)
  BY <1>3, <1>5 DEF Read
<1>7. Trails(v, up) /\ \A k \in DOMAIN v \ DOMAIN up : v[k] = m
  <2>1. CASE v = up
    BY <2>1, TrailsSame
  <2>2. CASE v = Append(up, m)
    <3>1. Appended(v, up, m)
      BY <1>1, <1>4, <2>2, TrailsAppend
    <3> QED BY <3>1 DEF Appended
  <2> QED BY <1>6, <2>1, <2>2
<1>8. PICK k, d : k = link' /\ d = down
  OBVIOUS
<1>9. Trails(d, d)
  BY TrailsSame
<1>10. ASSUME FirstAuth(up, d, server.subscribed)
       PROVE  FirstAuth(v, d, server.subscribed)
  BY <1>7, <1>9, <1>10, FirstAuthTrail
<1>11. ASSUME Sighted(repo.seen, link, up, d, landedAt)
       PROVE  Sighted(repo.seen, k, v, d, landedAt)
  <2>1. \A n : Told(k.held, n) => Told(link.held, n)
    BY <1>2, <1>8
  <2>2. Awaits(up) => Awaits(v)
    BY <1>7 DEF Awaits, Trails
  <2>3. \A n : \A i \in DOMAIN d \ DOMAIN d : ~Consents(d[i], n)
    OBVIOUS
  <2> QED BY <1>9, <1>11, <2>1, <2>2, <2>3, SightedTrail, <1>7
<1>12. ASSUME Listening(up, server.subscribed) PROVE Listening(v, server.subscribed)
  <2>1. \A i \in DOMAIN v \ DOMAIN up : v[i].type # "unwatch"
    BY <1>3, <1>7
  <2> QED BY <1>7, <1>12, <2>1, ListeningTrail
<1> QED BY <1>2, <1>5, <1>8, <1>10, <1>11, <1>12 DEF SeenInv

\* A new connection sends the token first.
LEMMA TokenSeen ==
  ASSUME ClientInv, ListenInv, RestTypes, SeenInv, ConnectWithToken
  PROVE  SeenInv'
<1>1. /\ link \in LinkRecord /\ link.conn = "down" /\ link.due = <<>>
      /\ UNCHANGED <<repo, down, server, landedAt>>
  BY SeenTypes DEF ConnectWithToken, Idle, historyVars
<1>2. link'.conn = "authenticating" /\ link'.due = <<>>
  BY <1>1 DEF ConnectWithToken, LinkRecord
<1>3. PICK m : m = [type |-> "auth"]
  OBVIOUS
<1>4. up' = <<m>>
  BY <1>3 DEF ConnectWithToken
<1>5. 1 \in DOMAIN up' /\ up'[1].type = "auth"
  BY <1>3, <1>4
<1>6. DOMAIN down = {} /\ ~server.subscribed
  BY <1>1 DEF ListenInv
<1>7. FirstAuth(up', down, server.subscribed)
  BY <1>5, <1>6 DEF FirstAuth
<1>8. \A n : ~Told(link'.due, n)
  BY <1>2 DEF Told
<1> QED BY <1>1, <1>2, <1>7, <1>8 DEF SeenInv

\* What arrives after the token's answer.
LEMMA ArrivesSeen ==
  ASSUME ClientInv, RestTypes, SeenInv, NEW type, Arrives(type)
  PROVE  /\ down' \in Seq(Message) /\ Drops(down', down) /\ down[1] = Head(down)
         /\ down[1].type = type /\ link.due = <<>>
         /\ type # "authed" => link.conn # "authenticating"
<1>1. /\ down # <<>> /\ down \in Seq(Message) /\ down' = Tail(down)
      /\ Head(down).type = type /\ link.due = <<>>
  BY ArrivesOk, SeenTypes DEF Arrives
<1>2. PICK t : t = Tail(down)
  OBVIOUS
<1>3. t \in Seq(Message) /\ Drops(t, down)
  BY <1>1, <1>2, DropsTail
<1>4. 1 \in DOMAIN down /\ down[1] = Head(down)
  BY <1>1
<1>5. ASSUME link.conn = "authenticating" PROVE type = "authed"
  BY <1>1, <1>4, <1>5 DEF SeenInv, FirstAuth
<1> QED BY <1>1, <1>2, <1>3, <1>4, <1>5

\* What else than a figure arrives lets the client see no less, and it holds back or
\* is told no more than the consent that arrived.
LEMMA ArrivesSighted ==
  ASSUME ClientInv, RestTypes, SeenInv, NEW type, Arrives(type), type # "data",
         NEW k, \A n : Told(k.held, n) => Told(link.held, n) \/ Consents(down[1], n)
  PROVE  /\ VersionsOk(repo.seen, server.version, down')
         /\ Watchers(repo) # {} /\ link.conn = "up" =>
               Sighted(repo.seen, k, up, down', landedAt)
<1>1. /\ Drops(down', down) /\ down[1].type = type /\ down' \in Seq(Message)
      /\ down \in Seq(Message) /\ repo.seen \in Nat /\ server.version \in Nat
      /\ landedAt \in [Ops -> Nat]
  BY ArrivesSeen, SeenTypes
<1>2. PICK e : e = down'
  OBVIOUS
<1>3. VersionsOk(repo.seen, server.version, e)
  <2>1. VersionsOk(repo.seen, server.version, down)
    BY DEF SeenInv
  <2> QED BY <1>1, <1>2, <2>1, VersionsDrop
<1>4. ASSUME Watchers(repo) # {}, link.conn = "up"
      PROVE  Sighted(repo.seen, k, up, e, landedAt)
  <2>1. Sighted(repo.seen, link, up, down, landedAt)
    BY <1>4 DEF SeenInv
  <2>2. repo.seen <= repo.seen
    BY <1>1
  <2> QED BY <1>1, <1>2, <2>1, <2>2, SightedDrop
<1> QED BY <1>2, <1>3, <1>4

\* What is restored when the connection is ready: who watches listens again.
LEMMA RestoreSeen ==
  ASSUME ClientInv, RestTypes, SeenInv, ConnectWithoutToken \/ ReceiveAuthed
  PROVE  SeenInv'
<1>1. link \in LinkRecord /\ up \in Seq(RequestMessage) /\ down \in Seq(Message)
  BY SeenTypes
<1>2. RestoreState(link) /\ UNCHANGED <<repo, server, landedAt>>
  BY DEF ConnectWithoutToken, ReceiveAuthed, historyVars
<1>3. link.due = <<>> /\ VersionsOk(repo.seen, server.version, down')
  <2>1. CASE ConnectWithoutToken
    <3>1. link.due = <<>> /\ down' = down
      BY <2>1 DEF ConnectWithoutToken, Idle
    <3> QED BY <3>1 DEF SeenInv
  <2>2. CASE ReceiveAuthed
    <3>1. Arrives("authed")
      BY <2>2 DEF ReceiveAuthed
    <3>2. PICK k : k = link
      OBVIOUS
    <3>3. \A n : Told(k.held, n) => Told(link.held, n) \/ Consents(down[1], n)
      BY <3>2
    <3> QED BY <3>1, <3>3, ArrivesSeen, ArrivesSighted
  <2> QED BY <2>1, <2>2
<1>4. PICK listens, requests : Restored(link, listens, requests)
  BY <1>1, <1>2, RestoreShape
<1>5. /\ up' = up \o listens \o requests
      /\ listens \in Seq(RequestMessage) /\ requests \in Seq(RequestMessage)
      /\ \A i \in DOMAIN listens : listens[i].type \in {"watch", "read"}
      /\ \A i \in DOMAIN requests : requests[i].type = "put"
      /\ link'.conn = "up" /\ link'.due = link.due
      /\ Watchers(repo) # {} => \E i \in DOMAIN listens : listens[i].type = "watch"
  BY <1>4 DEF Restored
<1>6. PICK u : u = up \o listens
  OBVIOUS
<1>7. PICK w : w = u \o requests
  OBVIOUS
<1>8. u \in Seq(RequestMessage) /\ Joined(u, up, listens)
  BY <1>1, <1>5, <1>6, TrailsJoin
<1>9. Joined(w, u, requests)
  BY <1>5, <1>7, <1>8, TrailsJoin
<1>10. Trails(u, up) /\ Trails(w, u) /\ Trails(w, up)
  BY <1>8, <1>9, TrailsTrails DEF Joined
<1>11. ASSUME NEW k \in DOMAIN w \ DOMAIN up PROVE w[k].type # "unwatch"
  <2>1. CASE k \in DOMAIN u
    <3>1. w[k] = u[k]
      BY <1>10, <2>1 DEF Trails
    <3>2. PICK i \in DOMAIN listens : u[k] = listens[i]
      BY <1>8, <1>11, <2>1 DEF Joined
    <3> QED BY <1>5, <3>1, <3>2
  <2>2. CASE k \notin DOMAIN u
    <3>1. PICK i \in DOMAIN requests : w[k] = requests[i]
      BY <1>9, <1>11, <2>2 DEF Joined
    <3> QED BY <1>5, <3>1
  <2> QED BY <2>1, <2>2
<1>12. PICK k, d : k = link' /\ d = down'
  OBVIOUS
<1>13. ASSUME Watchers(repo) # {}
       PROVE  Sighted(repo.seen, k, w, d, landedAt) /\ Listening(w, server.subscribed)
  <2>1. PICK i \in DOMAIN listens : listens[i].type = "watch"
    BY <1>5, <1>13
  <2>2. PICK y \in DOMAIN u \ DOMAIN up : u[y] = listens[i]
    BY <1>8 DEF Joined
  <2>3. y \in DOMAIN w \ DOMAIN up /\ w[y].type = "watch"
    BY <1>10, <2>1, <2>2 DEF Trails
  <2>4. \A n \in Ops : Coming(w, d, landedAt[n])
    BY <2>3 DEF Coming, Awaits
  <2>5. Sighted(repo.seen, k, w, d, landedAt)
    BY <2>4, SightedCome
  <2>6. Listening(w, server.subscribed)
    BY <1>10, <1>11, <2>3, ListeningWatch
  <2> QED BY <2>5, <2>6
<1>14. up' = w /\ \A n : ~Told(link'.due, n)
  BY <1>3, <1>5, <1>6, <1>7 DEF Told
<1> QED BY <1>2, <1>3, <1>5, <1>12, <1>13, <1>14 DEF SeenInv

\* The figure the database tells is seen.
LEMMA DataSeen ==
  ASSUME ClientInv, RestTypes, SeenInv, ReceiveData
  PROVE  SeenInv'
<1>1. PICK r : /\ Handled(r, link, {}, {})
               /\ r.seen = IF Watchers(repo) = {} THEN repo.seen ELSE Head(down).version
               /\ Watchers(r) \subseteq Watchers(repo)
  BY DataShape
<1>2. r \in RepoRecord /\ link \in LinkRecord /\ Settle(r, link) /\ r.seen \in Nat
  BY <1>1 DEF Handled, RepoOk, RepoRecord
<1>3. Arrives("data") /\ UNCHANGED <<landedAt, server>>
  BY DEF ReceiveData, historyVars
<1>4. PICK d : d = down'
  OBVIOUS
<1>5. /\ d \in Seq(Message) /\ Drops(d, down) /\ down[1] = Head(down)
      /\ down[1].type = "data" /\ link.due = <<>> /\ link.conn # "authenticating"
  BY <1>3, <1>4, ArrivesSeen
<1>6. /\ repo.seen \in Nat /\ server.version \in Nat /\ down \in Seq(Message)
      /\ landedAt \in [Ops -> Nat]
  BY SeenTypes
<1>7. VersionsOk(repo.seen, server.version, down)
  BY DEF SeenInv
<1>8. PICK z : z = r.seen
  OBVIOUS
<1>9. VersionsOk(z, server.version, d)
  <2>1. z = repo.seen \/ (down[1].type = "data" /\ z = down[1].version)
    BY <1>1, <1>5, <1>8
  <2> QED BY <1>5, <1>6, <1>7, <2>1, VersionsDrop
<1>10. PICK l : l = link
  OBVIOUS
<1>11. ASSUME Watchers(repo) # {}, link.conn = "up"
       PROVE  Sighted(z, l, up, d, landedAt)
  <2>1. Sighted(repo.seen, link, up, down, landedAt)
    BY <1>11 DEF SeenInv
  <2>2. z = down[1].version
    BY <1>1, <1>5, <1>8, <1>11
  <2>3. z \in Nat /\ repo.seen <= z /\ down[1].version <= z
    <3>1. 1 \in DOMAIN down
      BY <1>5 DEF Drops
    <3>2. repo.seen <= down[1].version
      BY <1>5, <1>7, <3>1 DEF VersionsOk
    <3> QED BY <1>2, <1>8, <2>2, <3>2
  <2>4. \A n : Told(l.held, n) => Told(link.held, n) \/ Consents(down[1], n)
    BY <1>10
  <2> QED BY <1>5, <1>6, <2>1, <2>3, <2>4, SightedDrop
<1>12. \A n \in Ops : ~Told(l.due, n)
  BY <1>5, <1>10 DEF Told
<1>13. /\ down' = d /\ l \in LinkRecord /\ Settle(r, l)
       /\ l.conn = link.conn /\ l.held = link.held
  BY <1>2, <1>4, <1>10
<1> QED BY <1>2, <1>3, <1>5, <1>8, <1>9, <1>11, <1>12, <1>13, SettledSeen

\* The data of another location shows nothing.
LEMMA ElsewhereSeen ==
  ASSUME ClientInv, RestTypes, SeenInv, ReceiveElsewhere
  PROVE  SeenInv'
<1>1. link \in LinkRecord /\ Arrives("elsewhere") /\ UNCHANGED <<repo, up, server, landedAt>>
  BY SeenTypes DEF ReceiveElsewhere, historyVars
<1>2. link'.conn = link.conn /\ link'.held = link.held /\ link'.due = link.due
  BY <1>1 DEF ReceiveElsewhere, LinkRecord
<1>3. PICK k : k = link'
  OBVIOUS
<1>4. \A n : Told(k.held, n) => Told(link.held, n) \/ Consents(down[1], n)
  BY <1>2, <1>3
<1>5. /\ VersionsOk(repo.seen, server.version, down')
      /\ Watchers(repo) # {} /\ link.conn = "up" =>
            Sighted(repo.seen, k, up, down', landedAt)
  BY <1>1, <1>4, ArrivesSighted
<1>6. link.conn # "authenticating"
  BY <1>1, ArrivesSeen
<1> QED BY <1>1, <1>2, <1>3, <1>5, <1>6 DEF SeenInv

\* When no listen is unanswered, what is covered is seen.
LEMMA CoversNone ==
  ASSUME NEW s, NEW u \in Seq(RequestMessage), NEW d \in Seq(Message), Count(u) = 0,
         Count(d) = 0, NEW v, Covers(s, u, d, v)
  PROVE  v <= s
<1>1. /\ \A i \in DOMAIN u : ~Listens(u[i])
      /\ \A i \in DOMAIN d : ~Listens(d[i])
  BY NoneListens
<1>2. ~Coming(u, d, v)
  BY <1>1 DEF Coming, Awaits, Listens
<1> QED BY <1>2 DEF Covers

\* The last answer to a listen lets pass what was held back for it, which is seen.
LEMMA ListenedSeen ==
  ASSUME ClientInv, ListenInv, RestTypes, SeenInv, ReceiveListened
  PROVE  SeenInv'
<1>1. /\ link \in LinkRecord /\ up \in Seq(RequestMessage) /\ Arrives("listened")
      /\ UNCHANGED <<repo, up, server, landedAt>>
  BY SeenTypes DEF ReceiveListened, historyVars
<1>2. /\ link'.conn = link.conn
      /\ \/ link'.held = link.held /\ link'.due = link.due
         \/ link'.held = <<>> /\ link'.due = link.held /\ link.unacked = 1
  BY <1>1 DEF ReceiveListened, Released, LinkRecord
<1>3. /\ link.due = <<>> /\ link.conn # "authenticating" /\ down' \in Seq(Message)
      /\ link.conn \in {"down", "authenticating", "up"}
  BY <1>1, ArrivesSeen DEF LinkRecord
<1>4. /\ Count(down) = 1 + Count(down') /\ Count(down') \in Nat /\ Count(up) \in Nat
      /\ link.conn # "down"
  BY <1>1, ArrivesListens
<1>5. PICK k, h : k = link' /\ h = link
  OBVIOUS
<1>6. \A n : ~Told(<<>>, n)
  BY DEF Told
<1>7. /\ \A n : Told(k.held, n) => Told(link.held, n) \/ Consents(down[1], n)
      /\ \A n : Told(h.held, n) => Told(link.held, n) \/ Consents(down[1], n)
  BY <1>2, <1>5, <1>6
<1>8. /\ VersionsOk(repo.seen, server.version, down')
      /\ Watchers(repo) # {} =>
            /\ Sighted(repo.seen, k, up, down', landedAt)
            /\ Sighted(repo.seen, h, up, down', landedAt)
  BY <1>1, <1>3, <1>4, <1>7, ArrivesSighted
<1>9. ASSUME Watchers(repo) # {}, NEW n \in Ops, Told(k.due, n)
      PROVE  landedAt[n] <= repo.seen
  <2>1. link.unacked = 1 /\ Told(link.held, n)
    BY <1>2, <1>3, <1>5, <1>6, <1>9
  <2>2. Count(up) = 0 /\ Count(down') = 0
    BY <1>4, <2>1 DEF ListenInv
  <2>3. Covers(repo.seen, up, down', landedAt[n])
    BY <1>5, <1>8, <1>9, <2>1 DEF Sighted, Sees
  <2> QED BY <1>1, <1>3, <2>2, <2>3, CoversNone
<1>10. Watchers(repo) # {} => Listening(up, server.subscribed)
  BY <1>3, <1>4 DEF SeenInv
<1> QED BY <1>1, <1>2, <1>3, <1>5, <1>8, <1>9, <1>10 DEF SeenInv

\* What is told after an answer joined the others.
LEMMA ToldAppend ==
  ASSUME NEW q \in Seq(AnswerRecord), NEW answer \in AnswerRecord,
         NEW s, s = Append(q, answer), NEW n, Told(s, n)
  PROVE  Told(q, n) \/ (answer.status = "ok" /\ n \in answer.of)
<1>1. Appended(s, q, answer)
  BY TrailsAppend
<1>2. PICK i \in DOMAIN s : n \in s[i].of /\ s[i].status = "ok"
  BY DEF Told
<1>3. i \in DOMAIN q \/ s[i] = answer
  BY <1>1, <1>2 DEF Appended
<1>4. i \in DOMAIN q => s[i] = q[i]
  BY <1>1 DEF Appended, Trails
<1> QED BY <1>2, <1>3, <1>4 DEF Told

\* What an answer changes: nothing, or it is held back for a listen, or it is due.
LEMMA AnswerEffect ==
  ASSUME ClientInv, ReceiveAnswer, NEW m, m = Head(down), m \in Message, m.type = "answer"
  PROVE  /\ link'.conn = link.conn
         /\ \A n : Told(link'.held, n) =>
               Told(link.held, n) \/ (m.status = "ok" /\ n \in m.of)
         /\ \A n : Told(link'.due, n) =>
               Told(link.due, n) \/ (m.status = "ok" /\ n \in m.of /\ ~HoldsBack(link))
<1>1. link \in LinkRecord /\ link.held \in Seq(AnswerRecord)
  BY DEF ClientInv, ClientOk, LinkRecord
<1>2. PICK answer : answer = [of |-> m.of, status |-> m.status]
  OBVIOUS
<1>3. answer \in AnswerRecord /\ answer.of = m.of /\ answer.status = m.status
  BY <1>2 DEF Message, AnswerRecord
<1>4. PICK mine : mine = {j \in DOMAIN link.puts : link.puts[j].of = answer.of}
  OBVIOUS
<1>5. PICK puts : puts = Without(link.puts, CHOOSE j \in mine : TRUE)
  OBVIOUS
<1>6. \/ link' = link
      \/ HoldsBack(link) /\ link' = [link EXCEPT !.puts = puts, !.held = Append(@, answer)]
      \/ ~HoldsBack(link) /\ link' = [link EXCEPT !.puts = puts, !.due = <<answer>>]
  BY <1>2, <1>4, <1>5 DEF ReceiveAnswer
<1>7. PICK held : held = Append(link.held, answer)
  OBVIOUS
<1>8. /\ link'.conn = link.conn
      /\ \/ link'.held = link.held /\ link'.due = link.due
         \/ link'.held = held /\ link'.due = link.due
         \/ link'.held = link.held /\ link'.due = <<answer>> /\ ~HoldsBack(link)
  BY <1>1, <1>6, <1>7 DEF LinkRecord
<1>9. \A n : Told(held, n) => Told(link.held, n) \/ (m.status = "ok" /\ n \in m.of)
  BY <1>1, <1>3, <1>7, ToldAppend, Zenon
<1>10. \A n : Told(<<answer>>, n) => m.status = "ok" /\ n \in m.of
  BY <1>3 DEF Told
<1> QED BY <1>8, <1>9, <1>10

\* An answer is told at once only when the client has seen what it is about.
LEMMA AnswerSeen ==
  ASSUME ClientInv, ListenInv, RestTypes, SeenInv, ReceiveAnswer
  PROVE  SeenInv'
<1>1. /\ link \in LinkRecord /\ up \in Seq(RequestMessage) /\ Arrives("answer")
      /\ UNCHANGED <<repo, up, server, landedAt>>
  BY SeenTypes DEF ReceiveAnswer
<1>2. /\ link.due = <<>> /\ link.conn # "authenticating" /\ down' \in Seq(Message)
      /\ link.conn \in {"down", "authenticating", "up"} /\ down[1] = Head(down)
      /\ Drops(down', down)
  BY <1>1, ArrivesSeen DEF LinkRecord
<1>3. /\ Count(down) = Count(down') /\ Count(down') \in Nat /\ Count(up) \in Nat
      /\ link.conn # "down"
  BY <1>1, ArrivesListens
<1>4. PICK m : m = Head(down)
  OBVIOUS
<1>5. m \in Message /\ m.type = "answer" /\ m = down[1]
  BY <1>1, <1>2, <1>4, ArrivesOk
<1>6. /\ link'.conn = link.conn
      /\ \A n : Told(link'.held, n) =>
            Told(link.held, n) \/ (m.status = "ok" /\ n \in m.of)
      /\ \A n : Told(link'.due, n) =>
            Told(link.due, n) \/ (m.status = "ok" /\ n \in m.of /\ ~HoldsBack(link))
  BY <1>4, <1>5, AnswerEffect
<1>7. PICK k : k = link'
  OBVIOUS
<1>8. \A n : Told(k.held, n) => Told(link.held, n) \/ Consents(down[1], n)
  BY <1>5, <1>6, <1>7 DEF Consents
<1>9. /\ VersionsOk(repo.seen, server.version, down')
      /\ Watchers(repo) # {} => Sighted(repo.seen, k, up, down', landedAt)
  BY <1>1, <1>2, <1>3, <1>8, ArrivesSighted
<1>10. ASSUME Watchers(repo) # {}, NEW n \in Ops, Told(k.due, n)
       PROVE  landedAt[n] <= repo.seen
  <2>1. m.status = "ok" /\ n \in m.of /\ ~HoldsBack(link)
    BY <1>2, <1>6, <1>7, <1>10 DEF Told
  <2>2. Count(up) = 0 /\ Count(down) = 0
    <3>1. link.unacked \in Int /\ ~(link.unacked > 0)
      BY <1>1, <2>1 DEF HoldsBack, LinkRecord
    <3> QED BY <1>3, <3>1 DEF ListenInv
  <2>3. 1 \in DOMAIN down /\ Consents(down[1], n)
    BY <1>2, <1>5, <2>1 DEF Consents, Drops
  <2>4. ~Before(down, 1, landedAt[n])
    <3>1. \A j \in DOMAIN down : ~(j < 1)
      BY SeenTypes, Versions
    <3> QED BY <3>1 DEF Before
  <2>5. Sighted(repo.seen, link, up, down, landedAt)
    BY <1>2, <1>3, <1>10 DEF SeenInv
  <2>6. Covers(repo.seen, up, down, landedAt[n])
    BY <2>3, <2>4, <2>5 DEF Sighted, Sees
  <2> QED BY <1>1, <2>2, <2>6, CoversNone, SeenTypes
<1>11. Watchers(repo) # {} => Listening(up, server.subscribed)
  BY <1>2, <1>3 DEF SeenInv
<1> QED BY <1>1, <1>2, <1>6, <1>7, <1>9, <1>10, <1>11 DEF SeenInv

\* What the database takes is the first request of the client.
LEMMA TakesFirst ==
  ASSUME ClientInv, NEW type, Takes(type)
  PROVE  /\ Drops(up', up) /\ up[1].type = type
         /\ \A k \in DOMAIN up : k \in Nat
         /\ type # "watch" => (Awaits(up) => Awaits(up'))
<1>1. up # <<>> /\ up \in Seq(RequestMessage) /\ up' = Tail(up) /\ Head(up).type = type
  BY DEF ClientInv, ClientOk, Takes
<1>2. PICK t : t = Tail(up)
  OBVIOUS
<1>3. Drops(t, up)
  BY <1>1, <1>2, DropsTail
<1>4. up[1] = Head(up) /\ \A k \in DOMAIN up : k \in Nat
  BY <1>1
<1>5. ASSUME type # "watch", Awaits(up) PROVE Awaits(t)
  <2>1. PICK j \in DOMAIN up : up[j].type = "watch"
    BY <1>5 DEF Awaits
  <2>2. j # 1
    BY <1>1, <1>4, <1>5, <2>1
  <2>3. j - 1 \in DOMAIN t /\ t[j - 1] = up[j]
    BY <1>3, <2>2 DEF Drops
  <2> QED BY <2>1, <2>3 DEF Awaits
<1> QED BY <1>1, <1>2, <1>3, <1>4, <1>5

\* The token is the first thing it takes, and the first thing it answers.
LEMMA TakeAuthSeen ==
  ASSUME ClientInv, RestTypes, SeenInv, TakeAuth
  PROVE  SeenInv'
<1>1. Takes("auth") /\ UNCHANGED <<repo, link, server, landedAt>>
  BY DEF TakeAuth, historyVars
<1>2. /\ repo.seen \in Nat /\ server.version \in Nat /\ down \in Seq(Message)
  BY SeenTypes
<1>3. PICK m : m = [type |-> "authed"]
  OBVIOUS
<1>4. m \in Message /\ m.type = "authed"
  BY <1>3 DEF Message
<1>5. PICK e, u : e = Append(down, m) /\ u = up'
  OBVIOUS
<1>6. e \in Seq(Message) /\ Appended(e, down, m)
  BY <1>2, <1>4, <1>5, TrailsAppend
<1>7. Trails(e, down) /\ \A k \in DOMAIN e \ DOMAIN down : e[k] = m
  BY <1>6 DEF Appended
<1>8. down' = e
  BY <1>3, <1>5 DEF TakeAuth
<1>9. VersionsOk(repo.seen, server.version, e)
  <2>1. VersionsOk(repo.seen, server.version, down)
    BY DEF SeenInv
  <2>2. /\ server.version <= server.version
        /\ \A k \in DOMAIN e \ DOMAIN down : e[k].type = "data" => e[k].version = server.version
    BY <1>2, <1>4, <1>7
  <2> QED BY <1>2, <1>6, <1>7, <2>1, <2>2, VersionsTrail
<1>10. ASSUME link.conn = "authenticating" PROVE FirstAuth(u, e, server.subscribed)
  <2>1. CASE DOMAIN down = {}
    <3>1. down = <<>>
      BY <1>2, <2>1
    <3>2. e = <<m>>
      BY <1>5, <3>1
    <3> QED BY <1>4, <3>2 DEF FirstAuth
  <2>2. CASE 1 \in DOMAIN down /\ down[1].type = "authed"
    BY <1>7, <2>2 DEF FirstAuth, Trails
  <2> QED BY <1>10, <2>1, <2>2 DEF SeenInv, FirstAuth
<1>11. /\ Drops(u, up) /\ up[1].type = "auth" /\ \A k \in DOMAIN up : k \in Nat
       /\ Awaits(up) => Awaits(u)
  BY <1>1, <1>5, TakesFirst
<1>12. ASSUME Sighted(repo.seen, link, up, down, landedAt)
       PROVE  Sighted(repo.seen, link, u, e, landedAt)
  <2>1. \A n : \A i \in DOMAIN e \ DOMAIN down : ~Consents(e[i], n)
    BY <1>4, <1>7 DEF Consents
  <2>2. \A n : Told(link.held, n) => Told(link.held, n)
    OBVIOUS
  <2> QED BY <1>7, <1>11, <1>12, <2>1, <2>2, SightedTrail
<1>13. ASSUME Listening(up, server.subscribed) PROVE Listening(u, server.subscribed)
  <2>1. PICK b : b = server.subscribed
    OBVIOUS
  <2>2. Listening(up, b)
    BY <1>13, <2>1
  <2>3. Listening(u, b)
    BY <1>11, <2>2, ListeningDrop
  <2> QED BY <2>1, <2>3
<1> QED BY <1>1, <1>5, <1>8, <1>9, <1>10, <1>12, <1>13 DEF SeenInv

\* A listen is answered with the newest figure, for which everything was held back.
LEMMA TakeWatchSeen ==
  ASSUME ClientInv, RestTypes, FlowInv, SeenInv, TakeWatch
  PROVE  SeenInv'
<1>1. /\ Takes("watch") /\ UNCHANGED <<repo, link, landedAt>>
      /\ server' = [server EXCEPT !.subscribed = TRUE]
  BY DEF TakeWatch, historyVars
<1>2. /\ repo.seen \in Nat /\ server.version \in Nat /\ down \in Seq(Message)
      /\ server \in ServerRecord /\ landedAt \in [Ops -> Nat]
  BY SeenTypes
<1>3. server'.version = server.version /\ server'.subscribed = TRUE
  BY <1>1, <1>2 DEF ServerRecord
<1>4. PICK x, y : x = Data(server.value, server.version) /\ y = Listened
  OBVIOUS
<1>5. /\ x \in Message /\ x.type = "data" /\ x.version = server.version
      /\ y \in Message /\ y.type = "listened"
  <2>1. server.value \in Nat
    BY <1>2 DEF ServerRecord
  <2> QED BY <1>2, <1>4, <2>1 DEF Data, Listened, Message
<1>6. PICK q : q = <<x, y>>
  OBVIOUS
<1>7. q \in Seq(Message) /\ DOMAIN q = {1, 2} /\ q[1] = x /\ q[2] = y
  BY <1>5, <1>6
<1>8. PICK e, u : e = down \o q /\ u = up'
  OBVIOUS
<1>9. down' = e
  BY <1>4, <1>6, <1>8 DEF TakeWatch
<1>10. e \in Seq(Message) /\ Joined(e, down, q)
  BY <1>2, <1>7, <1>8, TrailsJoin
<1>11. /\ Trails(e, down)
       /\ \A k \in DOMAIN e \ DOMAIN down : e[k] = x \/ e[k] = y
  BY <1>7, <1>10 DEF Joined
<1>12. VersionsOk(repo.seen, server.version, e)
  <2>1. VersionsOk(repo.seen, server.version, down)
    BY DEF SeenInv
  <2>2. /\ server.version <= server.version
        /\ \A k \in DOMAIN e \ DOMAIN down : e[k].type = "data" => e[k].version = server.version
    BY <1>2, <1>5, <1>11
  <2> QED BY <1>2, <1>10, <1>11, <2>1, <2>2, VersionsTrail
<1>13. /\ Drops(u, up) /\ up[1].type = "watch" /\ \A k \in DOMAIN up : k \in Nat
  BY <1>1, <1>8, TakesFirst
<1>14. ASSUME link.conn = "authenticating" PROVE FirstAuth(u, e, TRUE)
  <2>1. 1 \in DOMAIN down /\ down[1].type = "authed"
    BY <1>13, <1>14 DEF SeenInv, FirstAuth
  <2> QED BY <1>11, <2>1 DEF FirstAuth, Trails
<1>15. Sighted(repo.seen, link, u, e, landedAt)
  <2>1. PICK a \in Nat : a = Len(down)
    BY <1>2
  <2>2. /\ DOMAIN e = 1 .. a + 2 /\ e[a + 1] = x /\ e[a + 2] = y
    BY <1>2, <1>6, <1>8, <2>1
  <2>3. /\ a + 1 \in DOMAIN e /\ a + 2 \in DOMAIN e /\ a + 1 < a + 2
    BY <2>2
  <2>4. ASSUME NEW n \in Ops PROVE Coming(u, e, landedAt[n])
    <3>1. landedAt[n] <= server.version
      BY DEF FlowInv
    <3>2. Newer(e[a + 1], landedAt[n]) /\ e[a + 2].type = "listened"
      BY <1>5, <2>2, <3>1 DEF Newer
    <3> QED BY <2>3, <3>2 DEF Coming
  <2> QED BY <2>4, SightedCome
<1>16. ASSUME Listening(up, server.subscribed) PROVE Listening(u, TRUE)
  <2>1. PICK b, c : b = server.subscribed /\ c = TRUE
    OBVIOUS
  <2>2. Listening(up, b) /\ IF up[1].type = "watch" THEN c ELSE (up[1].type # "unwatch" => c = b)
    BY <1>13, <1>16, <2>1
  <2>3. Listening(u, c)
    BY <1>13, <2>2, ListeningDrop
  <2> QED BY <2>1, <2>3
<1> QED BY <1>1, <1>3, <1>8, <1>9, <1>12, <1>14, <1>15, <1>16 DEF SeenInv

\* Who hears of a farewell hears of the listen after it.
LEMMA TakeUnwatchSeen ==
  ASSUME ClientInv, RestTypes, SeenInv, TakeUnwatch
  PROVE  SeenInv'
<1>1. /\ Takes("unwatch") /\ UNCHANGED <<repo, link, down, landedAt>>
      /\ server' = [server EXCEPT !.subscribed = FALSE] /\ server \in ServerRecord
  BY SeenTypes DEF TakeUnwatch, historyVars
<1>2. server'.version = server.version /\ server'.subscribed = FALSE
  BY <1>1 DEF ServerRecord
<1>3. PICK u, d : u = up' /\ d = down
  OBVIOUS
<1>4. /\ Drops(u, up) /\ up[1].type = "unwatch" /\ \A k \in DOMAIN up : k \in Nat
      /\ Awaits(up) => Awaits(u)
  BY <1>1, <1>3, TakesFirst
<1>5. ASSUME link.conn = "authenticating" PROVE FirstAuth(u, d, FALSE)
  BY <1>3, <1>4, <1>5 DEF SeenInv, FirstAuth
<1>6. ASSUME Sighted(repo.seen, link, up, d, landedAt)
      PROVE  Sighted(repo.seen, link, u, d, landedAt)
  <2>1. Trails(d, d) /\ \A n : \A i \in DOMAIN d \ DOMAIN d : ~Consents(d[i], n)
    BY TrailsSame
  <2>2. \A n : Told(link.held, n) => Told(link.held, n)
    OBVIOUS
  <2> QED BY <1>4, <1>6, <2>1, <2>2, SightedTrail
<1>7. ASSUME Listening(up, server.subscribed) PROVE Listening(u, FALSE)
  <2>1. PICK b, c : b = server.subscribed /\ c = FALSE
    OBVIOUS
  <2>2. Listening(up, b) /\ IF up[1].type = "watch" THEN c ELSE (up[1].type # "unwatch" => c = b)
    BY <1>4, <1>7, <2>1
  <2>3. Listening(u, c)
    BY <1>4, <2>2, ListeningDrop
  <2> QED BY <2>1, <2>3
<1> QED BY <1>1, <1>2, <1>3, <1>5, <1>6, <1>7 DEF SeenInv

\* A read of another location is answered after everything before it.
LEMMA TakeReadSeen ==
  ASSUME ClientInv, RestTypes, SeenInv, TakeRead
  PROVE  SeenInv'
<1>1. Takes("read") /\ UNCHANGED <<repo, link, server, landedAt>>
  BY DEF TakeRead, historyVars
<1>2. /\ repo.seen \in Nat /\ server.version \in Nat /\ down \in Seq(Message)
  BY SeenTypes
<1>3. PICK x, y : x = [type |-> "elsewhere"] /\ y = Listened
  OBVIOUS
<1>4. /\ x \in Message /\ x.type = "elsewhere"
      /\ y \in Message /\ y.type = "listened"
  BY <1>3 DEF Listened, Message
<1>5. PICK q : q = <<x, y>>
  OBVIOUS
<1>6. q \in Seq(Message) /\ DOMAIN q = {1, 2} /\ q[1] = x /\ q[2] = y
  BY <1>4, <1>5
<1>7. PICK e, u : e = down \o q /\ u = up'
  OBVIOUS
<1>8. down' = e
  BY <1>3, <1>5, <1>7 DEF TakeRead
<1>9. e \in Seq(Message) /\ Joined(e, down, q)
  BY <1>2, <1>6, <1>7, TrailsJoin
<1>10. /\ Trails(e, down)
       /\ \A k \in DOMAIN e \ DOMAIN down : e[k].type \in {"elsewhere", "listened"}
  BY <1>4, <1>6, <1>9 DEF Joined
<1>11. VersionsOk(repo.seen, server.version, e)
  <2>1. VersionsOk(repo.seen, server.version, down)
    BY DEF SeenInv
  <2>2. /\ server.version <= server.version
        /\ \A k \in DOMAIN e \ DOMAIN down : e[k].type = "data" => e[k].version = server.version
    BY <1>2, <1>10
  <2> QED BY <1>2, <1>9, <1>10, <2>1, <2>2, VersionsTrail
<1>12. /\ Drops(u, up) /\ up[1].type = "read" /\ \A k \in DOMAIN up : k \in Nat
       /\ Awaits(up) => Awaits(u)
  BY <1>1, <1>7, TakesFirst
<1>13. ASSUME link.conn = "authenticating" PROVE FirstAuth(u, e, server.subscribed)
  <2>1. 1 \in DOMAIN down /\ down[1].type = "authed"
    BY <1>12, <1>13 DEF SeenInv, FirstAuth
  <2> QED BY <1>10, <2>1 DEF FirstAuth, Trails
<1>14. ASSUME Sighted(repo.seen, link, up, down, landedAt)
       PROVE  Sighted(repo.seen, link, u, e, landedAt)
  <2>1. \A n : \A i \in DOMAIN e \ DOMAIN down : ~Consents(e[i], n)
    BY <1>10 DEF Consents
  <2>2. \A n : Told(link.held, n) => Told(link.held, n)
    OBVIOUS
  <2> QED BY <1>10, <1>12, <1>14, <2>1, <2>2, SightedTrail
<1>15. ASSUME Listening(up, server.subscribed) PROVE Listening(u, server.subscribed)
  <2>1. PICK b : b = server.subscribed
    OBVIOUS
  <2>2. Listening(up, b)
    BY <1>15, <2>1
  <2>3. Listening(u, b)
    BY <1>12, <2>2, ListeningDrop
  <2> QED BY <2>1, <2>3
<1> QED BY <1>1, <1>7, <1>8, <1>11, <1>13, <1>14, <1>15 DEF SeenInv

\* The credit of another client is told to those who listen, after what came before.
LEMMA CreditSeen ==
  ASSUME ClientInv, RestTypes, SeenInv, CreditByOther
  PROVE  SeenInv'
<1>1. PICK q : Credits(q)
  BY CreditShape
<1>2. /\ UNCHANGED <<repo, link, up, landedAt>> /\ q \in Seq(Message)
      /\ \A i \in DOMAIN q : q[i].type = "data" /\ q[i].version = server'.version
      /\ down' = down \o q
      /\ ~server.subscribed => DOMAIN q = {}
      /\ server'.subscribed = server.subscribed
      /\ server'.version = server.version + 1
  BY <1>1 DEF Credits
<1>3. /\ repo.seen \in Nat /\ server.version \in Nat /\ down \in Seq(Message)
  BY SeenTypes
<1>4. PICK e, z : e = down \o q /\ z = server'.version
  OBVIOUS
<1>5. e \in Seq(Message) /\ Joined(e, down, q)
  BY <1>2, <1>3, <1>4, TrailsJoin
<1>6. /\ Trails(e, down)
      /\ \A k \in DOMAIN e \ DOMAIN down : e[k].type = "data" /\ e[k].version = z
  BY <1>2, <1>4, <1>5 DEF Joined
<1>7. ~server.subscribed => DOMAIN e = DOMAIN down
  BY <1>2, <1>5, <1>6 DEF Joined, Trails
<1>8. VersionsOk(repo.seen, z, e)
  <2>1. VersionsOk(repo.seen, server.version, down)
    BY DEF SeenInv
  <2>2. z \in Nat /\ server.version <= z
    BY <1>2, <1>3, <1>4
  <2> QED BY <1>3, <1>5, <1>6, <2>1, <2>2, VersionsTrail
<1>9. ASSUME link.conn = "authenticating" PROVE FirstAuth(up, e, server.subscribed)
  <2>1. FirstAuth(up, down, server.subscribed)
    BY <1>9 DEF SeenInv
  <2>2. PICK u : u = up
    OBVIOUS
  <2>3. Trails(u, up)
    BY <2>2, TrailsSame
  <2>4. FirstAuth(u, e, server.subscribed)
    BY <1>6, <1>7, <2>1, <2>3, FirstAuthTrail
  <2> QED BY <2>2, <2>4
<1>10. ASSUME Sighted(repo.seen, link, up, down, landedAt)
       PROVE  Sighted(repo.seen, link, up, e, landedAt)
  <2>1. \A n : \A i \in DOMAIN e \ DOMAIN down : ~Consents(e[i], n)
    BY <1>6 DEF Consents
  <2>2. \A n : Told(link.held, n) => Told(link.held, n)
    OBVIOUS
  <2> QED BY <1>6, <1>10, <2>1, <2>2, SightedTrail
<1> QED BY <1>2, <1>4, <1>8, <1>9, <1>10 DEF SeenInv

\* A lost connection tells nobody of a success.
LEMMA DropSeen ==
  ASSUME ClientInv, RestTypes, SeenInv, Drop
  PROVE  SeenInv'
<1>1. /\ link \in LinkRecord /\ server \in ServerRecord
      /\ repo.seen \in Nat /\ server.version \in Nat
  BY SeenTypes
<1>2. /\ link'.conn = "down" /\ link'.due = Cancelled(link.puts)
      /\ server'.version = server.version /\ down' = <<>>
      /\ UNCHANGED <<repo, landedAt>>
  BY <1>1 DEF Drop, LinkRecord, ServerRecord, historyVars
<1>3. \A n : ~Told(link'.due, n)
  <2>1. \A j \in DOMAIN link'.due : link'.due[j].status = "disconnect"
    BY <1>2 DEF Cancelled
  <2> QED BY <2>1 DEF Told
<1>4. VersionsOk(repo.seen, server.version, down')
  BY <1>2 DEF SeenInv, VersionsOk
<1> QED BY <1>2, <1>3, <1>4 DEF SeenInv

\* The operations of a put the database has not taken are told nothing yet, nor is
\* a consent to them on its way.
LEMMA UntakenUntold ==
  ASSUME ClientInv, FlowInv, Takes("put"), NEW n, n \in Head(up).of
  PROVE  /\ ~Told(link.held, n) /\ ~Told(link.due, n)
         /\ \A k \in DOMAIN down : ~Consents(down[k], n)
<1>1. /\ Drops(up', up) /\ up[1] = Head(up) /\ Head(up).type = "put" /\ link.conn = "up"
  BY TakesFlow
<1>2. Stream(link.puts, down, up) /\ 1 \in DOMAIN up /\ Bearing(up[1])
  BY <1>1 DEF FlowInv, Drops, Bearing
<1>3. PICK i \in DOMAIN link.puts : link.puts[i].of = up[1].of
  BY <1>2 DEF Stream, Covered
<1>4. n \in link.puts[i].of /\ Pair(link.puts, up, 1, i)
  BY <1>1, <1>2, <1>3 DEF Pair
<1>5. /\ Apart(link.puts, link.held) /\ Apart(link.puts, link.due) /\ Distinct(link.puts)
      /\ link.puts \in Seq(Put)
  BY DEF ClientInv, ClientOk, LinkOk, LinkRecord
<1>6. ~Told(link.held, n) /\ ~Told(link.due, n)
  BY <1>4, <1>5 DEF Told, Apart
<1>7. ASSUME NEW k \in DOMAIN down, Consents(down[k], n) PROVE FALSE
  <2>1. Bearing(down[k]) /\ n \in down[k].of
    BY <1>7 DEF Consents, Bearing
  <2>2. PICK j \in DOMAIN link.puts : link.puts[j].of = down[k].of
    BY <1>2, <2>1 DEF Stream, Covered
  <2>3. Pair(link.puts, down, k, j)
    BY <2>1, <2>2 DEF Pair
  <2>4. j = i
    BY <1>4, <1>5, <2>1, <2>2 DEF Distinct
  <2>5. j < i
    BY <1>2, <1>4, <2>3 DEF Stream, Ahead
  <2>6. i \in Nat
    BY <1>5
  <2> QED BY <2>4, <2>5, <2>6
<1> QED BY <1>6, <1>7

\* The answer to a put comes after the figure it made, for those who listen; the
\* others will be told of it when they do.
LEMMA PutSeen ==
  ASSUME ClientInv, RestTypes, FlowInv, SeenInv, TakePut \/ RefusePut
  PROVE  SeenInv'
<1>1. PICK q, m : Answers(q, m)
  BY PutShape
<1>2. /\ Takes("put") /\ UNCHANGED <<repo, link>>
      /\ q \in Seq(Message)
      /\ \A i \in DOMAIN q : q[i].type = "data" /\ q[i].version = server'.version
      /\ m.status = "ok" /\ server.subscribed => 1 \in DOMAIN q
      /\ m \in Message /\ m.type = "answer" /\ m.of = Head(up).of
      /\ down' = Append(down \o q, m)
      /\ server'.subscribed = server.subscribed
  BY <1>1 DEF Answers
<1>3. /\ repo.seen \in Nat /\ server.version \in Nat /\ down \in Seq(Message)
      /\ landedAt \in [Ops -> Nat]
  BY SeenTypes
<1>4. PICK A, y : A = landedAt' /\ y = server'.version
  OBVIOUS
<1>5. /\ y \in Nat /\ server.version <= y
      /\ \A n \in Ops : A[n] = IF m.status = "ok" /\ n \in m.of THEN y ELSE landedAt[n]
  <2>1. CASE m.status = "ok"
    <3>1. /\ y = server.version + 1
          /\ A = [n \in Ops |-> IF n \in m.of THEN server.version + 1 ELSE landedAt[n]]
      BY <1>1, <1>4, <2>1 DEF Answers
    <3> QED BY <1>3, <2>1, <3>1
  <2>2. CASE m.status # "ok"
    <3>1. y = server.version /\ A = landedAt
      BY <1>1, <1>4, <2>2 DEF Answers
    <3> QED BY <1>3, <2>2, <3>1
  <2> QED BY <2>1, <2>2
<1>6. PICK e, u : e = down \o q /\ u = up'
  OBVIOUS
<1>7. PICK d : d = Append(e, m)
  OBVIOUS
<1>8. e \in Seq(Message) /\ Joined(e, down, q)
  BY <1>2, <1>3, <1>6, TrailsJoin
<1>9. d \in Seq(Message) /\ Appended(d, e, m)
  BY <1>2, <1>7, <1>8, TrailsAppend
<1>10. PICK w \in DOMAIN d : d[w] = m /\ DOMAIN d \ DOMAIN e = {w} /\ Trails(d, e)
  BY <1>9 DEF Appended
<1>11. /\ Trails(e, down)
       /\ \A k \in DOMAIN e \ DOMAIN down : e[k].type = "data" /\ e[k].version = y
  BY <1>2, <1>4, <1>8 DEF Joined
<1>12. Trails(d, down)
  BY <1>10, <1>11, TrailsTrails
<1>13. \A k \in DOMAIN d \ DOMAIN down :
          \/ k = w
          \/ k \in DOMAIN e /\ d[k].type = "data" /\ d[k].version = y
  BY <1>10, <1>11 DEF Trails
<1>14. VersionsOk(repo.seen, y, d)
  <2>1. VersionsOk(repo.seen, server.version, down)
    BY DEF SeenInv
  <2>2. \A k \in DOMAIN d \ DOMAIN down : d[k].type = "data" => d[k].version = y
    BY <1>2, <1>10, <1>13
  <2> QED BY <1>3, <1>5, <1>9, <1>12, <2>1, <2>2, VersionsTrail
<1>15. /\ Drops(u, up) /\ up[1].type = "put" /\ \A k \in DOMAIN up : k \in Nat
       /\ Awaits(up) => Awaits(u)
  BY <1>2, <1>6, TakesFirst
<1>16. link.conn = "up"
  BY <1>2, TakesFlow
<1>17. \A n \in m.of : /\ ~Told(link.held, n) /\ ~Told(link.due, n)
                       /\ \A k \in DOMAIN down : ~Consents(down[k], n)
  BY <1>2, UntakenUntold
<1>18. ASSUME Watchers(repo) # {} PROVE Sighted(repo.seen, link, u, d, A)
  <2> SUFFICES ASSUME NEW n \in Ops PROVE Sees(n, repo.seen, link, u, d, A[n])
    BY DEF Sighted
  <2>1. Sees(n, repo.seen, link, up, down, landedAt[n])
    BY <1>16, <1>18 DEF SeenInv, Sighted
  <2>2. CASE m.status = "ok" /\ n \in m.of
    <3>1. A[n] = y
      BY <1>5, <2>2
    <3>2. Awaits(u) \/ Before(d, w, y)
      <4>1. CASE server.subscribed
        <5>1. 1 \in DOMAIN q
          BY <1>2, <2>2, <4>1
        <5>2. PICK k \in DOMAIN e \ DOMAIN down : e[k] = q[1]
          BY <1>8, <5>1 DEF Joined
        <5>3. k \in DOMAIN d /\ d[k] = e[k] /\ k < w
          BY <1>10, <5>2 DEF Trails
        <5>4. Newer(d[k], y)
          BY <1>5, <1>11, <5>2, <5>3 DEF Newer
        <5> QED BY <5>3, <5>4 DEF Before
      <4>2. CASE ~server.subscribed
        <5>1. Awaits(up)
          BY <1>16, <1>18, <4>2 DEF SeenInv, Listening, Awaits
        <5> QED BY <1>15, <5>1
      <4> QED BY <4>1, <4>2
    <3>3. Covers(repo.seen, u, d, y) \/ Before(d, w, y)
      BY <3>2 DEF Covers, Coming
    <3>4. ASSUME NEW k \in DOMAIN d, Consents(d[k], n) PROVE k = w
      <4>1. k \notin DOMAIN down
        BY <1>12, <1>17, <2>2, <3>4 DEF Trails
      <4>2. d[k].type # "data"
        BY <3>4 DEF Consents
      <4> QED BY <1>13, <4>1, <4>2
    <3> QED BY <1>17, <2>2, <3>1, <3>3, <3>4 DEF Sees
  <2>3. CASE ~(m.status = "ok" /\ n \in m.of)
    <3>1. A[n] = landedAt[n]
      BY <1>5, <2>3
    <3>2. \A i \in DOMAIN d \ DOMAIN down : ~Consents(d[i], n)
      BY <1>10, <1>13, <2>3 DEF Consents
    <3>3. PICK a : a = landedAt[n]
      OBVIOUS
    <3>4. Sees(n, repo.seen, link, u, d, a)
      BY <1>12, <1>15, <2>1, <3>2, <3>3, SeesTrail
    <3> QED BY <3>1, <3>3, <3>4
  <2> QED BY <2>2, <2>3
<1>19. ASSUME Listening(up, server.subscribed) PROVE Listening(u, server.subscribed)
  <2>1. PICK b : b = server.subscribed
    OBVIOUS
  <2>2. Listening(up, b)
    BY <1>19, <2>1
  <2>3. Listening(u, b)
    BY <1>15, <2>2, ListeningDrop
  <2> QED BY <2>1, <2>3
<1>20. ASSUME Watchers(repo) # {}, NEW n \in Ops, Told(link.due, n)
       PROVE  A[n] <= repo.seen
  <2>1. A[n] = landedAt[n]
    BY <1>5, <1>17, <1>20
  <2> QED BY <1>20, <2>1 DEF SeenInv
<1>21. down' = d
  BY <1>2, <1>6, <1>7
<1> QED BY <1>2, <1>4, <1>6, <1>14, <1>16, <1>18, <1>19, <1>20, <1>21 DEF SeenInv

\* At first nothing is seen, and nothing travels.
LEMMA InitSeen == Init => SeenInv
<1> SUFFICES ASSUME Init PROVE SeenInv
  OBVIOUS
<1>1. /\ repo.seen = 0 /\ server.version = 1 /\ down = <<>> /\ link.conn = "down"
      /\ link.due = <<>>
  BY DEF Init
<1>2. VersionsOk(repo.seen, server.version, down)
  BY <1>1 DEF VersionsOk
<1>3. \A n : ~Told(link.due, n)
  BY <1>1 DEF Told
<1> QED BY <1>1, <1>2, <1>3 DEF SeenInv

\* Every step keeps what is seen.
LEMMA StepSeen ==
  ClientInv /\ ListenInv /\ RestTypes /\ FlowInv /\ SeenInv /\ [Next]_vars => SeenInv'
<1> SUFFICES ASSUME ClientInv, ListenInv, RestTypes, FlowInv, SeenInv, [Next]_vars
             PROVE  SeenInv'
  OBVIOUS
<1>1. CASE UNCHANGED vars
  <2>1. UNCHANGED <<repo, link, up, down, server, landedAt>>
    BY <1>1 DEF vars, networkVars, historyVars
  <2> QED BY <2>1 DEF SeenInv
<1>2. CASE \E n \in Ops : Transact(n)
  BY <1>2, TransactSeen
<1>3. CASE \E n \in Ops, v \in Values : Overwrite(n, v)
  BY <1>3, OverwriteSeen
<1>4. CASE Read \/ ConnectWithToken
  BY <1>4, ReadSeen, TokenSeen
<1>5. CASE ConnectWithoutToken
  BY <1>5, RestoreSeen
<1>6. CASE \E i \in DOMAIN link.due : Callback(i)
  BY <1>6, CallbackSeen
<1>7. CASE Receive
  BY <1>7, RestoreSeen, DataSeen, ElsewhereSeen, ListenedSeen, AnswerSeen DEF Receive
<1>8. CASE Take
  BY <1>8, TakeAuthSeen, TakeWatchSeen, TakeUnwatchSeen, TakeReadSeen, PutSeen DEF Take
<1>9. CASE Failure
  BY <1>9, DropSeen, PutSeen DEF Failure
<1>10. CASE CreditByOther
  BY <1>10, CreditSeen
<1> QED BY <1>1, <1>2, <1>3, <1>4, <1>5, <1>6, <1>7, <1>8, <1>9, <1>10
       DEF Next, User, Network

\* A handler that settles reports what its record does.
LEMMA SettledReport ==
  ASSUME ClientInv, NEW r, NEW l, NEW news, NEW f, Handled(r, l, news, f)
  PROVE  repo'.report = r.report
<1>1. /\ r \in RepoRecord /\ l \in LinkRecord /\ Settle(r, l)
      /\ up \in Seq(RequestMessage)
  BY DEF Handled, RepoOk, ClientInv, ClientOk
<1>2. PICK new, before, requests, after : Settled(r, l, new, before, requests, after)
  BY <1>1, SettleShape
<1> QED BY <1>2 DEF Settled

\* Only a callback reports a success, of an answer that was due.
LEMMA ReportedWasDue ==
  ASSUME ClientInv, [Next]_vars, NEW n \in Ops, repo.report[n] = "none",
         repo'.report[n] = "ok"
  PROVE  Told(link.due, n)
<1>1. CASE \E k \in Ops : Transact(k)
  <2>1. PICK k \in Ops : Transact(k)
    BY <1>1
  <2>2. PICK r : /\ Handled(r, link, {}, {})
                 /\ \A m \in Ops : r.report[m] = "ok" => repo.report[m] = "ok"
    BY <2>1, TransactShape
  <2>3. repo'.report = r.report
    BY <2>2, SettledReport
  <2> QED BY <2>2, <2>3
<1>2. CASE \E k \in Ops, v \in Values : Overwrite(k, v)
  <2>1. PICK k \in Ops, v \in Values : Overwrite(k, v)
    BY <1>2
  <2>2. PICK r : Handled(r, link, {k}, {}) /\ Steady(repo, r, {})
    BY <2>1, OverwriteShape
  <2>3. repo'.report = r.report
    BY <2>2, SettledReport
  <2> QED BY <2>2, <2>3 DEF Steady
<1>3. CASE ReceiveData
  <2>1. PICK r : /\ Handled(r, link, {}, {})
                 /\ \A m \in Ops : r.report[m] = "ok" => repo.report[m] = "ok"
    BY <1>3, DataShape
  <2>2. repo'.report = r.report
    BY <2>1, SettledReport
  <2> QED BY <2>1, <2>2
<1>4. CASE \E i \in DOMAIN link.due : Callback(i)
  <2>1. PICK i \in DOMAIN link.due : Callback(i)
    BY <1>4
  <2>2. PICK l, f, g : /\ l = Passed(link, i) /\ f = link.due[i].of
                       /\ g = Pleased(link.due[i].of, link.due[i].status)
    OBVIOUS
  <2>3. PICK r : Handled(r, l, {}, f) /\ Steady(repo, r, g)
    BY <2>1, <2>2, CallbackShape
  <2>4. repo'.report = r.report
    BY <2>3, SettledReport
  <2>5. n \in g
    BY <2>3, <2>4 DEF Steady
  <2> QED BY <2>2, <2>5 DEF Pleased, Told
<1>5. CASE repo' = repo
  BY <1>5
<1>6. \/ \E k \in Ops : Transact(k)
      \/ \E k \in Ops, v \in Values : Overwrite(k, v)
      \/ ReceiveData
      \/ \E i \in DOMAIN link.due : Callback(i)
      \/ repo' = repo
  BY DEF Next, User, Network, Failure, Read, ConnectWithToken, ConnectWithoutToken,
         Receive, ReceiveAuthed, ReceiveElsewhere, ReceiveListened, ReceiveAnswer, Take,
         TakeAuth, TakeWatch, TakeUnwatch, TakeRead, TakePut, RefusePut, Drop,
         CreditByOther, vars
<1> QED BY <1>1, <1>2, <1>3, <1>4, <1>5, <1>6

\* A client that listens never sees its own write undone: when a caller is told that
\* the database stored it, the client has seen a figure at least as new, because
\* FPersistentConnection holds answers back while listens are unanswered and the
\* database tells a change before it answers the put that made it.
THEOREM WritesStaySeen == Spec => AcknowledgedIsSeen
<1>1. Spec => [](ClientInv /\ ListenInv /\ RestTypes /\ FlowInv /\ SeenInv)
  <2>1. Init => ClientInv /\ ListenInv /\ RestTypes /\ FlowInv /\ SeenInv
    BY InitInv, InitListens, InitRest, InitFlow, InitSeen
  <2>2. /\ ClientInv /\ ListenInv /\ RestTypes /\ FlowInv /\ SeenInv /\ [Next]_vars
        => (ClientInv /\ ListenInv /\ RestTypes /\ FlowInv /\ SeenInv)'
    BY StepInv, StepListens, StepRest, StepFlow, StepSeen
  <2> QED BY <2>1, <2>2, PTL DEF Spec
<1>2. ClientInv /\ RestTypes /\ SeenInv /\ [Next]_vars =>
        [ \A n \in Ops :
            /\ repo.report[n] = "none" /\ repo'.report[n] = "ok"
            /\ Watchers(repo) # {}
            => repo.seen >= landedAt[n] ]_vars
  <2> SUFFICES ASSUME ClientInv, RestTypes, SeenInv, [Next]_vars, NEW n \in Ops,
                      repo.report[n] = "none", repo'.report[n] = "ok",
                      Watchers(repo) # {}
               PROVE  repo.seen >= landedAt[n]
    OBVIOUS
  <2>1. landedAt[n] <= repo.seen
    BY ReportedWasDue DEF SeenInv
  <2>2. landedAt[n] \in Nat /\ repo.seen \in Nat
    BY SeenTypes
  <2> QED BY <2>1, <2>2
<1> QED BY <1>1, <1>2, PTL DEF Spec, AcknowledgedIsSeen

-----------------------------------------------------------------------------
(* What follows for the callers.                                           *)

\* A transaction is applied at most once, for any number of operations, values,
\* failures and retries: FRepo sends its put again only if the earlier one was
\* found stale, or FPersistentConnection never sent it.
THEOREM TransactionsAppliedOnce == Spec => []AppliedOnce
<1>1. ClientInv => AppliedOnce
  BY DEF ClientInv, ClientOk, RepoOk, FateOk, AppliedOnce, Transactions, Is
<1> QED BY <1>1, ClientInvariant, PTL

\* What the callback of runTransactionBlock is told of a transaction is so and stays
\* so: a committed one was applied once, one given up, overridden or denied never.
THEOREM TransactionsToldTrue == Spec => []ReportsAreTrue
<1>1. ClientInv => ReportsAreTrue
  BY DEF ClientInv, ClientOk, RepoOk, FateOk, ReportsAreTrue, Transactions, Is
<1> QED BY <1>1, ClientInvariant, PTL
=============================================================================
