--------------------------- MODULE LmlLimiterProofs ---------------------------
(***************************************************************************)
(* What the limiter promises, for any number of callers, permits, tokens    *)
(* and any timeouts.                                                        *)
(***************************************************************************)
EXTENDS LmlLimiterRate, FiniteSetTheorems, SequenceTheorems, TLAPS

\* The bucket's capacity in units is a number.
LEMMA CapacityIsNat == Burst * TokenTicks \in Nat
BY LimiterAssumption, SMT

\* What taking a waiter out of the middle of the queue leaves (Semaphore.acquire,
\* waiters.splice(idx, 1)).
LEMMA RemoveAtLeaves ==
    ASSUME NEW S, NEW q \in Seq(S), NEW i \in 1 .. Len(q)
    PROVE  /\ RemoveAt(q, i) \in Seq(S)
           /\ Len(RemoveAt(q, i)) = Len(q) - 1
           /\ \A j \in 1 .. Len(q) - 1 :
                 RemoveAt(q, i)[j] = IF j < i THEN q[j] ELSE q[j + 1]
<1> DEFINE A == SubSeq(q, 1, i - 1)
           B == SubSeq(q, i + 1, Len(q))
<1>1. A \in Seq(S) /\ Len(A) = i - 1 /\ \A k \in 1 .. i - 1 : A[k] = q[k]
  OBVIOUS
<1>2. B \in Seq(S) /\ Len(B) = Len(q) - i /\ \A k \in 1 .. Len(q) - i : B[k] = q[i + k]
  OBVIOUS
<1>3. RemoveAt(q, i) = A \o B
  BY DEF RemoveAt
<1> HIDE DEF A, B
<1>4. /\ A \o B \in Seq(S)
      /\ Len(A \o B) = Len(A) + Len(B)
      /\ \A k \in 1 .. Len(A) + Len(B) :
            (A \o B)[k] = IF k <= Len(A) THEN A[k] ELSE B[k - Len(A)]
  BY <1>1, <1>2, ConcatProperties
<1>5. Len(A \o B) = Len(q) - 1
  BY <1>1, <1>2, <1>4
<1>6. ASSUME NEW j \in 1 .. Len(q) - 1
      PROVE  (A \o B)[j] = IF j < i THEN q[j] ELSE q[j + 1]
  <2>1. CASE j < i
    <3>1. j \in 1 .. Len(A) /\ j \in 1 .. i - 1
      BY <1>1, <2>1
    <3> QED
      BY <1>1, <1>2, <1>4, <2>1, <3>1
  <2>2. CASE ~(j < i)
    <3>1. /\ j - (i - 1) \in 1 .. Len(q) - i
          /\ i + (j - (i - 1)) = j + 1
          /\ ~(j <= i - 1)
          /\ j \in 1 .. Len(A) + Len(B)
      BY <1>1, <1>2, <2>2
    <3>2. (A \o B)[j] = B[j - (i - 1)]
      BY <1>1, <1>4, <3>1
    <3>3. B[j - (i - 1)] = q[i + (j - (i - 1))]
      BY <1>2, <3>1
    <3> QED
      BY <2>2, <3>1, <3>2, <3>3
  <2> QED
    BY <2>1, <2>2
<1> QED
  BY <1>3, <1>4, <1>5, <1>6

\* What the methods of the breaker make of a breaker is a breaker.
LEMMA BreakersStayTyped ==
    ASSUME NEW b \in Breakers
    PROVE  /\ AfterAdmit(b) \in Breakers
           /\ AfterSuccess(b) \in Breakers
           /\ AfterFailure(b) \in Breakers
           /\ AfterTick(b) \in Breakers
<1>1. 0 \in 0 .. FailureThreshold - 1 /\ 0 \in 0 .. OpenTicks
  BY BreakerAssumption
<1>2. AfterAdmit(b) \in Breakers
  BY Zenon DEF Breakers, AfterAdmit
<1>3. AfterSuccess(b) \in Breakers
  BY <1>1, Zenon DEF Breakers, AfterSuccess
<1>4. Opened(b) \in Breakers
  BY <1>1, Zenon DEF Breakers, Opened
<1>5. AfterFailure(b) \in Breakers
  <2>1. CASE b.state = "half_open" \/ b.failures + 1 >= FailureThreshold
    BY <1>4, <2>1 DEF AfterFailure
  <2>2. CASE ~(b.state = "half_open" \/ b.failures + 1 >= FailureThreshold)
    <3>1. b.failures + 1 \in 0 .. FailureThreshold - 1
      BY <2>2, BreakerAssumption DEF Breakers
    <3>2. AfterFailure(b) = [b EXCEPT !.failures = b.failures + 1]
      BY <2>2 DEF AfterFailure
    <3> QED
      BY <3>1, <3>2, Zenon DEF Breakers
  <2> QED
    BY <2>1, <2>2
<1>6. AfterTick(b) \in Breakers
  <2>1. (IF b.openAge < OpenTicks THEN b.openAge + 1 ELSE b.openAge) \in 0 .. OpenTicks
    BY BreakerAssumption DEF Breakers
  <2> QED
    BY <2>1, Zenon DEF AfterTick, Breakers
<1> QED
  BY <1>2, <1>3, <1>5, <1>6

--------------------------------------------------------------------------------
(***************************************************************************)
(* The semaphore.  The free permits and the holders can only be shown to    *)
(* add up together with the queue holding exactly the waiters: release      *)
(* hands a permit to whoever is first in it.                                *)
(***************************************************************************)
IInv == TypeOK /\ QueueIsWaiters /\ NobodyWaitsInVain /\ PermitsAccounted

\* A set of callers is finite, so it can be counted.
LEMMA HoldersFinite == IsFiniteSet(Holders) /\ Cardinality(Holders) \in Nat
BY LimiterAssumption, FS_Subset, FS_CardinalityType DEF Holders

\* A call that starts to hold a permit is one holder more.
LEMMA OneMoreHolder ==
    ASSUME TypeOK, NEW c \in Calls, pc[c] \notin Holding, NEW st \in Holding,
           pc' = [pc EXCEPT ![c] = st]
    PROVE  Cardinality(Holders') = Cardinality(Holders) + 1
<1>1. Holders' = Holders \cup {c} /\ c \notin Holders
  BY DEF TypeOK, Holders
<1> QED
  BY <1>1, HoldersFinite, FS_AddElement

\* A call that gives its permit back is one holder less.
LEMMA OneHolderLess ==
    ASSUME TypeOK, NEW c \in Calls, pc[c] \in Holding,
           pc' = [pc EXCEPT ![c] = "idle"]
    PROVE  Cardinality(Holders') = Cardinality(Holders) - 1
<1>1. Holders' = Holders \ {c} /\ c \in Holders
  BY DEF TypeOK, Holders, Holding
<1> QED
  BY <1>1, HoldersFinite, FS_RemoveElement

\* A permit that is handed from one call to another leaves as many holders.
LEMMA HandOver ==
    ASSUME TypeOK, NEW c \in Calls, NEW d \in Calls, c # d,
           pc[c] \in Holding, pc[d] \notin Holding,
           pc' = [pc EXCEPT ![c] = "idle", ![d] = "granted"]
    PROVE  Cardinality(Holders') = Cardinality(Holders)
<1>1. Holders' = (Holders \ {c}) \cup {d} /\ c \in Holders /\ d \notin Holders \ {c}
  BY DEF TypeOK, Holders, Holding
<1> DEFINE Others == Holders \ {c}
<1>2. IsFiniteSet(Others) /\ Cardinality(Others) = Cardinality(Holders) - 1
  BY <1>1, HoldersFinite, FS_RemoveElement
<1> HIDE DEF Others
<1>3. Cardinality(Others \cup {d}) = Cardinality(Others) + 1
  BY <1>1, <1>2, FS_AddElement DEF Others
<1>4. Cardinality(Holders') = Cardinality(Others \cup {d})
  BY <1>1 DEF Others
<1> QED
  BY <1>2, <1>3, <1>4, HoldersFinite

\* A call that moves between two steps of the same kind changes no count.
LEMMA SameHolders ==
    ASSUME TypeOK, NEW c \in Calls, NEW st \in Steps,
           pc[c] \in Holding <=> st \in Holding,
           pc' = [pc EXCEPT ![c] = st]
    PROVE  Cardinality(Holders') = Cardinality(Holders)
<1>1. Holders' = Holders
  BY DEF TypeOK, Holders
<1> QED
  BY <1>1

\* release keeps the books, whether it finds a waiter or not.
LEMMA ReleaseKeepsBooks ==
    ASSUME IInv, NEW c \in Calls, pc[c] \in Holding, Release(c)
    PROVE  /\ pc' \in [Calls -> Steps]
           /\ queue' \in Seq(Calls)
           /\ permits' \in 0 .. MaxConcurrent
           /\ QueueIsWaiters' /\ NobodyWaitsInVain' /\ PermitsAccounted'
<1>t. TypeOK /\ QueueIsWaiters /\ NobodyWaitsInVain /\ PermitsAccounted
  BY DEF IInv
<1>1. CASE queue = <<>>
  <2>1. /\ permits' = IF permits < MaxConcurrent THEN permits + 1 ELSE permits
        /\ pc' = [pc EXCEPT ![c] = "idle"]
        /\ queue' = queue
    BY <1>1 DEF Release
  <2>2. Cardinality(Holders') = Cardinality(Holders) - 1
    BY <2>1, <1>t, OneHolderLess
  <2>3. Cardinality(Holders) # 0
    <3>1. c \in Holders
      BY DEF Holders
    <3> QED
      BY <3>1, HoldersFinite, FS_EmptySet
  <2>4. PermitsAccounted' /\ permits' \in 0 .. MaxConcurrent
    BY <2>1, <2>2, <2>3, <1>t, HoldersFinite, LimiterAssumption DEF PermitsAccounted, TypeOK
  <2>5. pc' \in [Calls -> Steps] /\ queue' \in Seq(Calls)
    BY <2>1, <1>t DEF TypeOK, Steps
  <2>6. QueueIsWaiters' /\ NobodyWaitsInVain'
    BY <1>1, <2>1, <1>t DEF TypeOK, QueueIsWaiters, NobodyWaitsInVain, Holding
  <2> QED
    BY <2>4, <2>5, <2>6
<1>2. CASE queue # <<>>
  <2> DEFINE d == Head(queue)
  <2>1. /\ pc' = [pc EXCEPT ![c] = "idle", ![d] = "granted"]
        /\ queue' = Tail(queue)
        /\ permits' = permits
    BY <1>2 DEF Release
  <2>2. d \in Calls /\ d = queue[1] /\ 1 \in 1 .. Len(queue)
    BY <1>2, <1>t DEF TypeOK
  <2>3. pc[d] = "queued" /\ c # d
    BY <2>2, <1>t DEF QueueIsWaiters, Holding
  <2>4. Cardinality(Holders') = Cardinality(Holders)
    BY <2>1, <2>2, <2>3, <1>t, HandOver DEF Holding
  <2>5. /\ Len(queue) \in Nat
        /\ queue' \in Seq(Calls)
        /\ Len(queue') = Len(queue) - 1
        /\ \A i \in 1 .. Len(queue) - 1 : queue'[i] = queue[i + 1]
    BY <1>2, <2>1, <1>t DEF TypeOK
  <2>6. QueueIsWaiters'
    <3>1. \A i, j \in 1 .. Len(queue') : queue'[i] = queue'[j] => i = j
      <4> SUFFICES ASSUME NEW i \in 1 .. Len(queue'), NEW j \in 1 .. Len(queue'),
                          queue'[i] = queue'[j]
                   PROVE  i = j
        OBVIOUS
      <4>1. /\ i \in 1 .. Len(queue) - 1 /\ i + 1 \in 1 .. Len(queue)
            /\ j \in 1 .. Len(queue) - 1 /\ j + 1 \in 1 .. Len(queue)
        BY <2>5
      <4>2. queue[i + 1] = queue[j + 1]
        BY <2>5, <4>1
      <4>3. i + 1 = j + 1
        BY <4>1, <4>2, <1>t DEF QueueIsWaiters
      <4> QED
        BY <4>1, <4>3
    <3>2. ASSUME NEW e \in Calls, pc'[e] = "queued"
          PROVE  \E i \in 1 .. Len(queue') : queue'[i] = e
      <4>1. pc[e] = "queued" /\ e # d
        BY <3>2, <2>1, <2>2, <1>t DEF TypeOK
      <4>2. PICK k \in 1 .. Len(queue) : queue[k] = e
        BY <4>1, <1>t DEF QueueIsWaiters
      <4>3. k # 1
        BY <4>1, <4>2, <2>2
      <4>4. k - 1 \in 1 .. Len(queue') /\ queue'[k - 1] = queue[(k - 1) + 1]
        BY <4>2, <4>3, <2>5, <1>t DEF TypeOK
      <4> QED
        BY <4>2, <4>4, <1>t DEF TypeOK
    <3>3. ASSUME NEW e \in Calls, NEW i \in 1 .. Len(queue'), queue'[i] = e
          PROVE  pc'[e] = "queued"
      <4>1. i \in 1 .. Len(queue) - 1 /\ i + 1 \in 1 .. Len(queue) /\ i + 1 # 1
        BY <2>5
      <4>2. queue[i + 1] = e
        BY <3>3, <2>5, <4>1
      <4>3. pc[e] = "queued" /\ e # d
        BY <4>1, <4>2, <2>2, <1>t DEF QueueIsWaiters
      <4>4. e # c
        BY <4>3 DEF Holding
      <4> QED
        BY <4>3, <4>4, <2>1, <2>2, <1>t DEF TypeOK
    <3> QED
      BY <3>1, <3>2, <3>3 DEF QueueIsWaiters
  <2>7. permits = 0
    BY <1>2, <1>t DEF TypeOK, NobodyWaitsInVain
  <2>8. pc' \in [Calls -> Steps]
    BY <2>1, <2>2, <1>t DEF TypeOK, Steps
  <2> QED
    BY <2>1, <2>4, <2>5, <2>6, <2>7, <2>8, <1>t DEF PermitsAccounted, NobodyWaitsInVain, TypeOK
<1> QED
  BY <1>1, <1>2

--------------------------------------------------------------------------------
(***************************************************************************)
(* The inductive invariant, one lemma per action that moves a permit or the *)
(* queue.                                                                   *)
(***************************************************************************)

\* The limiter starts with all its permits and nobody waiting.
LEMMA InitIInv == Init => IInv
<1> SUFFICES ASSUME Init PROVE IInv
  OBVIOUS
<1>1. TypeOK
  <2>1. NewBreaker \in Breakers
    BY BreakerAssumption DEF NewBreaker, Breakers
  <2> QED
    BY <2>1, CapacityIsNat, LimiterAssumption DEF Init, TypeOK, Steps
<1>2. QueueIsWaiters /\ NobodyWaitsInVain
  BY DEF Init, QueueIsWaiters, NobodyWaitsInVain
<1>3. Holders = {}
  BY DEF Init, Holders, Holding
<1>4. PermitsAccounted
  BY <1>3, FS_EmptySet, LimiterAssumption DEF PermitsAccounted, Init
<1> QED
  BY <1>1, <1>2, <1>4 DEF IInv

\* Admission (run, up to the permit).
LEMMA CallKeepsIInv ==
    ASSUME IInv, NEW c \in Calls, Call(c)
    PROVE  IInv'
<1>t. TypeOK /\ QueueIsWaiters /\ NobodyWaitsInVain /\ PermitsAccounted
  BY DEF IInv
<1>1. breaker' \in Breakers /\ asProbe' \subseteq Calls /\ units' \in 0 .. Burst * TokenTicks
  BY <1>t, BreakersStayTyped DEF Call, TypeOK
<1>2. pc[c] = "idle"
  BY DEF Call
<1>3. CASE permits > 0
  <2>1. /\ permits' = permits - 1
        /\ pc' = [pc EXCEPT ![c] = "granted"]
        /\ left' = left /\ queue' = queue
    BY <1>3 DEF Call
  <2>2. Cardinality(Holders') = Cardinality(Holders) + 1
    BY <1>t, <1>2, <2>1, OneMoreHolder DEF Holding
  <2>3. PermitsAccounted'
    BY <1>t, <2>1, <2>2, HoldersFinite DEF PermitsAccounted, TypeOK
  <2>4. TypeOK'
    <3>1. permits' \in 0 .. MaxConcurrent
      BY <1>t, <1>3, <2>1, LimiterAssumption DEF TypeOK
    <3>2. pc' \in [Calls -> Steps]
      BY <1>t, <2>1 DEF TypeOK, Steps
    <3>3. left' \in [Calls -> Nat] /\ queue' \in Seq(Calls)
      BY <1>t, <2>1 DEF TypeOK
    <3> QED
      BY <1>1, <3>1, <3>2, <3>3 DEF TypeOK
  <2>5. QueueIsWaiters' /\ NobodyWaitsInVain'
    BY <1>t, <1>2, <1>3, <2>1 DEF TypeOK, QueueIsWaiters, NobodyWaitsInVain
  <2> QED
    BY <2>3, <2>4, <2>5 DEF IInv
<1>4. CASE ~(permits > 0)
  <2>1. /\ queue' = Append(queue, c)
        /\ pc' = [pc EXCEPT ![c] = "queued"]
        /\ left' = [left EXCEPT ![c] = QueueWait]
        /\ permits' = permits
    BY <1>4 DEF Call
  <2>2. Cardinality(Holders') = Cardinality(Holders)
    BY <1>t, <1>2, <2>1, SameHolders DEF Holding, Steps
  <2>3. PermitsAccounted' /\ NobodyWaitsInVain'
    BY <1>t, <1>4, <2>1, <2>2 DEF PermitsAccounted, NobodyWaitsInVain
  <2>4. TypeOK'
    BY <1>t, <1>1, <2>1, LimiterAssumption DEF TypeOK, Steps
  <2>5. /\ Len(queue) \in Nat
        /\ Len(queue') = Len(queue) + 1
        /\ \A i \in 1 .. Len(queue) : queue'[i] = queue[i]
        /\ queue'[Len(queue) + 1] = c
    BY <1>t, <2>1 DEF TypeOK
  <2>6. \A i \in 1 .. Len(queue) : queue[i] # c
    BY <1>t, <1>2 DEF QueueIsWaiters
  <2>7. QueueIsWaiters'
    <3>1. ASSUME NEW e \in Calls, pc'[e] = "queued"
          PROVE  \E i \in 1 .. Len(queue') : queue'[i] = e
      <4>1. CASE e = c
        BY <4>1, <2>5
      <4>2. CASE e # c
        <5>1. PICK k \in 1 .. Len(queue) : queue[k] = e
          BY <3>1, <4>2, <1>t, <2>1 DEF TypeOK, QueueIsWaiters
        <5> QED
          BY <5>1, <2>5
      <4> QED
        BY <4>1, <4>2
    <3>2. ASSUME NEW e \in Calls, NEW i \in 1 .. Len(queue'), queue'[i] = e
          PROVE  pc'[e] = "queued"
      <4>1. CASE i = Len(queue) + 1
        BY <3>2, <4>1, <1>t, <2>1, <2>5 DEF TypeOK
      <4>2. CASE i # Len(queue) + 1
        <5>1. i \in 1 .. Len(queue)
          BY <4>2, <2>5
        <5>2. queue[i] = e
          BY <3>2, <5>1, <2>5
        <5>3. pc[e] = "queued"
          BY <5>1, <5>2, <1>t DEF QueueIsWaiters
        <5> QED
          BY <5>3, <1>2, <1>t, <2>1 DEF TypeOK
      <4> QED
        BY <4>1, <4>2
    <3>3. ASSUME NEW i \in 1 .. Len(queue'), NEW j \in 1 .. Len(queue'),
                 queue'[i] = queue'[j]
          PROVE  i = j
      <4>1. CASE i = Len(queue) + 1 /\ j = Len(queue) + 1
        BY <4>1
      <4>2. CASE i # Len(queue) + 1 /\ j # Len(queue) + 1
        <5>1. i \in 1 .. Len(queue) /\ j \in 1 .. Len(queue)
          BY <4>2, <2>5
        <5>2. queue[i] = queue[j]
          BY <3>3, <5>1, <2>5
        <5> QED
          BY <5>1, <5>2, <1>t DEF QueueIsWaiters
      <4>3. CASE i = Len(queue) + 1 /\ j # Len(queue) + 1
        <5>1. j \in 1 .. Len(queue)
          BY <4>3, <2>5
        <5> QED
          BY <3>3, <4>3, <5>1, <2>5, <2>6
      <4>4. CASE i # Len(queue) + 1 /\ j = Len(queue) + 1
        <5>1. i \in 1 .. Len(queue)
          BY <4>4, <2>5
        <5> QED
          BY <3>3, <4>4, <5>1, <2>5, <2>6
      <4> QED
        BY <4>1, <4>2, <4>3, <4>4
    <3> QED
      BY <3>1, <3>2, <3>3 DEF QueueIsWaiters
  <2> QED
    BY <2>3, <2>4, <2>7 DEF IInv
<1> QED
  BY <1>3, <1>4

\* A waiter's deadline (the timer of Semaphore.acquire).
LEMMA QueueTimeoutKeepsIInv ==
    ASSUME IInv, NEW c \in Calls, QueueTimeout(c)
    PROVE  IInv'
<1>t. TypeOK /\ QueueIsWaiters /\ NobodyWaitsInVain /\ PermitsAccounted
  BY DEF IInv
<1>1. PICK k \in 1 .. Len(queue) : queue[k] = c /\ queue' = RemoveAt(queue, k)
  BY DEF QueueTimeout
<1>2. /\ pc[c] = "queued"
      /\ pc' = [pc EXCEPT ![c] = "idle"]
      /\ permits' = permits /\ left' = left /\ units' = units
      /\ breaker' = AfterFailure(breaker)
      /\ asProbe' = asProbe \ {c}
  BY DEF QueueTimeout
<1>3. /\ Len(queue) \in Nat
      /\ queue' \in Seq(Calls)
      /\ Len(queue') = Len(queue) - 1
      /\ \A j \in 1 .. Len(queue) - 1 : queue'[j] = IF j < k THEN queue[j] ELSE queue[j + 1]
  <2>1. queue \in Seq(Calls) /\ Len(queue) \in Nat
    BY <1>t DEF TypeOK
  <2>2. /\ RemoveAt(queue, k) \in Seq(Calls)
        /\ Len(RemoveAt(queue, k)) = Len(queue) - 1
        /\ \A j \in 1 .. Len(queue) - 1 :
              RemoveAt(queue, k)[j] = IF j < k THEN queue[j] ELSE queue[j + 1]
    BY <2>1, RemoveAtLeaves
  <2> QED
    BY <2>1, <2>2, <1>1
<1>4. TypeOK'
  BY <1>2, <1>3, <1>t, BreakersStayTyped DEF TypeOK, Steps
<1>5. Cardinality(Holders') = Cardinality(Holders)
  BY <1>t, <1>2, SameHolders DEF Holding, Steps
<1>6. PermitsAccounted'
  BY <1>2, <1>5, <1>t DEF PermitsAccounted
<1>7. permits = 0
  BY <1>1, <1>3, <1>t DEF TypeOK, NobodyWaitsInVain
<1>8. NobodyWaitsInVain'
  BY <1>2, <1>7 DEF NobodyWaitsInVain
<1>9. \A i \in 1 .. Len(queue) : queue[i] = c => i = k
  BY <1>1, <1>t DEF QueueIsWaiters
<1> DEFINE src(j) == IF j < k THEN j ELSE j + 1
<1>10. ASSUME NEW j \in 1 .. Len(queue')
       PROVE  src(j) \in 1 .. Len(queue) /\ src(j) # k /\ queue'[j] = queue[src(j)]
  <2>1. j \in 1 .. Len(queue) - 1
    BY <1>3
  <2>2. src(j) \in 1 .. Len(queue) /\ src(j) # k
    BY <2>1, <1>3
  <2> QED
    BY <2>1, <2>2, <1>3
<1>11. QueueIsWaiters'
  <2>1. ASSUME NEW e \in Calls, pc'[e] = "queued"
        PROVE  \E i \in 1 .. Len(queue') : queue'[i] = e
    <3>1. pc[e] = "queued" /\ e # c
      BY <2>1, <1>2, <1>t DEF TypeOK
    <3>2. PICK i \in 1 .. Len(queue) : queue[i] = e
      BY <3>1, <1>t DEF QueueIsWaiters
    <3>3. i # k
      BY <3>1, <3>2, <1>1
    <3>4. CASE i < k
      <4>1. i \in 1 .. Len(queue) - 1 /\ i \in 1 .. Len(queue')
        BY <3>4, <1>3
      <4> QED
        BY <4>1, <3>2, <3>4, <1>3
    <3>5. CASE ~(i < k)
      <4>1. /\ i - 1 \in 1 .. Len(queue) - 1 /\ i - 1 \in 1 .. Len(queue')
            /\ ~(i - 1 < k) /\ (i - 1) + 1 = i
        BY <3>3, <3>5, <1>3
      <4>2. queue'[i - 1] = queue[i]
        BY <4>1, <1>3
      <4> QED
        BY <4>1, <4>2, <3>2
    <3> QED
      BY <3>4, <3>5
  <2>2. ASSUME NEW e \in Calls, NEW i \in 1 .. Len(queue'), queue'[i] = e
        PROVE  pc'[e] = "queued"
    <3>1. src(i) \in 1 .. Len(queue) /\ src(i) # k /\ queue[src(i)] = e
      BY <1>10, <2>2
    <3> HIDE DEF src
    <3>2. e # c
      BY <3>1, <1>9
    <3>3. pc[e] = "queued"
      BY <3>1, <1>t DEF QueueIsWaiters
    <3> QED
      BY <3>2, <3>3, <1>2, <1>t DEF TypeOK
  <2>3. ASSUME NEW i \in 1 .. Len(queue'), NEW j \in 1 .. Len(queue'),
               queue'[i] = queue'[j]
        PROVE  i = j
    <3>1. /\ src(i) \in 1 .. Len(queue)
          /\ src(j) \in 1 .. Len(queue)
          /\ queue[src(i)] = queue[src(j)]
      BY <1>10, <2>3
    <3>2. src(i) = src(j)
      <4> HIDE DEF src
      <4> QED
        BY <3>1, <1>t DEF QueueIsWaiters
    <3> QED
      BY <3>2, <1>3
  <2> QED
    BY <2>1, <2>2, <2>3 DEF QueueIsWaiters
<1> QED
  BY <1>4, <1>6, <1>8, <1>11 DEF IInv

\* The token bucket (consume) moves no permit.
LEMMA TakeTokenKeepsIInv ==
    ASSUME IInv, NEW c \in Calls, TakeToken(c)
    PROVE  IInv'
<1>t. TypeOK /\ QueueIsWaiters /\ NobodyWaitsInVain /\ PermitsAccounted
  BY DEF IInv
<1>1. PICK st \in {"fetching", "sleeping"} : pc' = [pc EXCEPT ![c] = st]
  BY DEF TakeToken
<1>2. /\ pc[c] \in {"granted", "sleeping"}
      /\ queue' = queue /\ permits' = permits /\ breaker' = breaker /\ asProbe' = asProbe
  BY DEF TakeToken
<1>3. left' \in [Calls -> Nat] /\ units' \in 0 .. Burst * TokenTicks
  <2>1. Burst * TokenTicks \in Nat /\ TokenTicks \in Nat \ {0}
    BY CapacityIsNat, LimiterAssumption
  <2>2. CASE units >= TokenTicks
    <3>1. units' = units - TokenTicks /\ units \in 0 .. Burst * TokenTicks
      BY <2>2, <1>t DEF TakeToken, TypeOK
    <3>2. PICK u \in Timeouts : left' = [left EXCEPT ![c] = u]
      BY <2>2 DEF TakeToken
    <3>3. u \in Nat
      BY LimiterAssumption
    <3> DEFINE cap == Burst * TokenTicks
    <3>4. cap \in Nat /\ units' = units - TokenTicks /\ units \in 0 .. cap
      BY <3>1, <2>1
    <3> HIDE DEF cap
    <3>5. units' \in 0 .. cap
      BY <2>1, <2>2, <3>4
    <3> QED
      BY <3>2, <3>3, <3>5, <1>t DEF TypeOK, cap
  <2>3. CASE ~(units >= TokenTicks)
    <3>1. left' = [left EXCEPT ![c] = TokenTicks - units] /\ units' = units
      BY <2>3 DEF TakeToken
    <3>2. units \in Nat
      BY <2>1, <1>t DEF TypeOK
    <3>3. TokenTicks - units \in Nat
      BY <2>1, <2>3, <3>2
    <3> QED
      BY <3>1, <3>3, <1>t DEF TypeOK
  <2> QED
    BY <2>2, <2>3
<1>4. TypeOK'
  <2>1. pc' \in [Calls -> Steps]
    BY <1>1, <1>t DEF TypeOK, Steps
  <2> QED
    BY <1>2, <1>3, <2>1, <1>t DEF TypeOK
<1>5. Cardinality(Holders') = Cardinality(Holders)
  BY <1>t, <1>1, <1>2, SameHolders DEF Holding, Steps
<1>6. PermitsAccounted' /\ NobodyWaitsInVain'
  BY <1>2, <1>5, <1>t DEF PermitsAccounted, NobodyWaitsInVain
<1>7. QueueIsWaiters'
  BY <1>1, <1>2, <1>t DEF TypeOK, QueueIsWaiters
<1> QED
  BY <1>4, <1>6, <1>7 DEF IInv

\* The headers move no permit either.
LEMMA HeadersArriveKeepsIInv ==
    ASSUME IInv, NEW c \in Calls, HeadersArrive(c)
    PROVE  IInv'
<1>t. TypeOK /\ QueueIsWaiters /\ NobodyWaitsInVain /\ PermitsAccounted
  BY DEF IInv
<1>1. /\ pc[c] = "fetching" /\ pc' = [pc EXCEPT ![c] = "reading"]
      /\ left' = [left EXCEPT ![c] = 0]
      /\ queue' = queue /\ permits' = permits /\ units' = units
      /\ breaker' = breaker /\ asProbe' = asProbe
  BY DEF HeadersArrive
<1>2. TypeOK'
  BY <1>1, <1>t DEF TypeOK, Steps
<1>3. Cardinality(Holders') = Cardinality(Holders)
  BY <1>t, <1>1, SameHolders DEF Holding, Steps
<1>4. PermitsAccounted' /\ NobodyWaitsInVain'
  BY <1>1, <1>3, <1>t DEF PermitsAccounted, NobodyWaitsInVain
<1>5. QueueIsWaiters'
  BY <1>1, <1>t DEF TypeOK, QueueIsWaiters
<1> QED
  BY <1>2, <1>4, <1>5 DEF IInv

\* A call that ends, well or in a timeout, gives its permit back.
LEMMA EndKeepsIInv ==
    ASSUME IInv, NEW c \in Calls, Ends(c) \/ FetchTimeout(c)
    PROVE  IInv'
<1>t. TypeOK
  BY DEF IInv
<1>1. pc[c] \in Holding /\ Release(c) /\ units' = units
  BY DEF Ends, FetchTimeout, Holding
<1>2. breaker' \in Breakers /\ asProbe' \subseteq Calls
  BY <1>t, BreakersStayTyped DEF Ends, FetchTimeout, TypeOK
<1>3. left' \in [Calls -> Nat]
  BY <1>t DEF Ends, FetchTimeout, TypeOK
<1>4. /\ pc' \in [Calls -> Steps] /\ queue' \in Seq(Calls) /\ permits' \in 0 .. MaxConcurrent
      /\ QueueIsWaiters' /\ NobodyWaitsInVain' /\ PermitsAccounted'
  BY <1>1, ReleaseKeepsBooks
<1>5. TypeOK'
  BY <1>1, <1>2, <1>3, <1>4, <1>t DEF TypeOK
<1> QED
  BY <1>4, <1>5 DEF IInv

\* A tick runs the timers that are not due.
LEMMA TickKeepsIInv ==
    ASSUME IInv, Tick
    PROVE  IInv'
<1>t. TypeOK /\ QueueIsWaiters /\ NobodyWaitsInVain /\ PermitsAccounted
  BY DEF IInv
<1>1. pc' = pc /\ queue' = queue /\ permits' = permits /\ asProbe' = asProbe
  BY DEF Tick
<1>2. left' \in [Calls -> Nat]
  <2>1. left' = [c \in Calls |-> IF pc[c] \in {"queued", "sleeping", "fetching"}
                                 THEN left[c] - 1 ELSE 0]
    BY DEF Tick
  <2>2. ASSUME NEW c \in Calls
        PROVE  (IF pc[c] \in {"queued", "sleeping", "fetching"}
                THEN left[c] - 1 ELSE 0) \in Nat
    BY <1>t DEF Tick, Due, TypeOK
  <2> QED
    BY <2>1, <2>2
<1>3. units' \in 0 .. Burst * TokenTicks
  <2> DEFINE cap == Burst * TokenTicks
  <2>1. cap \in Nat /\ units \in 0 .. cap /\ units' = IF units < cap THEN units + 1 ELSE units
    BY CapacityIsNat, <1>t DEF Tick, TypeOK
  <2> HIDE DEF cap
  <2>2. units' \in 0 .. cap
    BY <2>1
  <2> QED
    BY <2>2 DEF cap
<1>4. breaker' \in Breakers
  BY <1>t, BreakersStayTyped DEF Tick, TypeOK
<1>5. TypeOK'
  BY <1>1, <1>2, <1>3, <1>4, <1>t DEF TypeOK
<1>6. Holders' = Holders
  BY <1>1 DEF Holders
<1>7. QueueIsWaiters' /\ NobodyWaitsInVain' /\ PermitsAccounted'
  BY <1>1, <1>6, <1>t DEF QueueIsWaiters, NobodyWaitsInVain, PermitsAccounted
<1> QED
  BY <1>5, <1>7 DEF IInv

\* Every step of the limiter keeps the invariant.
LEMMA NextKeepsIInv == IInv /\ [Next]_vars => IInv'
<1> SUFFICES ASSUME IInv, [Next]_vars PROVE IInv'
  OBVIOUS
<1>1. ASSUME NEW c \in Calls, Call(c) PROVE IInv'
  BY <1>1, CallKeepsIInv
<1>2. ASSUME NEW c \in Calls, QueueTimeout(c) PROVE IInv'
  BY <1>2, QueueTimeoutKeepsIInv
<1>3. ASSUME NEW c \in Calls, TakeToken(c) PROVE IInv'
  BY <1>3, TakeTokenKeepsIInv
<1>4. ASSUME NEW c \in Calls, HeadersArrive(c) PROVE IInv'
  BY <1>4, HeadersArriveKeepsIInv
<1>5. ASSUME NEW c \in Calls, Ends(c) \/ FetchTimeout(c) PROVE IInv'
  BY <1>5, EndKeepsIInv
<1>6. CASE Tick
  BY <1>6, TickKeepsIInv
<1>7. CASE UNCHANGED vars
  BY <1>7 DEF vars, IInv, TypeOK, QueueIsWaiters, NobodyWaitsInVain, PermitsAccounted, Holders
<1> QED
  BY <1>1, <1>2, <1>3, <1>4, <1>5, <1>6, <1>7 DEF Next

\* IInv is an invariant of the limiter.
LEMMA IInvHolds == Spec => []IInv
BY InitIInv, NextKeepsIInv, PTL DEF Spec

\* Every variable keeps its type: in particular permits never exceed the
\* configured concurrency and the bucket never its capacity.
THEOREM LimiterTypeCorrect == Spec => []TypeOK
<1>1. IInv => TypeOK
  BY DEF IInv
<1> QED
  BY <1>1, IInvHolds, PTL

\* Permits are neither lost nor made, none lies idle while a call waits, and the
\* queue holds exactly the waiting calls, each once (Semaphore of index.ts).
THEOREM PermitsWellUsed == Spec => []PermitsInUse
<1>1. IInv => PermitsInUse
  BY DEF IInv, PermitsInUse
<1> QED
  BY <1>1, IInvHolds, PTL

--------------------------------------------------------------------------------
(***************************************************************************)
(* The order of service.                                                    *)
(***************************************************************************)

\* Permits are handed out in the order of arrival: a call gets one at once only
\* when nobody waits, and from the queue only when it is first.
THEOREM FirstComeFirstServed == Spec => NoOvertaking
<1> DEFINE Fair(c) == pc[c] \notin Holding /\ pc'[c] \in Holding
                         => queue = <<>> \/ queue[1] = c
           A == \A c \in Calls : Fair(c)
<1>1. IInv /\ [Next]_vars => [A]_vars
  <2> SUFFICES ASSUME IInv, Next, NEW e \in Calls PROVE Fair(e)
    BY DEF A
  <2>t. TypeOK /\ NobodyWaitsInVain
    BY DEF IInv
  <2>1. ASSUME NEW c \in Calls, Call(c) PROVE Fair(e)
    <3>1. CASE permits > 0
      BY <3>1, <2>t DEF NobodyWaitsInVain
    <3>2. CASE ~(permits > 0)
      BY <3>2, <2>1, <2>t DEF Call, TypeOK, Holding
    <3> QED
      BY <3>1, <3>2
  <2>2. ASSUME NEW c \in Calls, QueueTimeout(c) PROVE Fair(e)
    BY <2>2, <2>t DEF QueueTimeout, TypeOK, Holding
  <2>3. ASSUME NEW c \in Calls, TakeToken(c) PROVE Fair(e)
    BY <2>3, <2>t DEF TakeToken, TypeOK, Holding
  <2>4. ASSUME NEW c \in Calls, HeadersArrive(c) PROVE Fair(e)
    BY <2>4, <2>t DEF HeadersArrive, TypeOK, Holding
  <2>5. ASSUME NEW c \in Calls, Release(c) PROVE Fair(e)
    <3>1. CASE queue = <<>>
      BY <3>1
    <3>2. CASE queue # <<>>
      <4>1. pc' = [pc EXCEPT ![c] = "idle", ![Head(queue)] = "granted"]
        BY <3>2, <2>5 DEF Release
      <4>2. Head(queue) = queue[1]
        BY <3>2, <2>t DEF TypeOK
      <4>3. CASE e = Head(queue)
        BY <4>2, <4>3
      <4>4. CASE e # Head(queue)
        BY <4>1, <4>4, <2>t DEF TypeOK, Holding
      <4> QED
        BY <4>3, <4>4
    <3> QED
      BY <3>1, <3>2
  <2>6. CASE Tick
    BY <2>6 DEF Tick
  <2> QED
    BY <2>1, <2>2, <2>3, <2>4, <2>5, <2>6 DEF Next, Ends, FetchTimeout
<1>2. Spec => [][A]_vars
  BY <1>1, IInvHolds, PTL DEF Spec
<1> QED
  BY <1>2 DEF NoOvertaking, A, Fair

--------------------------------------------------------------------------------
(***************************************************************************)
(* The half-open breaker.  Whatever ends a call leaves half-open, so while  *)
(* it lasts only steps happen that bring no call back to idle.              *)
(***************************************************************************)

\* A report to a breaker never leaves it half-open.
LEMMA ReportsDecide ==
    ASSUME NEW b \in Breakers
    PROVE  /\ AfterSuccess(b).state # "half_open"
           /\ AfterFailure(b).state # "half_open"
           /\ (b.state # "half_open" /\ AfterAdmit(b).state = "half_open") =>
                 AfterAdmit(b).probeInFlight
           /\ AfterTick(b).state = b.state
           /\ AfterTick(b).probeInFlight = b.probeInFlight
<1>1. AfterSuccess(b).state # "half_open"
  BY DEF AfterSuccess, Breakers
<1>2. AfterFailure(b).state # "half_open"
  BY DEF AfterFailure, Opened, Breakers
<1>3. (b.state # "half_open" /\ AfterAdmit(b).state = "half_open") =>
         AfterAdmit(b).probeInFlight
  BY DEF AfterAdmit, Breakers
<1>4. AfterTick(b).state = b.state /\ AfterTick(b).probeInFlight = b.probeInFlight
  BY DEF AfterTick, Breakers
<1> QED
  BY <1>1, <1>2, <1>3, <1>4

\* One step of the limiter keeps a half-open breaker's probe under way.
LEMMA NextKeepsProbe == IInv /\ ProbeIsUnderWay /\ [Next]_vars => ProbeIsUnderWay'
<1> SUFFICES ASSUME IInv, ProbeIsUnderWay, [Next]_vars, breaker'.state = "half_open"
             PROVE  /\ breaker'.probeInFlight
                    /\ \E d \in asProbe' : pc'[d] # "idle"
  BY DEF ProbeIsUnderWay
<1>t. TypeOK /\ breaker \in Breakers /\ asProbe \subseteq Calls
  BY DEF IInv, TypeOK
<1>0. breaker.state = "half_open" => \E d \in Calls : d \in asProbe /\ pc[d] # "idle"
  BY <1>t DEF ProbeIsUnderWay
<1>1. ASSUME NEW c \in Calls, Call(c)
      PROVE  breaker'.probeInFlight /\ \E d \in asProbe' : pc'[d] # "idle"
  <2>1. Admits(breaker) /\ breaker' = AfterAdmit(breaker) /\ breaker.state # "closed"
    BY <1>1, <1>t DEF Call, AfterAdmit
  <2>2. c \in asProbe'
    BY <1>1, <2>1 DEF Call
  <2>3. pc'[c] # "idle"
    BY <1>1, <1>t DEF Call, TypeOK
  <2>4. breaker'.probeInFlight
    BY <2>1, <1>t DEF AfterAdmit, Breakers
  <2> QED
    BY <2>2, <2>3, <2>4
<1>2. ASSUME NEW c \in Calls, QueueTimeout(c) \/ Ends(c) \/ FetchTimeout(c)
      PROVE  FALSE
  BY <1>2, <1>t, ReportsDecide DEF QueueTimeout, Ends, FetchTimeout
<1>3. ASSUME NEW c \in Calls, TakeToken(c) \/ HeadersArrive(c)
      PROVE  breaker'.probeInFlight /\ \E d \in asProbe' : pc'[d] # "idle"
  <2>1. breaker' = breaker /\ asProbe' = asProbe
    BY <1>3 DEF TakeToken, HeadersArrive
  <2>2. PICK st \in {"fetching", "sleeping", "reading"} : pc' = [pc EXCEPT ![c] = st]
    BY <1>3 DEF TakeToken, HeadersArrive
  <2>3. PICK d \in Calls : d \in asProbe /\ pc[d] # "idle"
    BY <1>0, <2>1
  <2>4. pc'[d] # "idle"
    BY <2>2, <2>3, <1>t DEF TypeOK
  <2> QED
    BY <2>1, <2>3, <2>4 DEF ProbeIsUnderWay
<1>4. CASE Tick
  <2>1. breaker.state = "half_open" /\ breaker'.probeInFlight = breaker.probeInFlight
    BY <1>4, <1>t, ReportsDecide DEF Tick
  <2> QED
    BY <1>4, <2>1 DEF Tick, ProbeIsUnderWay
<1>5. CASE UNCHANGED vars
  BY <1>5 DEF vars, ProbeIsUnderWay
<1> QED
  BY <1>1, <1>2, <1>3, <1>4, <1>5 DEF Next

\* A half-open breaker always has a call under way that will decide it: it
\* cannot be wedged by a probe that gave up without reporting.
THEOREM NoWedge == Spec => []ProbeIsUnderWay
<1>1. Init => ProbeIsUnderWay
  BY DEF Init, NewBreaker, ProbeIsUnderWay
<1> QED
  BY <1>1, NextKeepsProbe, IInvHolds, PTL DEF Spec

--------------------------------------------------------------------------------
(***************************************************************************)
(* The rate.  While the stopwatch runs, what has been sent and what is left *)
(* in the bucket never exceed the burst and what the window has earned.     *)
(***************************************************************************)
RateTypeOK == watching \in BOOLEAN /\ elapsed \in Nat /\ sent \in Nat

Budget == watching => sent * TokenTicks + units <= Burst * TokenTicks + elapsed

RateInv == IInv /\ RateTypeOK /\ Budget /\ RateRespected

\* A step that the observer sees is a step of the limiter.
LEMMA RateStepIsLimiterStep == RateNext => [Next]_vars
BY DEF RateNext, OpenWindow, Send, Sends, TimePasses, Otherwise, Next, Tick, vars

\* One more request costs one more token.
LEMMA OneMoreToken ==
    ASSUME NEW n \in Nat
    PROVE  /\ n * TokenTicks \in Nat
           /\ (n + 1) * TokenTicks = n * TokenTicks + TokenTicks
BY LimiterAssumption, SMT

\* Every step that the observer sees keeps the budget.
LEMMA RateNextKeeps == RateInv /\ [RateNext]_rateVars => RateInv'
<1> SUFFICES ASSUME RateInv, [RateNext]_rateVars PROVE RateInv'
  OBVIOUS
<1> DEFINE cap == Burst * TokenTicks
<1>t. /\ IInv /\ TypeOK /\ RateTypeOK /\ Budget /\ RateRespected
      /\ TokenTicks \in Nat /\ cap \in Nat /\ units \in 0 .. cap
      /\ 0 * TokenTicks = 0
  BY CapacityIsNat, LimiterAssumption DEF RateInv, IInv, TypeOK
<1>i. IInv'
  <2>1. CASE RateNext
    BY <2>1, <1>t, RateStepIsLimiterStep, NextKeepsIInv
  <2>2. CASE UNCHANGED rateVars
    BY <2>2, <1>t, NextKeepsIInv DEF rateVars
  <2> QED
    BY <2>1, <2>2
<1>u. units' \in 0 .. cap
  BY <1>i DEF IInv, TypeOK
<1>1. CASE OpenWindow
  <2>1. watching' = TRUE /\ elapsed' = 0 /\ sent' = 0 /\ units' = units
    BY <1>1 DEF OpenWindow, vars
  <2>2. sent' * TokenTicks = 0
    BY <2>1, <1>t
  <2>3. RateTypeOK'
    BY <2>1 DEF RateTypeOK
  <2>4. Budget' /\ RateRespected'
    BY <2>1, <2>2, <1>t DEF Budget, RateRespected
  <2> QED
    BY <1>i, <2>3, <2>4 DEF RateInv
<1>2. CASE Send
  <2>1. PICK c \in Calls : TakeToken(c) /\ pc'[c] = "fetching"
    BY <1>2 DEF Send, Sends
  <2>2. units >= TokenTicks /\ units' = units - TokenTicks
    BY <2>1, <1>t DEF TakeToken, TypeOK
  <2>3. /\ watching' = watching /\ elapsed' = elapsed
        /\ sent' = IF watching THEN sent + 1 ELSE sent
    BY <1>2 DEF Send
  <2>4. RateTypeOK'
    BY <2>3, <1>t DEF RateTypeOK
  <2>5. CASE watching
    <3>1. sent' * TokenTicks = sent * TokenTicks + TokenTicks /\ sent * TokenTicks \in Nat
      BY <2>3, <2>5, <1>t, OneMoreToken DEF RateTypeOK
    <3>5. sent' * TokenTicks \in Nat
      BY <2>4, OneMoreToken DEF RateTypeOK
    <3>2. sent * TokenTicks + units <= cap + elapsed
      BY <2>5, <1>t DEF Budget
    <3>3. sent' * TokenTicks + units' <= cap + elapsed'
      <4> DEFINE n == sent * TokenTicks
                 m == sent' * TokenTicks
      <4>1. /\ n \in Nat /\ m = n + TokenTicks /\ n + units <= cap + elapsed
            /\ elapsed \in Nat
        BY <3>1, <3>2, <1>t DEF RateTypeOK
      <4> HIDE DEF n, m, cap
      <4>2. m + units' <= cap + elapsed'
        BY <4>1, <2>2, <2>3, <1>t
      <4> QED
        BY <4>2 DEF m
    <3>4. sent' * TokenTicks <= cap + elapsed'
      <4>1. ASSUME NEW m \in Nat, NEW u \in Nat, NEW b \in Nat, m + u <= b
            PROVE  m <= b
        BY <4>1
      <4>2. cap + elapsed' \in Nat /\ units' \in Nat
        BY <2>4, <1>u, <1>t DEF RateTypeOK
      <4> HIDE DEF cap
      <4> QED
        BY <4>1, <4>2, <3>3, <3>5
    <3> QED
      BY <1>i, <2>4, <3>3, <3>4 DEF RateInv, Budget, RateRespected
  <2>6. CASE ~watching
    BY <1>i, <2>3, <2>4, <2>6, <1>t DEF RateInv, Budget, RateRespected
  <2> QED
    BY <2>5, <2>6
<1>3. CASE TimePasses
  <2>1. /\ units' = IF units < cap THEN units + 1 ELSE units
        /\ elapsed' = IF watching THEN elapsed + 1 ELSE elapsed
        /\ sent' = sent
        /\ watching' = (watching /\ elapsed' < Window)
    BY <1>3 DEF TimePasses, Tick
  <2>2. RateTypeOK'
    BY <2>1, <1>t DEF RateTypeOK
  <2> DEFINE n == sent * TokenTicks
  <2>3. n \in Nat /\ n <= cap + elapsed /\ (watching => n + units <= cap + elapsed)
    BY <1>t, OneMoreToken DEF RateTypeOK, Budget, RateRespected
  <2>4. sent' * TokenTicks = n
    BY <2>1
  <2> HIDE DEF n, cap
  <2>5. n <= cap + elapsed' /\ (watching' => n + units' <= cap + elapsed')
    BY <2>1, <2>3, <1>t DEF RateTypeOK
  <2> QED
    BY <1>i, <2>2, <2>4, <2>5 DEF RateInv, Budget, RateRespected, cap
<1>4. CASE Otherwise
  <2>1. UNCHANGED windowVars /\ units' = units
    <3>1. ASSUME NEW c \in Calls, TakeToken(c), pc'[c] # "fetching"
          PROVE  units' = units
      BY <3>1, <1>t DEF TakeToken, TypeOK
    <3> QED
      BY <1>4, <3>1 DEF Otherwise, Call, QueueTimeout, HeadersArrive, Ends, FetchTimeout
  <2> QED
    BY <1>i, <2>1, <1>t DEF windowVars, RateInv, RateTypeOK, Budget, RateRespected
<1>5. CASE UNCHANGED rateVars
  BY <1>i, <1>5, <1>t DEF rateVars, vars, windowVars, RateInv, RateTypeOK, Budget, RateRespected
<1> QED
  BY <1>1, <1>2, <1>3, <1>4, <1>5 DEF RateNext

\* Over any window, no more requests reach LML than the burst and what the
\* window earns, whatever the callers do (the loop of TokenBucket.consume).
THEOREM RateKept == RateSpec => []RateRespected
<1>1. RateInit => RateInv
  <2> SUFFICES ASSUME RateInit PROVE RateInv
    OBVIOUS
  <2>1. IInv
    BY InitIInv DEF RateInit
  <2>2. 0 * TokenTicks = 0 /\ Burst * TokenTicks \in Nat
    BY LimiterAssumption, CapacityIsNat
  <2>3. RateTypeOK
    BY DEF RateInit, RateTypeOK
  <2>4. Budget
    BY DEF RateInit, Budget
  <2>5. RateRespected
    BY <2>2 DEF RateInit, RateRespected
  <2> QED
    BY <2>1, <2>3, <2>4, <2>5 DEF RateInv
<1>2. RateInv => RateRespected
  BY DEF RateInv
<1> QED
  BY <1>1, <1>2, RateNextKeeps, PTL DEF RateSpec

================================================================================
