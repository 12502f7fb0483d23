--------------------------- MODULE InboundProofs ---------------------------
(***************************************************************************)
(* Proofs about the two modules of the way in: RateLimit, for any          *)
(* addresses, users, rates and bursts, and FramePipeline, for any number   *)
(* of messages, any filter and any sizes of reads and buffers.             *)
(*                                                                         *)
(* RateLimit.  What was admitted in a period and what is left in the       *)
(* bucket, refilled to now, never exceed a full bucket and the time that   *)
(* passed: every admission moves tokens from the one to the other, the     *)
(* clock adds no more than the time does, and a bucket that is dropped was *)
(* full.                                                                   *)
(*                                                                         *)
(* FramePipeline.  The second half of the module, from the inductive       *)
(* invariant PipeIInv backwards: what the peer sent is one stream of bytes *)
(* whose places are known, and every buffer between the wire and the hub   *)
(* holds a segment of it.                                                  *)
(***************************************************************************)
EXTENDS RateLimit, FramePipeline, FiniteSetTheorems, NaturalsInduction,
        SequenceTheorems, WellFoundedInduction, TLAPS

\* The time of the remembered period that passed.
Elapsed == IF uptime >= from THEN uptime - from ELSE 0

Budget ==
    \A i \in Ids, k \in Kinds :
        /\ spent[i][k] + Refilled(i, k).tokens <= Full(k) + Elapsed
        /\ uptime < from => spent[i][k] = 0

\* A failed login is admitted by the bucket or locks the address out.
FailuresSpent ==
    \A i \in Ips : ~LockedSince(i) => failed[i] = spent[i]["authfail"]

\* A lock-out that was forgotten is over, and none ends too early.
LockRuns ==
    \A i \in Ips : locked[i] # None =>
        /\ locked[i] <= uptime
        /\ block[i] = None => uptime - locked[i] >= Lockout
        /\ block[i] # None => block[i] - clock >= Lockout - (uptime - locked[i])

IInv == TypeOK /\ Budget /\ FailuresSpent /\ LockRuns

-----------------------------------------------------------------------------
\* What is known of the constants, without the products.
LEMMA Constants ==
    /\ Ips \subseteq Ids /\ Users \subseteq Ids
    /\ "conn" \in Kinds /\ "authfail" \in Kinds /\ UserKinds \subseteq Kinds
    /\ \A k \in Kinds : /\ Full(k) \in Nat /\ Full(k) <= IdleMax
                        /\ Period[k] \in Nat /\ Period[k] >= 1
    /\ MaxConns \in Nat /\ Lockout \in Nat /\ Lockout >= 1
    /\ Interval \in Nat /\ IdleMax \in Nat /\ MaxTime \in Nat /\ MaxBack \in Nat
    /\ None \notin Int
<1>1. \A k \in Kinds : Period[k] \in Nat /\ Period[k] >= 1
    BY RateAssumption
<1> QED
    BY <1>1, RateAssumption DEF Ids, Kinds, IpKinds

LEMMA BucketType ==
    ASSUME TypeOK, NEW i \in Ids, NEW k \in Kinds, bucket[i][k] # NoBucket
    PROVE  /\ bucket[i][k] = [tokens |-> bucket[i][k].tokens, ts |-> bucket[i][k].ts]
           /\ bucket[i][k].tokens \in Nat /\ bucket[i][k].tokens <= Full(k)
           /\ bucket[i][k].ts \in Nat /\ bucket[i][k].ts \in Clocks
<1>1. Full(k) \in Nat
    BY Constants
<1>2. bucket[i][k] \in Bucket(k)
    BY DEF TypeOK
<1> HIDE DEF Full
<1> QED
    BY <1>1, <1>2, Constants DEF Bucket, Clocks

\* The refilled bucket: its type, and how much is in it.
LEMMA RefillType ==
    ASSUME TypeOK, NEW i \in Ids, NEW k \in Kinds
    PROVE  /\ Refilled(i, k) \in Bucket(k)
           /\ Refilled(i, k).tokens \in Nat /\ Refilled(i, k).tokens <= Full(k)
           /\ Refilled(i, k).ts \in Clocks
<1>0. Full(k) \in Nat /\ clock \in Clocks /\ clock \in Nat
    BY Constants DEF TypeOK, Clocks
<1>1. CASE bucket[i][k] = NoBucket
    BY <1>0, <1>1 DEF Refilled, Bucket
<1>2. CASE bucket[i][k] # NoBucket
    <2>1. CASE clock > bucket[i][k].ts
        <3> DEFINE t == bucket[i][k].tokens + (clock - bucket[i][k].ts)
        <3>1. t \in Nat
            <4>1. bucket[i][k].tokens \in Nat /\ bucket[i][k].ts \in Nat
                BY <1>2, BucketType
            <4> QED
                BY <4>1, <1>0, <2>1
        <3>2. Filled(k, t) \in 0..Full(k)
            BY <3>1, <1>0 DEF Filled
        <3>3. Refilled(i, k) = [tokens |-> Filled(k, t), ts |-> clock]
            BY <1>2, <2>1 DEF Refilled
        <3>4. Filled(k, t) \in Nat /\ Filled(k, t) <= Full(k)
            BY <3>2, <1>0
        <3> HIDE DEF t
        <3>5. /\ Refilled(i, k).tokens = Filled(k, t) /\ Refilled(i, k).ts = clock
              /\ Refilled(i, k) \in [tokens : 0..Full(k), ts : Clocks]
            BY <3>2, <3>3, <1>0
        <3> QED
            BY <3>4, <3>5, <1>0 DEF Bucket
    <2>2. CASE ~(clock > bucket[i][k].ts)
        <3>1. Refilled(i, k) = bucket[i][k]
            BY <1>2, <2>2 DEF Refilled
        <3>2. bucket[i][k] \in Bucket(k)
            BY <1>2 DEF TypeOK
        <3> QED
            BY <3>1, <3>2, <1>2, BucketType
    <2> QED
        BY <2>1, <2>2
<1> QED
    BY <1>1, <1>2

\* How much a bucket holds when it is refilled at time `now`: no time adds more
\* than itself, and a bucket that idled for IdleMax is full.
Holds(b, k, now) ==
    IF b = NoBucket THEN Full(k)
    ELSE IF now > b.ts THEN Filled(k, b.tokens + (now - b.ts))
    ELSE b.tokens

LEMMA RefillHolds ==
    ASSUME NEW i \in Ids, NEW k \in Kinds
    PROVE  Refilled(i, k).tokens = Holds(bucket[i][k], k, clock)
BY DEF Refilled, Holds

LEMMA RefillHoldsNext ==
    ASSUME NEW i \in Ids, NEW k \in Kinds
    PROVE  Refilled(i, k)'.tokens = Holds(bucket'[i][k], k, clock')
BY DEF Refilled, Holds

LEMMA HoldsOver ==
    ASSUME NEW k \in Kinds, NEW b, b # NoBucket => /\ b.tokens \in Nat
                                                 /\ b.tokens <= Full(k)
                                                 /\ b.ts \in Nat,
           NEW now \in Nat
    PROVE  /\ Holds(b, k, now) \in Nat /\ Holds(b, k, now) <= Full(k)
           /\ Holds(b, k, now + 1) <= Holds(b, k, now) + 1
           /\ Holds(b, k, now - 1) <= Holds(b, k, now)
           /\ (b # NoBucket => b.ts < now - IdleMax) => Holds(b, k, now) = Full(k)
<1>1. Full(k) \in Nat /\ Full(k) <= IdleMax /\ IdleMax \in Nat
    BY Constants
<1> HIDE DEF Full
<1>2. CASE b = NoBucket
    BY <1>1, <1>2 DEF Holds
<1>3. CASE b # NoBucket
    <2> DEFINE t == b.tokens  s == b.ts
    <2>1. t \in Nat /\ t <= Full(k) /\ s \in Nat
        BY <1>3
    <2>2. \A n \in Int : Holds(b, k, n) = IF n > s THEN Filled(k, t + (n - s)) ELSE t
        BY <1>3 DEF Holds
    <2>3. now + 1 \in Int /\ now - 1 \in Int /\ now \in Int
        OBVIOUS
    <2> HIDE DEF t, s
    <2> QED
        BY <2>1, <2>2, <2>3, <1>1, <1>3 DEF Filled, s
<1> QED
    BY <1>2, <1>3

-----------------------------------------------------------------------------
\* A request changes one bucket of one id, and one sum.
LEMMA ConsumeTouches ==
    ASSUME TypeOK, NEW i \in Ids, NEW k \in Kinds, Consume(i, k)
    PROVE  /\ DOMAIN bucket' = Ids /\ \A j \in Ids : DOMAIN bucket'[j] = Kinds
           /\ \A j \in Ids, l \in Kinds : ~(j = i /\ l = k) =>
                (bucket'[j][l] = bucket[j][l] /\ spent'[j][l] = spent[j][l])
           /\ Enough(i, k) => bucket'[i][k] =
                [Refilled(i, k) EXCEPT !.tokens = Refilled(i, k).tokens - Period[k]]
           /\ Enough(i, k) => spent'[i][k] = spent[i][k] + Cost(k)
           /\ ~Enough(i, k) => bucket'[i][k] = Refilled(i, k)
           /\ ~Enough(i, k) => spent'[i][k] = spent[i][k]
           /\ spent' \in [Ids -> [Kinds -> Nat]]
<1>1. /\ DOMAIN bucket = Ids /\ \A j \in Ids : DOMAIN bucket[j] = Kinds
      /\ spent \in [Ids -> [Kinds -> Nat]] /\ Cost(k) \in Nat
    BY Constants DEF TypeOK, Cost
<1> DEFINE e == Enough(i, k)  r == Refilled(i, k)
           w == [r EXCEPT !.tokens = r.tokens - Period[k]]
<1>2. /\ bucket' = [bucket EXCEPT ![i][k] = IF e THEN w ELSE r]
      /\ spent' = [spent EXCEPT ![i][k] = IF e THEN spent[i][k] + Cost(k)
                                                ELSE spent[i][k]]
    BY <1>1 DEF Consume
<1> HIDE DEF e, r, w
<1>3. /\ DOMAIN bucket' = Ids /\ \A j \in Ids : DOMAIN bucket'[j] = Kinds
      /\ \A j \in Ids, l \in Kinds : ~(j = i /\ l = k) =>
            (bucket'[j][l] = bucket[j][l] /\ spent'[j][l] = spent[j][l])
      /\ bucket'[i][k] = IF e THEN w ELSE r
    BY <1>1, <1>2
<1>4. /\ spent' \in [Ids -> [Kinds -> Nat]]
      /\ spent'[i][k] = IF e THEN spent[i][k] + Cost(k) ELSE spent[i][k]
    BY <1>1, <1>2
<1> QED
    BY <1>3, <1>4 DEF e, r, w

\* What is left in the bucket that was used, and its type.
LEMMA ConsumeLeaves ==
    ASSUME TypeOK, NEW i \in Ids, NEW k \in Kinds, Consume(i, k), clock' = clock
    PROVE  /\ bucket'[i][k] \in Bucket(k)
           /\ Enough(i, k) => Refilled(i, k)'.tokens = Refilled(i, k).tokens - Period[k]
           /\ ~Enough(i, k) => Refilled(i, k)'.tokens = Refilled(i, k).tokens
<1> DEFINE r == Refilled(i, k)
<1>1. /\ r \in Bucket(k) /\ r.tokens \in Nat /\ r.tokens <= Full(k)
      /\ r.ts \in Clocks /\ Full(k) \in Nat /\ Period[k] \in Nat
      /\ clock \in Nat /\ None \notin Int
    BY RefillType, Constants DEF TypeOK, Clocks
<1>2. r.ts \in Nat /\ ~(clock > r.ts)
    <2>1. bucket[i][k] # NoBucket => bucket[i][k].ts \in Nat
        BY BucketType
    <2> QED
        BY <2>1, <1>1 DEF Refilled
<1>3. Refilled(i, k)'.tokens = Holds(bucket'[i][k], k, clock)
    BY RefillHoldsNext
<1>4. CASE Enough(i, k)
    <2> DEFINE w == [tokens |-> r.tokens - Period[k], ts |-> r.ts]
    <2>1. r.tokens >= Period[k]
        BY <1>4 DEF Enough
    <2>2. bucket'[i][k] = [r EXCEPT !.tokens = r.tokens - Period[k]]
        BY <1>4, ConsumeTouches
    <2>3. r \in [tokens : 0..Full(k), ts : Clocks]
        BY <1>1 DEF Bucket
    <2> HIDE DEF r, Full
    <2>4. bucket'[i][k] = w
        BY <2>2, <2>3
    <2>5. w.tokens \in 0..Full(k)
        BY <2>1, <1>1
    <2>6. w \in Bucket(k) /\ w # NoBucket
        BY <2>5, <1>1 DEF Bucket, NoBucket
    <2>7. Holds(w, k, clock) = r.tokens - Period[k]
        BY <2>6, <1>2 DEF Holds
    <2> QED
        BY <2>4, <2>6, <2>7, <1>3, <1>4 DEF r
<1>5. CASE ~Enough(i, k)
    <2>1. bucket'[i][k] = r
        BY <1>5, ConsumeTouches
    <2>2. r # NoBucket
        BY <1>1 DEF NoBucket
    <2> HIDE DEF r
    <2>3. Holds(r, k, clock) = r.tokens
        BY <2>2, <1>2 DEF Holds
    <2> QED
        BY <2>1, <2>3, <1>1, <1>3, <1>5 DEF r
<1> QED
    BY <1>4, <1>5

\* A request keeps the budget of every bucket.
LEMMA ConsumeKeeps ==
    ASSUME TypeOK, Budget, NEW i \in Ids, NEW k \in Kinds, Consume(i, k),
           UNCHANGED <<clock, uptime>>
    PROVE  /\ Budget'
           /\ DOMAIN bucket' = Ids /\ \A j \in Ids : DOMAIN bucket'[j] = Kinds
           /\ \A j \in Ids, l \in Kinds : bucket'[j][l] \in Bucket(l) \cup {NoBucket}
           /\ spent' \in [Ids -> [Kinds -> Nat]]
<1>1. from' = from
    BY DEF Consume
<1>2. Elapsed' = Elapsed /\ Elapsed \in Nat /\ uptime \in Nat /\ from \in Nat
    BY <1>1 DEF Elapsed, TypeOK, Times
<1>3. ASSUME NEW j \in Ids, NEW l \in Kinds
      PROVE  /\ spent'[j][l] + Refilled(j, l)'.tokens <= Full(l) + Elapsed
             /\ uptime < from => spent'[j][l] = 0
             /\ bucket'[j][l] \in Bucket(l) \cup {NoBucket}
    <2>1. /\ spent[j][l] + Refilled(j, l).tokens <= Full(l) + Elapsed
          /\ uptime < from => spent[j][l] = 0
        BY DEF Budget
    <2>2. /\ spent[j][l] \in Nat /\ Refilled(j, l).tokens \in Nat /\ Full(l) \in Nat
          /\ Period[l] \in Nat
        BY RefillType, Constants DEF TypeOK
    <2>3. CASE ~(j = i /\ l = k)
        <3>1. bucket'[j][l] = bucket[j][l] /\ spent'[j][l] = spent[j][l]
            <4>1. \A h \in Ids, m \in Kinds : ~(h = i /\ m = k) =>
                    (bucket'[h][m] = bucket[h][m] /\ spent'[h][m] = spent[h][m])
                BY ConsumeTouches
            <4> QED
                BY <2>3, <4>1
        <3>2. Refilled(j, l)'.tokens = Refilled(j, l).tokens
            <4>1. /\ Refilled(j, l).tokens = Holds(bucket[j][l], l, clock)
                  /\ Refilled(j, l)'.tokens = Holds(bucket'[j][l], l, clock')
                BY RefillHolds, RefillHoldsNext
            <4>2. clock' = clock
                OBVIOUS
            <4> QED
                BY <3>1, <4>1, <4>2
        <3> QED
            BY <2>1, <3>1, <3>2 DEF TypeOK
    <2>4. CASE (j = i /\ l = k) /\ Enough(i, k)
        <3>1. /\ Refilled(j, l)'.tokens = Refilled(j, l).tokens - Period[l]
              /\ bucket'[j][l] \in Bucket(l)
            BY <2>4, ConsumeLeaves
        <3>2. spent'[j][l] = spent[j][l] + Cost(l)
            BY <2>4, ConsumeTouches
        <3>3. Cost(l) = IF uptime >= from THEN Period[l] ELSE 0
            BY DEF Cost
        <3> HIDE DEF Full, Cost
        <3> QED
            BY <2>1, <2>2, <3>1, <3>2, <3>3, <1>2
    <2>5. CASE (j = i /\ l = k) /\ ~Enough(i, k)
        <3>1. /\ Refilled(j, l)'.tokens = Refilled(j, l).tokens
              /\ bucket'[j][l] \in Bucket(l)
            BY <2>5, ConsumeLeaves
        <3>2. spent'[j][l] = spent[j][l]
            BY <2>5, ConsumeTouches
        <3> QED
            BY <2>1, <3>1, <3>2
    <2> QED
        BY <2>3, <2>4, <2>5
<1>4. Budget'
    BY <1>1, <1>2, <1>3 DEF Budget, Full
<1> QED
    BY <1>3, <1>4, ConsumeTouches

-----------------------------------------------------------------------------
\* A step that leaves the buckets and the time alone.
LEMMA BudgetStays ==
    ASSUME Budget, UNCHANGED <<bucket, clock, uptime, from, spent>>
    PROVE  Budget'
<1>1. Elapsed' = Elapsed
    BY DEF Elapsed
<1>2. \A i \in Ids, k \in Kinds : Refilled(i, k)'.tokens = Refilled(i, k).tokens
    BY RefillHolds, RefillHoldsNext
<1>3. \A i \in Ids, k \in Kinds :
        /\ spent'[i][k] + Refilled(i, k)'.tokens <= Full(k) + Elapsed'
        /\ uptime' < from' => spent'[i][k] = 0
    BY <1>1, <1>2 DEF Budget
<1> QED
    BY <1>3 DEF Budget, Full

\* A step that leaves the lock-outs and the failures alone.
LEMMA LocksStay ==
    ASSUME FailuresSpent, LockRuns, UNCHANGED <<clock, uptime, block, locked, failed, from>>,
           \A i \in Ips : spent'[i]["authfail"] = spent[i]["authfail"]
    PROVE  FailuresSpent' /\ LockRuns'
BY DEF FailuresSpent, LockRuns, LockedSince

LEMMA InitHolds == Init => IInv
<1> SUFFICES ASSUME Init PROVE IInv
    OBVIOUS
<1>1. /\ Ips \subseteq Ids /\ "authfail" \in Kinds /\ MaxTime \in Nat /\ MaxBack \in Nat
      /\ \A k \in Kinds : Full(k) \in Nat
    BY Constants
<1>2. TypeOK
    <2>1. uptime \in Times /\ clock \in Clocks /\ cleaned \in Clocks /\ from \in Times
        BY <1>1 DEF Init, Times, Clocks
    <2>2. /\ DOMAIN bucket = Ids /\ \A i \in Ids : DOMAIN bucket[i] = Kinds
          /\ \A i \in Ids, k \in Kinds : bucket[i][k] = NoBucket
        BY DEF Init
    <2>3. /\ count \in [Ips -> Nat] /\ trying \in [Ips -> Nat]
          /\ block \in [Ips -> Nat \cup {None}] /\ failed \in [Ips -> Nat]
          /\ spent \in [Ids -> [Kinds -> Nat]] /\ locked \in [Ips -> Times \cup {None}]
        BY DEF Init
    <2> QED
        BY <2>1, <2>2, <2>3 DEF TypeOK
<1>3. Budget
    <2> SUFFICES ASSUME NEW i \in Ids, NEW k \in Kinds
                 PROVE  /\ spent[i][k] + Refilled(i, k).tokens <= Full(k) + Elapsed
                        /\ uptime < from => spent[i][k] = 0
        BY DEF Budget
    <2>1. spent[i][k] = 0 /\ Refilled(i, k).tokens <= Full(k) /\ Refilled(i, k).tokens \in Nat
        BY <1>2, RefillType DEF Init
    <2>2. Elapsed \in Nat
        BY <1>2 DEF Elapsed, TypeOK, Times
    <2> QED
        BY <1>1, <2>1, <2>2
<1>4. FailuresSpent /\ LockRuns
    BY <1>1 DEF Init, FailuresSpent, LockRuns
<1> QED
    BY <1>2, <1>3, <1>4 DEF IInv

LEMMA AcceptKeeps ==
    ASSUME IInv, NEW i \in Ips, AcceptIp(i)
    PROVE  IInv'
<1>1. /\ i \in Ids /\ "conn" \in Kinds /\ "authfail" \in Kinds /\ Ips \subseteq Ids
      /\ None \notin Int
    BY Constants
<1>2. TypeOK /\ Budget /\ FailuresSpent /\ LockRuns
    BY DEF IInv
<1>3. UNCHANGED <<clock, uptime, cleaned, failed, locked>> /\ Unblock(i)
    BY DEF AcceptIp
<1>4. /\ Budget'
      /\ DOMAIN bucket' = Ids /\ \A j \in Ids : DOMAIN bucket'[j] = Kinds
      /\ \A j \in Ids, l \in Kinds : bucket'[j][l] \in Bucket(l) \cup {NoBucket}
      /\ spent' \in [Ids -> [Kinds -> Nat]] /\ from' = from
      /\ count' \in [Ips -> Nat] /\ trying' \in [Ips -> Nat]
      /\ \A j \in Ips : spent'[j]["authfail"] = spent[j]["authfail"]
    <2>1. CASE Blocked(i) \/ count[i] >= MaxConns
        <3>1. UNCHANGED <<bucket, from, spent, count, trying>>
            BY <2>1 DEF AcceptIp
        <3>2. Budget'
            BY <1>2, <1>3, <3>1, BudgetStays
        <3> QED
            BY <1>2, <3>1, <3>2 DEF TypeOK
    <2>2. CASE ~(Blocked(i) \/ count[i] >= MaxConns)
        <3> DEFINE n == IF Enough(i, "conn") THEN 1 ELSE 0
        <3>1. /\ Consume(i, "conn")
              /\ count' = [count EXCEPT ![i] = count[i] + n]
              /\ trying' = [trying EXCEPT ![i] = trying[i] + n]
            BY <2>2, <1>2 DEF AcceptIp, TypeOK
        <3>2. n \in Nat
            OBVIOUS
        <3> HIDE DEF n
        <3>3. count' \in [Ips -> Nat] /\ trying' \in [Ips -> Nat]
            BY <3>1, <3>2, <1>2 DEF TypeOK
        <3>4. /\ Budget'
              /\ DOMAIN bucket' = Ids /\ \A j \in Ids : DOMAIN bucket'[j] = Kinds
              /\ \A j \in Ids, l \in Kinds : bucket'[j][l] \in Bucket(l) \cup {NoBucket}
              /\ spent' \in [Ids -> [Kinds -> Nat]]
            BY <1>1, <1>2, <1>3, <3>1, ConsumeKeeps
        <3>5. \A j \in Ips : spent'[j]["authfail"] = spent[j]["authfail"]
            <4>1. \A h \in Ids, m \in Kinds : ~(h = i /\ m = "conn") =>
                    (bucket'[h][m] = bucket[h][m] /\ spent'[h][m] = spent[h][m])
                BY <1>1, <1>2, <3>1, ConsumeTouches
            <4> QED
                BY <4>1, <1>1
        <3> QED
            BY <3>1, <3>3, <3>4, <3>5 DEF Consume
    <2> QED
        BY <2>1, <2>2
<1>5. /\ block' \in [Ips -> Nat \cup {None}]
      /\ \A j \in Ips : block'[j] = IF j # i \/ Blocked(i) THEN block[j] ELSE None
    BY <1>2, <1>3 DEF Unblock, TypeOK
<1>6. TypeOK'
    BY <1>2, <1>3, <1>4, <1>5 DEF TypeOK, Bucket, Full, Clocks, Times, NoBucket
<1>7. FailuresSpent'
    BY <1>2, <1>3, <1>4 DEF FailuresSpent, LockedSince
<1>8. LockRuns'
    <2> SUFFICES ASSUME NEW j \in Ips, locked[j] # None
                 PROVE  /\ locked[j] <= uptime
                        /\ block'[j] = None => uptime - locked[j] >= Lockout
                        /\ block'[j] # None =>
                                block'[j] - clock >= Lockout - (uptime - locked[j])
        BY <1>3 DEF LockRuns
    <2>1. /\ locked[j] <= uptime /\ locked[j] \in Nat /\ uptime \in Nat /\ clock \in Nat
          /\ block[j] # None => block[j] \in Nat
          /\ Lockout \in Nat
        BY <1>2, Constants DEF LockRuns, TypeOK, Times, Clocks
    <2>2. /\ block[j] = None => uptime - locked[j] >= Lockout
          /\ block[j] # None => block[j] - clock >= Lockout - (uptime - locked[j])
        BY <1>2 DEF LockRuns
    <2>3. CASE block'[j] = block[j]
        BY <2>1, <2>2, <2>3
    <2>4. CASE block'[j] # block[j]
        <3>1. j = i /\ ~Blocked(i) /\ block'[j] = None /\ block[j] # None
            BY <2>4, <1>5
        <3>2. clock >= block[j]
            BY <3>1, <2>1 DEF Blocked
        <3> QED
            BY <2>1, <2>2, <3>1, <3>2
    <2> QED
        BY <2>3, <2>4
<1> QED
    BY <1>4, <1>6, <1>7, <1>8 DEF IInv

LEMMA ReleaseKeeps ==
    ASSUME IInv, NEW i \in Ips, ReleaseIp(i)
    PROVE  IInv'
<1>1. UNCHANGED <<clock, uptime, bucket, block, cleaned, from, spent, failed, locked>>
    BY DEF ReleaseIp
<1>2. TypeOK /\ Budget /\ FailuresSpent /\ LockRuns
    BY DEF IInv
<1>3. count' \in [Ips -> Nat] /\ trying' \in [Ips -> Nat]
    <2>1. /\ count[i] > 0 /\ count[i] \in Nat
          /\ count' = [count EXCEPT ![i] = count[i] - 1]
          /\ trying' \in {t \in {trying, [trying EXCEPT ![i] = trying[i] - 1]} :
                                t[i] \in 0..(count[i] - 1)}
          /\ count \in [Ips -> Nat] /\ trying \in [Ips -> Nat]
        BY <1>2 DEF ReleaseIp, TypeOK
    <2>2. count' \in [Ips -> Nat]
        BY <2>1
    <2>3. CASE trying' = trying
        BY <2>1, <2>2, <2>3
    <2>4. CASE trying' = [trying EXCEPT ![i] = trying[i] - 1]
        <3>1. trying'[i] \in Nat
            BY <2>1
        <3> QED
            BY <2>1, <2>2, <2>4, <3>1
    <2> QED
        BY <2>1, <2>3, <2>4
<1>4. TypeOK'
    BY <1>1, <1>2, <1>3 DEF TypeOK, Bucket, Full, Clocks, Times, NoBucket
<1>5. Budget' /\ FailuresSpent' /\ LockRuns'
    BY <1>1, <1>2, BudgetStays, LocksStay
<1> QED
    BY <1>4, <1>5 DEF IInv

LEMMA FailKeeps ==
    ASSUME IInv, NEW i \in Ips, RecordAuthFail(i)
    PROVE  IInv'
<1>1. /\ i \in Ids /\ "authfail" \in Kinds /\ Ips \subseteq Ids /\ None \notin Int
      /\ Lockout \in Nat
    BY Constants
<1>2. TypeOK /\ Budget /\ FailuresSpent /\ LockRuns
    BY DEF IInv
<1>3. UNCHANGED <<clock, uptime, count, cleaned, from>> /\ Consume(i, "authfail")
    BY DEF RecordAuthFail, Consume
<1>4. /\ Budget'
      /\ DOMAIN bucket' = Ids /\ \A j \in Ids : DOMAIN bucket'[j] = Kinds
      /\ \A j \in Ids, l \in Kinds : bucket'[j][l] \in Bucket(l) \cup {NoBucket}
      /\ spent' \in [Ids -> [Kinds -> Nat]]
    BY <1>1, <1>2, <1>3, ConsumeKeeps
<1>5. /\ uptime \in Times /\ uptime \in Nat /\ clock \in Nat /\ from \in Nat
      /\ Cost("authfail") \in Nat /\ \A j \in Ips : failed[j] \in Nat
    BY <1>1, <1>2, Constants DEF TypeOK, Times, Clocks, Cost
<1> DEFINE e == Enough(i, "authfail")  c == Cost("authfail")
<1>6. /\ block' = [block EXCEPT ![i] = IF e THEN block[i] ELSE clock + Lockout]
      /\ locked' = [locked EXCEPT ![i] = IF e THEN locked[i] ELSE uptime]
      /\ failed' = [failed EXCEPT ![i] = IF LockedSince(i) THEN failed[i]
                                         ELSE failed[i] + c]
      /\ trying' = [trying EXCEPT ![i] = trying[i] - 1] /\ trying[i] > 0
    BY <1>2 DEF RecordAuthFail, Locks, TypeOK
<1>7. /\ \A j \in Ips : j # i => spent'[j]["authfail"] = spent[j]["authfail"]
      /\ e => spent'[i]["authfail"] = spent[i]["authfail"] + c
      /\ ~e => spent'[i]["authfail"] = spent[i]["authfail"]
    <2>1. \A h \in Ids, m \in Kinds : ~(h = i /\ m = "authfail") =>
            (bucket'[h][m] = bucket[h][m] /\ spent'[h][m] = spent[h][m])
        BY <1>1, <1>2, <1>3, ConsumeTouches
    <2>2. /\ e => spent'[i]["authfail"] = spent[i]["authfail"] + c
          /\ ~e => spent'[i]["authfail"] = spent[i]["authfail"]
        BY <1>1, <1>2, <1>3, ConsumeTouches
    <2> QED
        BY <1>1, <2>1, <2>2
<1>8. uptime < from => c = 0
    BY <1>5 DEF Cost
<1> HIDE DEF e, c
<1>9. TypeOK'
    <2>1. /\ block' \in [Ips -> Nat \cup {None}] /\ locked' \in [Ips -> Times \cup {None}]
          /\ trying' \in [Ips -> Nat] /\ failed' \in [Ips -> Nat]
        BY <1>1, <1>2, <1>5, <1>6 DEF TypeOK, c
    <2> QED
        BY <1>2, <1>3, <1>4, <2>1 DEF TypeOK, Bucket, Full, Clocks, Times, NoBucket
<1>10. FailuresSpent'
    <2> SUFFICES ASSUME NEW j \in Ips, ~(locked'[j] # None /\ locked'[j] >= from)
                 PROVE  failed'[j] = spent'[j]["authfail"]
        BY <1>3 DEF FailuresSpent, LockedSince
    <2>1. ~LockedSince(j) => failed[j] = spent[j]["authfail"]
        BY <1>2 DEF FailuresSpent
    <2>2. CASE j # i
        <3>1. locked'[j] = locked[j] /\ failed'[j] = failed[j]
            BY <1>2, <1>6, <2>2 DEF TypeOK
        <3> QED
            BY <2>1, <2>2, <3>1, <1>7 DEF LockedSince
    <2>3. CASE j = i /\ e
        <3>1. locked'[j] = locked[j]
            BY <1>2, <1>6, <2>3 DEF TypeOK
        <3>2. ~LockedSince(j)
            BY <3>1 DEF LockedSince
        <3> QED
            BY <1>2, <1>6, <1>7, <2>1, <2>3, <3>2 DEF TypeOK
    <2>4. CASE j = i /\ ~e
        <3>1. locked'[j] = uptime
            BY <1>2, <1>6, <2>4 DEF TypeOK
        <3>2. uptime < from
            BY <3>1, <1>1, <1>5
        <3>3. ~LockedSince(j)
            <4>1. locked[j] # None => (locked[j] <= uptime /\ locked[j] \in Nat)
                BY <1>2 DEF LockRuns, TypeOK, Times
            <4> QED
                BY <4>1, <3>2, <1>5 DEF LockedSince
        <3>4. failed'[j] = failed[j]
            BY <1>2, <1>5, <1>6, <1>8, <2>4, <3>2, <3>3 DEF TypeOK
        <3> QED
            BY <1>7, <2>1, <2>4, <3>3, <3>4
    <2> QED
        BY <2>2, <2>3, <2>4
<1>11. LockRuns'
    <2> SUFFICES ASSUME NEW j \in Ips, locked'[j] # None
                 PROVE  /\ locked'[j] <= uptime
                        /\ block'[j] = None => uptime - locked'[j] >= Lockout
                        /\ block'[j] # None =>
                                block'[j] - clock >= Lockout - (uptime - locked'[j])
        BY <1>3 DEF LockRuns
    <2>1. CASE j # i \/ e
        <3>1. locked'[j] = locked[j] /\ block'[j] = block[j]
            BY <1>2, <1>6, <2>1 DEF TypeOK
        <3> QED
            BY <1>2, <3>1 DEF LockRuns
    <2>2. CASE j = i /\ ~e
        <3>1. locked'[j] = uptime /\ block'[j] = clock + Lockout
            BY <1>2, <1>6, <2>2 DEF TypeOK
        <3> QED
            BY <3>1, <1>1, <1>5
    <2> QED
        BY <2>1, <2>2
<1> QED
    BY <1>4, <1>9, <1>10, <1>11 DEF IInv

LEMMA UserKeeps ==
    ASSUME IInv, NEW u \in Users, NEW k \in UserKinds, UserRequest(u, k)
    PROVE  IInv'
<1>1. u \in Ids /\ k \in Kinds /\ u \notin Ips /\ "authfail" \in Kinds /\ Ips \subseteq Ids
    BY Constants, RateAssumption
<1>2. TypeOK /\ Budget /\ FailuresSpent /\ LockRuns
    BY DEF IInv
<1>3. /\ UNCHANGED <<clock, uptime, count, trying, block, cleaned, failed, locked, from>>
      /\ Consume(u, k)
    BY DEF UserRequest, Consume
<1>4. /\ Budget'
      /\ DOMAIN bucket' = Ids /\ \A j \in Ids : DOMAIN bucket'[j] = Kinds
      /\ \A j \in Ids, l \in Kinds : bucket'[j][l] \in Bucket(l) \cup {NoBucket}
      /\ spent' \in [Ids -> [Kinds -> Nat]]
    BY <1>1, <1>2, <1>3, ConsumeKeeps
<1>5. TypeOK'
    BY <1>2, <1>3, <1>4 DEF TypeOK, Bucket, Full, Clocks, Times, NoBucket
<1>6. \A j \in Ips : spent'[j]["authfail"] = spent[j]["authfail"]
    <2>1. \A h \in Ids, m \in Kinds : ~(h = u /\ m = k) =>
            (bucket'[h][m] = bucket[h][m] /\ spent'[h][m] = spent[h][m])
        BY <1>1, <1>2, <1>3, ConsumeTouches
    <2> QED
        BY <1>1, <2>1
<1>7. FailuresSpent' /\ LockRuns'
    BY <1>2, <1>3, <1>6, LocksStay
<1> QED
    BY <1>4, <1>5, <1>7 DEF IInv

\* The buckets that go are full: what a request finds there is the same.
LEMMA TickKeeps ==
    ASSUME IInv, Tick
    PROVE  IInv'
<1>1. /\ UNCHANGED <<clock, uptime, count, trying, from, spent, failed, locked>>
      /\ cleaned' = clock
    BY DEF Tick
<1>2. TypeOK /\ Budget /\ FailuresSpent /\ LockRuns
    BY DEF IInv
<1>3. \A i \in Ids, k \in Kinds :
        bucket'[i][k] = IF Stale(i) THEN NoBucket ELSE bucket[i][k]
    BY <1>2 DEF Tick, TypeOK
<1>4. \A i \in Ips : block'[i] = IF Over(i) THEN None ELSE block[i]
    BY DEF Tick
<1>5. TypeOK'
    <2>1. DOMAIN bucket' = Ids /\ \A i \in Ids : DOMAIN bucket'[i] = Kinds
        BY <1>2 DEF Tick, TypeOK
    <2>2. \A i \in Ids, k \in Kinds : bucket'[i][k] \in Bucket(k) \cup {NoBucket}
        BY <1>2, <1>3 DEF TypeOK
    <2>3. block' \in [Ips -> Nat \cup {None}]
        BY <1>2 DEF Tick, TypeOK
    <2> QED
        BY <1>1, <1>2, <2>1, <2>2, <2>3
        DEF TypeOK, Bucket, Full, Clocks, Times, NoBucket
<1>6. Budget'
    <2>1. Elapsed' = Elapsed /\ clock' = clock /\ clock \in Nat
        BY <1>1, <1>2, Constants DEF Elapsed, TypeOK, Clocks
    <2>2. ASSUME NEW i \in Ids, NEW k \in Kinds
          PROVE  Refilled(i, k)'.tokens = Refilled(i, k).tokens
        <3>1. /\ Refilled(i, k).tokens = Holds(bucket[i][k], k, clock)
              /\ Refilled(i, k)'.tokens = Holds(bucket'[i][k], k, clock')
            BY RefillHolds, RefillHoldsNext
        <3>2. CASE Stale(i)
            <4>1. bucket[i][k] # NoBucket => bucket[i][k].ts < clock - IdleMax
                BY <3>2 DEF Stale
            <4>2. Holds(bucket[i][k], k, clock) = Full(k)
                <5> DEFINE b == bucket[i][k]
                <5>1. b # NoBucket => /\ b.tokens \in Nat /\ b.tokens <= Full(k)
                                      /\ b.ts \in Nat
                    BY <1>2, BucketType
                <5>2. b # NoBucket => b.ts < clock - IdleMax
                    BY <4>1
                <5> HIDE DEF b
                <5>3. (b # NoBucket => b.ts < clock - IdleMax) =>
                        Holds(b, k, clock) = Full(k)
                    BY <5>1, <2>1, HoldsOver
                <5> QED
                    BY <5>2, <5>3 DEF b
            <4>3. Holds(bucket'[i][k], k, clock') = Full(k)
                BY <3>2, <1>3 DEF Holds
            <4> QED
                BY <3>1, <4>2, <4>3
        <3>3. CASE ~Stale(i)
            BY <3>1, <3>3, <1>3, <2>1
        <3> QED
            BY <3>2, <3>3
    <2>3. \A i \in Ids, k \in Kinds :
            /\ spent'[i][k] + Refilled(i, k)'.tokens <= Full(k) + Elapsed'
            /\ uptime' < from' => spent'[i][k] = 0
        BY <1>1, <1>2, <2>1, <2>2 DEF Budget
    <2> QED
        BY <2>3 DEF Budget, Full
<1>7. FailuresSpent'
    BY <1>1, <1>2 DEF FailuresSpent, LockedSince
<1>8. LockRuns'
    <2> SUFFICES ASSUME NEW j \in Ips, locked[j] # None
                 PROVE  /\ locked[j] <= uptime
                        /\ block'[j] = None => uptime - locked[j] >= Lockout
                        /\ block'[j] # None =>
                                block'[j] - clock >= Lockout - (uptime - locked[j])
        BY <1>1 DEF LockRuns
    <2>1. /\ locked[j] <= uptime /\ locked[j] \in Nat /\ uptime \in Nat /\ clock \in Nat
          /\ block[j] # None => block[j] \in Nat
          /\ Lockout \in Nat
        BY <1>2, Constants DEF LockRuns, TypeOK, Times, Clocks
    <2>2. /\ block[j] = None => uptime - locked[j] >= Lockout
          /\ block[j] # None => block[j] - clock >= Lockout - (uptime - locked[j])
        BY <1>2 DEF LockRuns
    <2> QED
        BY <1>4, <2>1, <2>2 DEF Over
<1> QED
    BY <1>5, <1>6, <1>7, <1>8 DEF IInv

\* Time passes, or the clock is set back.
LEMMA TimeKeeps ==
    ASSUME IInv, Advance \/ SetBack
    PROVE  IInv'
<1>1. UNCHANGED <<bucket, count, trying, block, cleaned, from, spent, failed, locked>>
    BY DEF Advance, SetBack
<1>2. TypeOK /\ Budget /\ FailuresSpent /\ LockRuns
    BY DEF IInv
<1>3. /\ uptime \in Nat /\ uptime <= MaxTime /\ from \in Nat
      /\ clock \in Nat /\ clock <= MaxTime + MaxBack
      /\ MaxTime \in Nat /\ MaxBack \in Nat /\ Lockout \in Nat
    BY <1>2, Constants DEF TypeOK, Times, Clocks
<1>4. \/ Advance /\ uptime' = uptime + 1 /\ clock' = clock + 1
      \/ SetBack /\ uptime' = uptime /\ clock' = clock - 1
    BY DEF Advance, SetBack
<1>5. uptime' \in Times /\ clock' \in Clocks
    BY <1>3 DEF Advance, SetBack, Times, Clocks
<1>6. TypeOK'
    BY <1>1, <1>2, <1>5 DEF TypeOK, Bucket, Full, Clocks, Times, NoBucket
<1>7. Budget'
    <2> SUFFICES ASSUME NEW i \in Ids, NEW k \in Kinds
                 PROVE  /\ spent[i][k] + Refilled(i, k)'.tokens <= Full(k) + Elapsed'
                        /\ uptime' < from => spent[i][k] = 0
        BY <1>1 DEF Budget, Full
    <2>1. /\ spent[i][k] + Refilled(i, k).tokens <= Full(k) + Elapsed
          /\ uptime < from => spent[i][k] = 0
          /\ spent[i][k] \in Nat /\ Full(k) \in Nat
        BY <1>2, Constants DEF Budget, TypeOK
    <2>2. Refilled(i, k)'.tokens = Holds(bucket[i][k], k, clock')
        BY <1>1, RefillHoldsNext
    <2>3. Refilled(i, k).tokens = Holds(bucket[i][k], k, clock)
        BY RefillHolds
    <2>4. /\ Holds(bucket[i][k], k, clock) \in Nat
          /\ Holds(bucket[i][k], k, clock + 1) <= Holds(bucket[i][k], k, clock) + 1
          /\ Holds(bucket[i][k], k, clock - 1) <= Holds(bucket[i][k], k, clock)
        BY <1>2, <1>3, BucketType, HoldsOver
    <2>5. Holds(bucket[i][k], k, clock') \in Nat /\ Holds(bucket[i][k], k, clock') <= Full(k)
        <3>1. clock' \in Nat
            BY <1>3, <1>5 DEF Clocks
        <3> QED
            BY <1>2, <3>1, BucketType, HoldsOver
    <2> DEFINE h == Holds(bucket[i][k], k, clock)  g == Holds(bucket[i][k], k, clock')
               f == Full(k)  x == spent[i][k]
    <2>6. CASE Advance
        <3>1. uptime' = uptime + 1 /\ clock' = clock + 1
            BY <2>6 DEF Advance
        <3>2. g <= h + 1 /\ h \in Nat /\ g \in Nat /\ f \in Nat /\ x \in Nat /\ g <= f
            BY <2>1, <2>4, <2>5, <3>1
        <3>3. x + h <= f + Elapsed /\ (uptime < from => x = 0)
            BY <2>1, <2>3
        <3> HIDE DEF h, g, f, x
        <3>4. /\ x + g <= f + IF uptime + 1 >= from THEN (uptime + 1) - from ELSE 0
              /\ uptime + 1 < from => x = 0
            BY <1>3, <3>2, <3>3 DEF Elapsed
        <3>5. Elapsed' = IF uptime + 1 >= from THEN (uptime + 1) - from ELSE 0
            BY <1>1, <3>1 DEF Elapsed
        <3> QED
            BY <2>2, <3>1, <3>4, <3>5 DEF g, f, x
    <2>7. CASE SetBack
        <3>1. uptime' = uptime /\ clock' = clock - 1 /\ Elapsed' = Elapsed
            BY <2>7, <1>1 DEF SetBack, Elapsed
        <3>2. g <= h /\ h \in Nat /\ g \in Nat /\ f \in Nat /\ x \in Nat
            BY <2>1, <2>4, <2>5, <3>1
        <3>3. x + h <= f + Elapsed /\ (uptime < from => x = 0) /\ Elapsed \in Nat
            BY <2>1, <2>3, <1>3 DEF Elapsed
        <3> HIDE DEF h, g, f, x
        <3>4. x + g <= f + Elapsed
            BY <3>2, <3>3
        <3> QED
            BY <2>1, <2>2, <3>1, <3>4 DEF g, f, x
    <2> QED
        BY <2>6, <2>7
<1>8. FailuresSpent'
    BY <1>1, <1>2 DEF FailuresSpent, LockedSince
<1>9. LockRuns'
    <2> SUFFICES ASSUME NEW j \in Ips, locked[j] # None
                 PROVE  /\ locked[j] <= uptime'
                        /\ block[j] = None => uptime' - locked[j] >= Lockout
                        /\ block[j] # None =>
                                block[j] - clock' >= Lockout - (uptime' - locked[j])
        BY <1>1 DEF LockRuns
    <2>1. /\ locked[j] <= uptime /\ locked[j] \in Nat
          /\ block[j] # None => block[j] \in Nat
        BY <1>2 DEF LockRuns, TypeOK, Times
    <2>2. /\ block[j] = None => uptime - locked[j] >= Lockout
          /\ block[j] # None => block[j] - clock >= Lockout - (uptime - locked[j])
        BY <1>2 DEF LockRuns
    <2> QED
        BY <1>3, <1>4, <2>1, <2>2
<1> QED
    BY <1>6, <1>7, <1>8, <1>9 DEF IInv

-----------------------------------------------------------------------------
LEMMA StepKeeps == IInv /\ [Next]_vars => IInv'
<1> SUFFICES ASSUME IInv, [Next]_vars PROVE IInv'
    OBVIOUS
<1>1. ASSUME NEW i \in Ips, AcceptIp(i) PROVE IInv'
    BY <1>1, AcceptKeeps
<1>2. ASSUME NEW i \in Ips, ReleaseIp(i) PROVE IInv'
    BY <1>2, ReleaseKeeps
<1>3. ASSUME NEW i \in Ips, RecordAuthFail(i) PROVE IInv'
    BY <1>3, FailKeeps
<1>4. ASSUME NEW u \in Users, NEW k \in UserKinds, UserRequest(u, k) PROVE IInv'
    BY <1>4, UserKeeps
<1>5. CASE Tick
    BY <1>5, TickKeeps
<1>6. CASE Advance \/ SetBack
    BY <1>6, TimeKeeps
<1>7. CASE UNCHANGED vars
    <2>1. UNCHANGED <<clock, uptime, bucket, count, trying, block, cleaned, from,
                      spent, failed, locked>>
        BY <1>7 DEF vars, state
    <2>2. Budget' /\ FailuresSpent' /\ LockRuns'
        BY <2>1, BudgetStays, LocksStay DEF IInv
    <2>3. TypeOK'
        BY <2>1 DEF IInv, TypeOK, Bucket, Full, Clocks, Times, NoBucket
    <2> QED
        BY <2>2, <2>3 DEF IInv
<1> QED
    BY <1>1, <1>2, <1>3, <1>4, <1>5, <1>6, <1>7 DEF Next

LEMMA Invariant == Spec => []IInv
BY InitHolds, StepKeeps, PTL DEF Spec

\* The types of the buckets, the counts and the lock-outs.
THEOREM TypeCorrect == Spec => []TypeOK
<1>1. IInv => TypeOK
    BY DEF IInv
<1> QED
    BY <1>1, Invariant, PTL

\* No bucket admits more in any period than it holds and what is refilled
\* meanwhile, whatever the clean-up drops and however the clock is set back.
THEOREM RateHolds == Spec => []WithinRate
<1>1. IInv => WithinRate
    <2> SUFFICES ASSUME IInv, uptime >= from, NEW i \in Ids, NEW k \in Kinds
                 PROVE  spent[i][k] <= Full(k) + (uptime - from)
        BY DEF WithinRate
    <2>1. /\ spent[i][k] + Refilled(i, k).tokens <= Full(k) + Elapsed
          /\ spent[i][k] \in Nat /\ Refilled(i, k).tokens \in Nat /\ Full(k) \in Nat
        BY RefillType, Constants DEF IInv, Budget, TypeOK
    <2>2. Elapsed = uptime - from /\ Elapsed \in Int
        BY DEF Elapsed, IInv, TypeOK, Times
    <2> HIDE DEF Full
    <2> QED
        BY <2>1, <2>2
<1> QED
    BY <1>1, Invariant, PTL

\* Failed logins beyond the rate lock the address out.
THEOREM FailuresAreLocked == Spec => []FailuresLock
<1>1. IInv => FailuresLock
    <2> SUFFICES ASSUME IInv, uptime >= from, NEW i \in Ips,
                        failed[i] > Full("authfail") + (uptime - from), ~LockedSince(i)
                 PROVE  FALSE
        BY DEF FailuresLock
    <2>0. i \in Ids /\ "authfail" \in Kinds
        BY Constants
    <2>1. /\ spent[i]["authfail"] + Refilled(i, "authfail").tokens
                <= Full("authfail") + Elapsed
          /\ spent[i]["authfail"] \in Nat /\ Refilled(i, "authfail").tokens \in Nat
          /\ Full("authfail") \in Nat
        BY <2>0, RefillType, Constants DEF IInv, Budget, TypeOK
    <2>2. Elapsed = uptime - from /\ Elapsed \in Int
        BY DEF Elapsed, IInv, TypeOK, Times
    <2>3. failed[i] = spent[i]["authfail"]
        BY DEF IInv, FailuresSpent
    <2> HIDE DEF Full
    <2> QED
        BY <2>1, <2>2, <2>3
<1> QED
    BY <1>1, Invariant, PTL

\* An address that was locked out gets no connection before its lock-out is over.
THEOREM LockIsHeld == Spec => LockHolds
<1>1. IInv /\ [Next]_vars => [\A i \in Ips : count'[i] > count[i] =>
                            locked[i] = None \/ uptime - locked[i] >= Lockout]_vars
    <2> SUFFICES ASSUME IInv, Next, NEW i \in Ips, count'[i] > count[i], locked[i] # None
                 PROVE  uptime - locked[i] >= Lockout
        OBVIOUS
    <2>1. /\ \A j \in Ips : count[j] \in Nat
          /\ count \in [Ips -> Nat]
        BY DEF IInv, TypeOK
    <2>2. PICK j \in Ips : AcceptIp(j) \/ ReleaseIp(j)
        <3>1. CASE UNCHANGED count
            BY <3>1, <2>1
        <3> QED
            BY <3>1 DEF Next, RecordAuthFail, UserRequest, Tick, Advance, SetBack
    <2>3. CASE ReleaseIp(j)
        <3>1. count' = [count EXCEPT ![j] = count[j] - 1]
            BY <2>3 DEF ReleaseIp
        <3> QED
            BY <3>1, <2>1
    <2>4. CASE AcceptIp(j)
        <3>1. j = i /\ ~Blocked(i)
            <4>1. ~(Blocked(j) \/ count[j] >= MaxConns)
                <5>1. CASE Blocked(j) \/ count[j] >= MaxConns
                    BY <5>1, <2>1, <2>4 DEF AcceptIp
                <5> QED
                    BY <5>1
            <4> DEFINE n == IF Enough(j, "conn") THEN 1 ELSE 0
            <4>2. count' = [count EXCEPT ![j] = count[j] + n]
                BY <2>1, <2>4, <4>1 DEF AcceptIp
            <4> HIDE DEF n
            <4> QED
                BY <2>1, <4>1, <4>2
        <3>2. /\ locked[i] \in Nat /\ uptime \in Nat /\ clock \in Nat
              /\ block[i] # None => block[i] \in Nat
              /\ Lockout \in Nat
            BY Constants DEF IInv, TypeOK, Times, Clocks
        <3>3. /\ block[i] = None => uptime - locked[i] >= Lockout
              /\ block[i] # None => block[i] - clock >= Lockout - (uptime - locked[i])
            BY DEF IInv, LockRuns
        <3> QED
            BY <3>1, <3>2, <3>3 DEF Blocked
    <2> QED
        BY <2>2, <2>3, <2>4
<1> QED
    BY <1>1, Invariant, PTL DEF Spec, LockHolds

-----------------------------------------------------------------------------
(***************************************************************************)
(* FramePipeline.                                                          *)
(***************************************************************************)
AnyByte == [of : Nat, at : Nat, zip : BOOLEAN]
Streams == [Nat -> AnyByte]

\* The bytes of f after the first a, up to the b-th.
Seg(f, a, b) == [j \in 1..(b - a) |-> f[a + j]]

LEMMA NatSetInduction ==
    ASSUME NEW S, 0 \in S, \A n \in Nat : n \in S => n + 1 \in S
    PROVE  \A n \in Nat : n \in S
<1> SUFFICES ASSUME NEW m \in Nat, m \notin S PROVE FALSE
  OBVIOUS
<1> DEFINE T == {n \in Nat : n \notin S}
           R == OpToRel(<, Nat)
<1>1. IsWellFoundedOn(R, Nat)
  BY NatLessThanWellFounded
<1>2. T \subseteq Nat /\ T # {}
  OBVIOUS
<1>3. \A x, y \in Nat : <<x, y>> \in R <=> x < y
  BY DEF OpToRel
<1> HIDE DEF R
<1>4. PICK x \in T : \A y \in T : ~(<<y, x>> \in R)
  BY <1>1, <1>2, WFMin
<1>5. x # 0 /\ x \in Nat
  OBVIOUS
<1>6. x - 1 \in Nat /\ x - 1 < x /\ (x - 1) + 1 = x
  BY <1>5
<1>7. x - 1 \in S
  BY <1>3, <1>4, <1>5, <1>6
<1> QED BY <1>4, <1>5, <1>6, <1>7

LEMMA SegSeq ==
    ASSUME NEW f \in Streams, NEW a \in Nat, NEW b \in Nat, a <= b
    PROVE  Seg(f, a, b) \in Seq(AnyByte)
BY DEF Seg, Streams

LEMMA SegLen ==
    ASSUME NEW f, NEW a \in Nat, NEW b \in Nat, a <= b
    PROVE  Len(Seg(f, a, b)) = b - a
BY DEF Seg

LEMMA SegAt ==
    ASSUME NEW f, NEW a \in Nat, NEW b \in Nat, NEW j \in 1..(b - a)
    PROVE  Seg(f, a, b)[j] = f[a + j]
BY DEF Seg

LEMMA SegEmpty ==
    ASSUME NEW f, NEW a \in Nat
    PROVE  Seg(f, a, a) = <<>>
BY DEF Seg

\* A sequence is a segment if its length and its elements are those of it.
LEMMA IsSeg ==
    ASSUME NEW f \in Streams, NEW a \in Nat, NEW b \in Nat, a <= b,
           NEW s \in Seq(AnyByte), Len(s) = b - a, \A j \in 1..(b - a) : s[j] = f[a + j]
    PROVE  s = Seg(f, a, b)
<1>1. Seg(f, a, b) \in Seq(AnyByte)
  BY SegSeq
<1>2. Len(Seg(f, a, b)) = b - a
  BY SegLen
<1>3. \A j \in 1..(b - a) : s[j] = Seg(f, a, b)[j]
  <2> SUFFICES ASSUME NEW j \in 1..(b - a)
               PROVE  s[j] = Seg(f, a, b)[j]
    OBVIOUS
  <2>1. Seg(f, a, b)[j] = f[a + j]
    BY SegAt
  <2> QED
    BY <2>1
<1>4. \A j \in 1..Len(s) : s[j] = Seg(f, a, b)[j]
  BY <1>3
<1> QED BY <1>1, <1>2, <1>4, SeqEqual

\* Concatenation and parts, for the facts that are used as equations of its terms.
Cat(s, t) == s \o t
Cut(s, i, j) == SubSeq(s, i, j)

LEMMA SegConcat ==
    ASSUME NEW f \in Streams, NEW a \in Nat, NEW b \in Nat, NEW c \in Nat,
           a <= b, b <= c
    PROVE  Cat(Seg(f, a, b), Seg(f, b, c)) = Seg(f, a, c)
<1> DEFINE s == Seg(f, a, b) t == Seg(f, b, c)
<1>1. s \in Seq(AnyByte) /\ t \in Seq(AnyByte)
  BY SegSeq
<1>2. Len(s) = b - a
  BY SegLen
<1>3. Len(t) = c - b
  BY SegLen
<1>4. \A j \in 1..(b - a) : s[j] = f[a + j]
  BY SegAt
<1>5. \A j \in 1..(c - b) : t[j] = f[b + j]
  BY SegAt
<1> HIDE DEF s, t
<1>6. /\ s \o t \in Seq(AnyByte) /\ Len(s \o t) = Len(s) + Len(t)
      /\ \A j \in 1..(Len(s) + Len(t)) :
            (s \o t)[j] = IF j <= Len(s) THEN s[j] ELSE t[j - Len(s)]
  BY <1>1, ConcatProperties
<1>7. a <= c /\ (b - a) + (c - b) = c - a
  OBVIOUS
<1>8. Len(s \o t) = c - a
  BY <1>2, <1>3, <1>6, <1>7
<1>9. ASSUME NEW j \in 1..(c - a) PROVE (s \o t)[j] = f[a + j]
  <2>0. (s \o t)[j] = IF j <= b - a THEN s[j] ELSE t[j - (b - a)]
    BY <1>2, <1>3, <1>6, <1>7
  <2>1. CASE j <= b - a
    BY <1>4, <2>0, <2>1
  <2>2. CASE ~(j <= b - a)
    <3>1. j - (b - a) \in 1..(c - b) /\ b + (j - (b - a)) = a + j
      BY <2>2
    <3> QED BY <1>5, <2>0, <2>2, <3>1
  <2> QED BY <2>1, <2>2
<1>10. s \o t = Seg(f, a, c)
  BY <1>6, <1>7, <1>8, <1>9, IsSeg
<1> QED BY <1>10 DEF s, t, Cat

LEMMA SegSub ==
    ASSUME NEW f \in Streams, NEW a \in Nat, NEW b \in Nat,
           NEW i \in Nat, NEW j \in Nat, 1 <= i, i <= j + 1, a + j <= b
    PROVE  Cut(Seg(f, a, b), i, j) = Seg(f, a + i - 1, a + j)
<1> DEFINE s == Seg(f, a, b) x == a + i - 1 y == a + j
<1>0. x \in Nat /\ y \in Nat /\ x <= y
  OBVIOUS
<1>1. s \in Seq(AnyByte)
  BY SegSeq
<1>2. \A n \in 1..(b - a) : s[n] = f[a + n]
  BY SegAt
<1> HIDE DEF s
<1>3. \A n \in i..j : s[n] \in AnyByte
  BY <1>2 DEF Streams
<1>4. i \in Int /\ j \in Int /\ j - i + 1 = y - x /\ y - x \in Nat
  OBVIOUS
<1>5. /\ SubSeq(s, i, j) \in Seq(AnyByte)
      /\ Len(SubSeq(s, i, j)) = IF i <= j THEN j - i + 1 ELSE 0
      /\ \A n \in 1..(j - i + 1) : SubSeq(s, i, j)[n] = s[i + n - 1]
  BY <1>3, <1>4, SubSeqProperties
<1>6. Len(SubSeq(s, i, j)) = y - x
  BY <1>4, <1>5
<1>7. ASSUME NEW n \in 1..(y - x) PROVE SubSeq(s, i, j)[n] = f[x + n]
  <2>1. n \in 1..(j - i + 1)
    BY <1>4
  <2>2. i + n - 1 \in 1..(b - a) /\ a + (i + n - 1) = x + n
    OBVIOUS
  <2>3. SubSeq(s, i, j)[n] = s[i + n - 1]
    BY <1>5, <2>1
  <2> QED BY <1>2, <2>2, <2>3
<1> HIDE DEF x, y
<1>8. SubSeq(s, i, j) = Seg(f, x, y)
  BY <1>0, <1>5, <1>6, <1>7, IsSeg
<1> QED BY <1>8 DEF s, Cut, x, y

LEMMA SegSame ==
    ASSUME NEW f, NEW g, NEW a \in Nat, NEW b \in Nat, \A p \in a+1..b : f[p] = g[p]
    PROVE  Seg(f, a, b) = Seg(g, a, b)
<1>1. \A j \in 1..(b - a) : f[a + j] = g[a + j]
  OBVIOUS
<1> QED BY <1>1 DEF Seg

-----------------------------------------------------------------------------
\* g is what the definition of Joined unfolds to, for the first n sequences of ss.
Fills(g, ss, n) == g = [i \in 0..n |-> IF i = 0 THEN <<>> ELSE g[i - 1] \o ss[i]]

LEMMA FillsAt ==
    ASSUME NEW ss, NEW n \in Nat, NEW g, Fills(g, ss, n)
    PROVE  g[0] = <<>> /\ \A i \in 1..n : g[i] = g[i - 1] \o ss[i]
<1>1. \A i \in 0..n : g[i] = IF i = 0 THEN <<>> ELSE g[i - 1] \o ss[i]
  BY Zenon DEF Fills
<1>2. 0 \in 0..n /\ \A i \in 1..n : i \in 0..n /\ i # 0
  OBVIOUS
<1> QED BY <1>1, <1>2, Zenon

LEMMA FillsExists ==
    ASSUME NEW ss, NEW n \in Nat
    PROVE  \E g : Fills(g, ss, n)
<1> DEFINE T == {k \in Nat : \E g : Fills(g, ss, k)}
<1>1. 0 \in T
  <2>1. Fills([i \in 0..0 |-> <<>>], ss, 0)
    BY DEF Fills
  <2> QED BY <2>1
<1>2. ASSUME NEW k \in Nat, k \in T PROVE k + 1 \in T
  <2>1. PICK g : Fills(g, ss, k)
    BY <1>2
  <2> DEFINE f == [i \in 0..(k + 1) |-> IF i = k + 1 THEN g[k] \o ss[k + 1] ELSE g[i]]
  <2>2. g[0] = <<>> /\ \A i \in 1..k : g[i] = g[i - 1] \o ss[i]
    BY <2>1, FillsAt
  <2>3. ASSUME NEW i \in 0..(k + 1)
        PROVE  f[i] = IF i = 0 THEN <<>> ELSE f[i - 1] \o ss[i]
    <3>1. CASE i = 0
      BY <2>2, <3>1
    <3>2. CASE i = k + 1
      <4>0. k + 1 \in 0..(k + 1) /\ k \in 0..(k + 1) /\ k # k + 1
        OBVIOUS
      <4>1. f[k + 1] = g[k] \o ss[k + 1] /\ f[k] = g[k]
        BY <4>0, Zenon
      <4>2. i # 0 /\ i - 1 = k
        BY <3>2
      <4> HIDE DEF f
      <4> QED BY <3>2, <4>1, <4>2
    <3>3. CASE i \in 1..k
      BY <2>2, <3>3
    <3> QED BY <3>1, <3>2, <3>3
  <2>4. f = [i \in 0..(k + 1) |-> f[i]]
    OBVIOUS
  <2> HIDE DEF f
  <2>5. f = [i \in 0..(k + 1) |-> IF i = 0 THEN <<>> ELSE f[i - 1] \o ss[i]]
    BY <2>3, <2>4
  <2>6. Fills(f, ss, k + 1)
    BY <2>5 DEF Fills
  <2> QED BY <2>6
<1> HIDE DEF T
<1>3. n \in T
  BY <1>1, <1>2, NatSetInduction
<1> QED BY <1>3 DEF T

LEMMA FillsUnique ==
    ASSUME NEW ss, NEW tt, NEW n \in Nat, NEW m \in Nat, NEW k \in Nat, k <= n, k <= m,
           NEW f, NEW g, Fills(f, ss, n), Fills(g, tt, m), \A i \in 1..k : ss[i] = tt[i]
    PROVE  f[k] = g[k]
<1> DEFINE T == {i \in Nat : i <= k => f[i] = g[i]}
<1>1. f[0] = <<>> /\ \A i \in 1..n : f[i] = f[i - 1] \o ss[i]
  BY FillsAt
<1>2. g[0] = <<>> /\ \A i \in 1..m : g[i] = g[i - 1] \o tt[i]
  BY FillsAt
<1>3. 0 \in T
  BY <1>1, <1>2
<1>4. ASSUME NEW i \in Nat, i \in T PROVE i + 1 \in T
  <2>1. SUFFICES ASSUME i + 1 <= k PROVE f[i + 1] = g[i + 1]
    OBVIOUS
  <2>2. f[i] = g[i] /\ ss[i + 1] = tt[i + 1]
    BY <1>4, <2>1
  <2>3. i + 1 \in 1..n /\ i + 1 \in 1..m /\ (i + 1) - 1 = i
    BY <2>1
  <2>4. f[i + 1] = f[i] \o ss[i + 1]
    BY <1>1, <2>3
  <2>5. g[i + 1] = g[i] \o tt[i + 1]
    BY <1>2, <2>3
  <2> QED BY <2>2, <2>4, <2>5
<1> HIDE DEF T
<1>5. k \in T
  BY <1>3, <1>4, NatSetInduction
<1> QED BY <1>5 DEF T

LEMMA JoinedIs ==
    ASSUME NEW ss, Len(ss) \in Nat, NEW g, Fills(g, ss, Len(ss))
    PROVE  Joined(ss) = g[Len(ss)]
<1> DEFINE n == Len(ss)
<1>1. ASSUME NEW f, f = [i \in 0..n |-> IF i = 0 THEN <<>> ELSE f[i - 1] \o ss[i]]
      PROVE  f = g
  <2>1. Fills(f, ss, n)
    BY <1>1 DEF Fills
  <2>2. \A i \in 0..n : f[i] = g[i]
    <3> SUFFICES ASSUME NEW i \in 0..n PROVE f[i] = g[i]
      OBVIOUS
    <3>1. i \in Nat /\ i <= n
      OBVIOUS
    <3> HIDE DEF n
    <3> QED BY <2>1, <3>1, FillsUnique DEF n
  <2>3. f = [i \in 0..n |-> f[i]] /\ g = [i \in 0..n |-> g[i]]
    BY <2>1 DEF Fills
  <2> HIDE DEF n
  <2> QED BY <2>2, <2>3
<1>2. g = [i \in 0..n |-> IF i = 0 THEN <<>> ELSE g[i - 1] \o ss[i]]
  BY DEF Fills
<1> QED BY <1>1, <1>2 DEF Joined

LEMMA JoinedNone == Joined(<<>>) = <<>>
<1>1. PICK g : Fills(g, <<>>, 0)
  BY FillsExists
<1>2. Len(<<>>) = 0
  OBVIOUS
<1>3. g[0] = <<>>
  BY <1>1, FillsAt
<1>4. Joined(<<>>) = g[Len(<<>>)]
  BY <1>1, <1>2, JoinedIs
<1> QED BY <1>2, <1>3, <1>4

LEMMA JoinedAppend ==
    ASSUME NEW S, NEW ss \in Seq(S), NEW x \in S
    PROVE  Joined(Append(ss, x)) = Joined(ss) \o x
<1> DEFINE n == Len(ss) tt == Append(ss, x)
<1>1. n \in Nat /\ n + 1 \in Nat /\ n <= n + 1
  OBVIOUS
<1>2. Len(tt) = n + 1 /\ tt[n + 1] = x /\ \A i \in 1..n : ss[i] = tt[i]
  BY AppendProperties
<1> HIDE DEF n, tt
<1>3. PICK f : Fills(f, ss, n)
  BY <1>1, FillsExists
<1>4. PICK g : Fills(g, tt, n + 1)
  BY <1>1, FillsExists
<1>5. f[n] = g[n]
  BY <1>1, <1>2, <1>3, <1>4, FillsUnique
<1>6. g[n + 1] = g[n] \o x
  <2>1. n + 1 \in 1..(n + 1) /\ n + 1 - 1 = n /\ n + 1 \in Nat
    BY <1>1
  <2>2. \A i \in 1..(n + 1) : g[i] = g[i - 1] \o tt[i]
    BY <1>1, <1>4, FillsAt
  <2>3. g[n + 1] = g[(n + 1) - 1] \o tt[n + 1]
    BY <2>1, <2>2, Zenon
  <2> QED BY <1>1, <1>2, <2>1, <2>3
<1>7. Joined(ss) = f[n]
  BY <1>1, <1>3, JoinedIs DEF n
<1>8. Joined(tt) = g[n + 1]
  BY <1>1, <1>2, <1>4, JoinedIs
<1> QED BY <1>5, <1>6, <1>7, <1>8 DEF tt

-----------------------------------------------------------------------------
\* The bytes of a stream of frames with the filter after the q-th of them, by their place
\* in it, as they are and, after the z-th frame, deflated.
NoMessage == MaxMessages + BlobLen + 1
FrameByte(p) == [of |-> (p + 1) \div 2, at |-> 2 - (p % 2), zip |-> FALSE]
BlobByte(q, i) == [of |-> q, at |-> 2 + i, zip |-> FALSE]
ByteAt(q, p) ==
    IF p <= 2 * q THEN FrameByte(p)
    ELSE IF p <= 2 * q + BlobLen THEN BlobByte(q, p - 2 * q) ELSE FrameByte(p - BlobLen)
Plain(q) == [p \in Nat |-> ByteAt(q, p)]
Zipped(b) == [of |-> b.of, at |-> b.at, zip |-> TRUE]
WiredAt(q, z, p) == IF p <= 2 * z THEN ByteAt(q, p) ELSE Zipped(ByteAt(q, p))
Wired(q, z) == [p \in Nat |-> WiredAt(q, z, p)]

\* The j-th item of that stream, and the place of its last byte.
Item(q, j) == IF j <= q THEN Frame(j) ELSE IF j = q + 1 THEN Blob(q) ELSE Frame(j - 1)
End(q, j) == IF j <= q THEN 2 * j ELSE 2 * (j - 1) + BlobLen

LEMMA Numbers ==
    /\ BlobLen \in Nat /\ BlobLen >= 1 /\ BufSize \in Nat /\ BufSize >= 1
    /\ MaxReadLen \in Nat /\ MaxReadLen >= 1 /\ MaxMessages \in Nat
    /\ NoMessage \in Nat
BY PipelineAssumption DEF NoMessage

LEMMA FrameBytes ==
    ASSUME NEW p \in Nat
    PROVE  /\ FrameByte(p) \in AnyByte
           /\ FrameByte(p).at = 1 \/ FrameByte(p).at = 2
           /\ Newline(FrameByte(p)) <=> p % 2 = 0
<1>1. p % 2 \in {0, 1} /\ (p + 1) \div 2 \in Nat
  OBVIOUS
<1>2. 2 - (p % 2) \in Nat /\ 2 - (p % 2) \in {1, 2} /\ (2 - (p % 2) = 2 <=> p % 2 = 0)
  BY <1>1
<1>3. FrameByte(p).at = 2 - (p % 2)
  BY DEF FrameByte
<1>4. FrameByte(p) \in AnyByte
  BY <1>1, <1>2 DEF FrameByte, AnyByte
<1> QED BY <1>2, <1>3, <1>4 DEF Newline

LEMMA TwoBytes ==
    ASSUME NEW j \in Nat
    PROVE  /\ FrameByte(2 * j + 1) = [of |-> j + 1, at |-> 1, zip |-> FALSE]
           /\ FrameByte(2 * j + 2) = [of |-> j + 1, at |-> 2, zip |-> FALSE]
<1>1. (2 * j + 1) % 2 = 1 /\ (2 * j + 2) % 2 = 0
  OBVIOUS
<1>2. (2 * j + 1 + 1) \div 2 = j + 1 /\ (2 * j + 2 + 1) \div 2 = j + 1
  OBVIOUS
<1>3. 2 - ((2 * j + 1) % 2) = 1 /\ 2 - ((2 * j + 2) % 2) = 2
  BY <1>1
<1>4. FrameByte(2 * j + 1) = [of |-> j + 1, at |-> 1, zip |-> FALSE]
  BY <1>2, <1>3, Zenon DEF FrameByte
<1>5. FrameByte(2 * j + 2) = [of |-> j + 1, at |-> 2, zip |-> FALSE]
  BY <1>2, <1>3, Zenon DEF FrameByte
<1> QED BY <1>4, <1>5

LEMMA PlainAt ==
    ASSUME NEW q \in Nat, NEW p \in Nat
    PROVE  Plain(q)[p] = ByteAt(q, p)
BY DEF Plain

LEMMA WiredIs ==
    ASSUME NEW q \in Nat, NEW z \in Nat, NEW p \in Nat
    PROVE  /\ p <= 2 * z => Wired(q, z)[p] = Plain(q)[p]
           /\ p > 2 * z => Wired(q, z)[p] = Zipped(Plain(q)[p])
BY DEF Wired, WiredAt, Plain

LEMMA BytesAt ==
    ASSUME NEW q \in Nat, NEW p \in Nat
    PROVE  ByteAt(q, p) \in AnyByte /\ ByteAt(q, p).zip = FALSE
<1>0. BlobLen \in Nat
  BY Numbers
<1>1. CASE p <= 2 * q
  BY <1>1, FrameBytes DEF ByteAt, FrameByte
<1>2. CASE ~(p <= 2 * q) /\ p <= 2 * q + BlobLen
  <2>1. 2 + (p - 2 * q) \in Nat
    BY <1>0, <1>2
  <2> QED BY <1>2, <2>1 DEF ByteAt, BlobByte, AnyByte
<1>3. CASE ~(p <= 2 * q) /\ ~(p <= 2 * q + BlobLen)
  <2>1. p - BlobLen \in Nat
    BY <1>0, <1>3
  <2> QED BY <1>3, <2>1, FrameBytes DEF ByteAt, FrameByte
<1> QED BY <1>1, <1>2, <1>3

LEMMA PlainType ==
    ASSUME NEW q \in Nat
    PROVE  Plain(q) \in Streams
BY BytesAt DEF Plain, Streams

LEMMA WiredType ==
    ASSUME NEW q \in Nat, NEW z \in Nat
    PROVE  Wired(q, z) \in Streams
<1>1. ASSUME NEW p \in Nat PROVE WiredAt(q, z, p) \in AnyByte
  <2>1. ByteAt(q, p) \in AnyByte
    BY BytesAt
  <2>2. Zipped(ByteAt(q, p)) \in AnyByte
    BY <2>1 DEF Zipped, AnyByte
  <2> QED BY <2>1, <2>2 DEF WiredAt
<1> QED BY <1>1 DEF Wired, Streams

LEMMA PlainSeg ==
    ASSUME NEW q \in Nat, NEW a \in Nat, NEW b \in Nat, a <= b
    PROVE  Seg(Plain(q), a, b) \in Seq(AnyByte)
<1>1. Plain(q) \in Streams
  BY PlainType
<1> QED BY <1>1, SegSeq

LEMMA WiredSeg ==
    ASSUME NEW q \in Nat, NEW z \in Nat, NEW a \in Nat, NEW b \in Nat, a <= b
    PROVE  Seg(Wired(q, z), a, b) \in Seq(AnyByte)
<1>1. Wired(q, z) \in Streams
  BY WiredType
<1> QED BY <1>1, SegSeq

LEMMA PlainConcat ==
    ASSUME NEW q \in Nat, NEW a \in Nat, NEW b \in Nat, NEW c \in Nat, a <= b, b <= c
    PROVE  Cat(Seg(Plain(q), a, b), Seg(Plain(q), b, c)) = Seg(Plain(q), a, c)
<1>1. Plain(q) \in Streams
  BY PlainType
<1> QED BY <1>1, SegConcat

LEMMA WiredConcat ==
    ASSUME NEW q \in Nat, NEW z \in Nat, NEW a \in Nat, NEW b \in Nat, NEW c \in Nat,
           a <= b, b <= c
    PROVE  Cat(Seg(Wired(q, z), a, b), Seg(Wired(q, z), b, c)) = Seg(Wired(q, z), a, c)
<1>1. Wired(q, z) \in Streams
  BY WiredType
<1> QED BY <1>1, SegConcat

\* A frame starts where an item that is not the filter does, and is two bytes long.
LEMMA FrameAt ==
    ASSUME NEW q \in Nat, NEW j \in Nat, j # q
    PROVE  /\ End(q, j) \in Nat /\ End(q, j + 1) = End(q, j) + 2
           /\ Seg(Plain(q), End(q, j), End(q, j) + 2) = Item(q, j + 1)
<1> DEFINE a == End(q, j)
<1>0. BlobLen \in Nat /\ BlobLen >= 1
  BY Numbers
<1>1. CASE j < q
  <2>1. a = 2 * j /\ a \in Nat /\ End(q, j + 1) = a + 2
    BY <1>1 DEF End
  <2>2. ByteAt(q, a + 1) = FrameByte(2 * j + 1) /\ ByteAt(q, a + 2) = FrameByte(2 * j + 2)
    BY <1>1, <2>1 DEF ByteAt
  <2>3. Item(q, j + 1) = Frame(j + 1)
    BY <1>1 DEF Item
  <2> QED BY <2>1, <2>2, <2>3, TwoBytes, PlainAt DEF Seg, Frame
<1>2. CASE j > q
  <2>1. j - 1 \in Nat /\ j - 1 >= q /\ a = 2 * (j - 1) + BlobLen
    BY <1>2 DEF End
  <2>2. a \in Nat /\ End(q, j + 1) = a + 2
    BY <1>0, <1>2, <2>1 DEF End
  <2>3. ByteAt(q, a + 1) = FrameByte(2 * (j - 1) + 1)
    BY <1>0, <1>2, <2>1 DEF ByteAt
  <2>4. ByteAt(q, a + 2) = FrameByte(2 * (j - 1) + 2)
    BY <1>0, <1>2, <2>1 DEF ByteAt
  <2>5. Item(q, j + 1) = Frame(j)
    BY <1>2 DEF Item
  <2>6. /\ ByteAt(q, a + 1) = [of |-> j, at |-> 1, zip |-> FALSE]
        /\ ByteAt(q, a + 2) = [of |-> j, at |-> 2, zip |-> FALSE]
    <3>1. j - 1 + 1 = j
      BY <2>1
    <3> QED BY <2>1, <2>3, <2>4, <3>1, TwoBytes
  <2> HIDE DEF a
  <2> QED BY <2>2, <2>5, <2>6, PlainAt DEF Seg, Frame, a
<1> QED BY <1>1, <1>2

LEMMA BlobAt ==
    ASSUME NEW q \in Nat
    PROVE  /\ End(q, q) = 2 * q /\ End(q, q + 1) = 2 * q + BlobLen
           /\ Seg(Plain(q), End(q, q), End(q, q + 1)) = Item(q, q + 1)
<1>0. BlobLen \in Nat /\ BlobLen >= 1
  BY Numbers
<1>1. End(q, q) = 2 * q /\ End(q, q + 1) = 2 * q + BlobLen
  BY <1>0 DEF End
<1>2. Item(q, q + 1) = Blob(q)
  BY DEF Item
<1>3. \A i \in 1..BlobLen : Plain(q)[2 * q + i] = [of |-> q, at |-> 2 + i, zip |-> FALSE]
  <2> SUFFICES ASSUME NEW i \in 1..BlobLen
               PROVE  Plain(q)[2 * q + i] = [of |-> q, at |-> 2 + i, zip |-> FALSE]
    OBVIOUS
  <2>1. 2 * q + i \in Nat /\ ~(2 * q + i <= 2 * q) /\ 2 * q + i <= 2 * q + BlobLen
        /\ (2 * q + i) - 2 * q = i
    BY <1>0
  <2>2. ByteAt(q, 2 * q + i) = BlobByte(q, i)
    BY <2>1 DEF ByteAt
  <2> QED BY <2>1, <2>2, PlainAt DEF BlobByte
<1>4. (2 * q + BlobLen) - 2 * q = BlobLen
  BY <1>0
<1> QED BY <1>1, <1>2, <1>3, <1>4 DEF Seg, Blob

LEMMA ItemAt ==
    ASSUME NEW q \in Nat, NEW j \in Nat
    PROVE  /\ End(q, j) \in Nat /\ End(q, j + 1) \in Nat /\ End(q, j) < End(q, j + 1)
           /\ Seg(Plain(q), End(q, j), End(q, j + 1)) = Item(q, j + 1)
<1>0. BlobLen \in Nat /\ BlobLen >= 1
  BY Numbers
<1>1. CASE j = q
  BY <1>0, <1>1, BlobAt
<1>2. CASE j # q
  <2>1. /\ End(q, j) \in Nat /\ End(q, j + 1) = End(q, j) + 2
        /\ Seg(Plain(q), End(q, j), End(q, j) + 2) = Item(q, j + 1)
    BY <1>2, FrameAt
  <2> QED BY <2>1
<1> QED BY <1>1, <1>2

LEMMA EndMonotonic ==
    ASSUME NEW q \in Nat, NEW i \in Nat, NEW j \in Nat
    PROVE  /\ End(q, i) \in Nat /\ End(q, j) \in Nat
           /\ i < j => End(q, i) < End(q, j)
           /\ i <= j => End(q, i) <= End(q, j)
<1>0. BlobLen \in Nat /\ BlobLen >= 1
  BY Numbers
<1> QED BY <1>0 DEF End

LEMMA ItemType ==
    ASSUME NEW q \in Nat, NEW j \in Nat, j >= 1
    PROVE  Item(q, j) \in Seq(AnyByte) /\ Item(q, j) # <<>>
<1>1. j - 1 \in Nat /\ j - 1 + 1 = j
  OBVIOUS
<1>2. /\ End(q, j - 1) \in Nat /\ End(q, j) \in Nat /\ End(q, j - 1) < End(q, j)
      /\ Seg(Plain(q), End(q, j - 1), End(q, j)) = Item(q, j)
  BY <1>1, ItemAt
<1>3. Seg(Plain(q), End(q, j - 1), End(q, j)) \in Seq(AnyByte)
  BY <1>2, PlainSeg
<1>4. Len(Seg(Plain(q), End(q, j - 1), End(q, j))) = End(q, j) - End(q, j - 1)
  BY <1>2, SegLen
<1>5. Len(Item(q, j)) # 0
  BY <1>2, <1>4
<1> QED BY <1>2, <1>3, <1>5

\* The items after the first a of them, n in all.
ItemsAfter(q, a, n) == [j \in 1..n |-> Item(q, a + j)]

LEMMA ItemsType ==
    ASSUME NEW q \in Nat, NEW a \in Nat, NEW n \in Nat
    PROVE  ItemsAfter(q, a, n) \in Seq(Seq(AnyByte)) /\ Len(ItemsAfter(q, a, n)) = n
<1>1. \A j \in 1..n : a + j \in Nat /\ a + j >= 1
  OBVIOUS
<1>2. \A j \in 1..n : Item(q, a + j) \in Seq(AnyByte)
  BY <1>1, ItemType
<1> QED BY <1>2 DEF ItemsAfter

LEMMA ItemsAppend ==
    ASSUME NEW q \in Nat, NEW a \in Nat, NEW n \in Nat
    PROVE  ItemsAfter(q, a, n + 1) = Append(ItemsAfter(q, a, n), Item(q, a + n + 1))
<1> DEFINE s == ItemsAfter(q, a, n) t == ItemsAfter(q, a, n + 1) x == Item(q, a + n + 1)
<1>1. s \in Seq(Seq(AnyByte)) /\ Len(s) = n
  BY ItemsType
<1>2. n + 1 \in Nat
  OBVIOUS
<1>3. t \in Seq(Seq(AnyByte)) /\ Len(t) = n + 1
  BY <1>2, ItemsType
<1>4. x \in Seq(AnyByte)
  BY ItemType
<1>5. /\ Append(s, x) \in Seq(Seq(AnyByte)) /\ Len(Append(s, x)) = Len(s) + 1
      /\ \A i \in 1..Len(s) : Append(s, x)[i] = s[i]
      /\ Append(s, x)[Len(s) + 1] = x
  BY <1>1, <1>4, AppendProperties
<1>6. \A i \in 1..n : s[i] = t[i]
  BY DEF ItemsAfter
<1>7. t[n + 1] = x
  BY DEF ItemsAfter
<1> HIDE DEF s, t, x
<1>8. \A i \in 1..Len(t) : i \in 1..n \/ i = n + 1
  BY <1>3
<1>9. \A i \in 1..Len(t) : t[i] = Append(s, x)[i]
  BY <1>1, <1>5, <1>6, <1>7, <1>8
<1>10. t = Append(s, x)
  BY <1>1, <1>3, <1>5, <1>9, SeqEqual
<1> QED BY <1>10 DEF s, t, x

\* Items one after the other are the bytes from the end of the last before them.
LEMMA JoinedItems ==
    ASSUME NEW q \in Nat, NEW a \in Nat, NEW n \in Nat
    PROVE  Joined(ItemsAfter(q, a, n)) = Seg(Plain(q), End(q, a), End(q, a + n))
<1> DEFINE T == {m \in Nat : Joined(ItemsAfter(q, a, m)) = Seg(Plain(q), End(q, a), End(q, a + m))}
<1>1. 0 \in T
  <2>1. ItemsAfter(q, a, 0) = <<>>
    BY DEF ItemsAfter
  <2>2. Seg(Plain(q), End(q, a), End(q, a + 0)) = <<>>
    BY ItemAt, SegEmpty
  <2> QED BY <2>1, <2>2, JoinedNone
<1>2. ASSUME NEW m \in Nat, m \in T PROVE m + 1 \in T
  <2> DEFINE e == End(q, a) f == End(q, a + m) g == End(q, a + m + 1)
  <2>1. a + m \in Nat
    OBVIOUS
  <2>2. f \in Nat /\ g \in Nat /\ f < g /\ Seg(Plain(q), f, g) = Item(q, a + m + 1)
    BY <2>1, ItemAt
  <2>3. e \in Nat /\ e <= f
    BY <2>1, EndMonotonic
  <2>4. Item(q, a + m + 1) \in Seq(AnyByte)
    BY <2>1, ItemType
  <2>5. Joined(ItemsAfter(q, a, m + 1)) = Cat(Joined(ItemsAfter(q, a, m)), Item(q, a + m + 1))
    BY <2>4, ItemsAppend, ItemsType, JoinedAppend DEF Cat
  <2>6. Joined(ItemsAfter(q, a, m)) = Seg(Plain(q), e, f)
    BY <1>2
  <2> HIDE DEF e, f, g
  <2>7. Cat(Seg(Plain(q), e, f), Seg(Plain(q), f, g)) = Seg(Plain(q), e, g)
    <3>1. f <= g
      BY <2>2
    <3> QED BY <2>2, <2>3, <3>1, PlainConcat
  <2>8. a + (m + 1) = a + m + 1
    OBVIOUS
  <2>9. Joined(ItemsAfter(q, a, m + 1)) = Seg(Plain(q), e, g)
    BY <2>2, <2>5, <2>6, <2>7
  <2> QED BY <2>8, <2>9 DEF e, g
<1> HIDE DEF T
<1>3. n \in T
  BY <1>1, <1>2, NatSetInduction
<1> QED BY <1>3 DEF T

-----------------------------------------------------------------------------
\* Up to the frame that asks for it nothing is deflated.
LEMMA NotDeflated ==
    ASSUME NEW q \in Nat, NEW z \in Nat, NEW a \in Nat, NEW b \in Nat, b <= 2 * z
    PROVE  Seg(Wired(q, z), a, b) = Seg(Plain(q), a, b)
<1>1. ASSUME NEW p \in a+1..b PROVE Wired(q, z)[p] = Plain(q)[p]
  <2>1. p \in Nat /\ p <= 2 * z
    OBVIOUS
  <2> QED BY <2>1, WiredIs
<1> QED BY <1>1, SegSame

LEMMA Unzip ==
    ASSUME NEW b \in AnyByte, b.zip = FALSE
    PROVE  [Zipped(b) EXCEPT !.zip = FALSE] = b /\ [b EXCEPT !.zip = FALSE] = b
<1>1. \A r \in AnyByte : r = [of |-> r.of, at |-> r.at, zip |-> r.zip]
  BY DEF AnyByte
<1>2. ASSUME NEW r \in AnyByte
      PROVE  /\ [r EXCEPT !.zip = FALSE] \in AnyByte /\ [r EXCEPT !.zip = FALSE].zip = FALSE
             /\ [r EXCEPT !.zip = FALSE].of = r.of /\ [r EXCEPT !.zip = FALSE].at = r.at
  BY DEF AnyByte
<1>3. Zipped(b) \in AnyByte /\ Zipped(b).of = b.of /\ Zipped(b).at = b.at
  BY DEF Zipped, AnyByte
<1> DEFINE x == [Zipped(b) EXCEPT !.zip = FALSE]
<1>4. x \in AnyByte /\ x.zip = b.zip /\ x.of = b.of /\ x.at = b.at
  BY <1>2, <1>3
<1>5. [b EXCEPT !.zip = FALSE] = b
  BY DEF AnyByte
<1> HIDE DEF x
<1>6. x = b
  BY <1>1, <1>4
<1> QED BY <1>5, <1>6 DEF x

LEMMA InflatedSeg ==
    ASSUME NEW q \in Nat, NEW z \in Nat, NEW a \in Nat, NEW b \in Nat, a <= b
    PROVE  /\ Inflated(Seg(Wired(q, z), a, b)) = Seg(Plain(q), a, b)
           /\ Inflated(Seg(Plain(q), a, b)) = Seg(Plain(q), a, b)
<1>1. ASSUME NEW p \in Nat
      PROVE  /\ [Wired(q, z)[p] EXCEPT !.zip = FALSE] = Plain(q)[p]
             /\ [Plain(q)[p] EXCEPT !.zip = FALSE] = Plain(q)[p]
  <2>0. Plain(q)[p] = ByteAt(q, p)
    BY PlainAt
  <2>1. ByteAt(q, p) \in AnyByte /\ ByteAt(q, p).zip = FALSE
    BY BytesAt
  <2>2. [Zipped(Plain(q)[p]) EXCEPT !.zip = FALSE] = Plain(q)[p]
    BY <2>0, <2>1, Unzip, Zenon
  <2>3. [Plain(q)[p] EXCEPT !.zip = FALSE] = Plain(q)[p]
    BY <2>0, <2>1, Unzip, Zenon
  <2>4. Wired(q, z)[p] = Plain(q)[p] \/ Wired(q, z)[p] = Zipped(Plain(q)[p])
    <3>1. p <= 2 * z \/ p > 2 * z
      OBVIOUS
    <3> QED BY <3>1, WiredIs
  <2> QED BY <2>2, <2>3, <2>4, Zenon
<1>2. \A f, g : (\A p \in Nat : [f[p] EXCEPT !.zip = FALSE] = g[p])
            => Inflated(Seg(f, a, b)) = Seg(g, a, b)
  <2> SUFFICES ASSUME NEW f, NEW g, \A p \in Nat : [f[p] EXCEPT !.zip = FALSE] = g[p]
               PROVE  Inflated(Seg(f, a, b)) = Seg(g, a, b)
    OBVIOUS
  <2>1. DOMAIN Seg(f, a, b) = 1..(b - a)
    BY DEF Seg
  <2>2. \A j \in 1..(b - a) : Seg(f, a, b)[j] = f[a + j] /\ a + j \in Nat
    BY SegAt
  <2> QED BY <2>1, <2>2 DEF Inflated, Seg
<1> QED BY <1>1, <1>2

\* The inflate stage takes what is deflated, and all of it.
LEMMA InflateSeg ==
    ASSUME NEW q \in Nat, NEW z \in Nat, NEW a \in Nat, NEW b \in Nat, a <= b, 2 * z <= a
    PROVE  Inflate(Seg(Wired(q, z), a, b)) = Seg(Plain(q), a, b)
<1>1. ASSUME NEW j \in DOMAIN Seg(Wired(q, z), a, b) PROVE Seg(Wired(q, z), a, b)[j].zip
  <2>1. j \in 1..(b - a)
    BY DEF Seg
  <2>2. a + j \in Nat /\ a + j > 2 * z
    BY <2>1
  <2>3. Seg(Wired(q, z), a, b)[j] = Wired(q, z)[a + j]
    BY <2>1, SegAt
  <2>4. Wired(q, z)[a + j] = Zipped(Plain(q)[a + j])
    BY <2>2, WiredIs
  <2> QED BY <2>3, <2>4 DEF Zipped
<1> QED BY <1>1, InflatedSeg DEF Inflate

LEMMA NewlineAt ==
    ASSUME NEW q \in Nat, NEW z \in Nat, NEW p \in Nat
    PROVE  Newline(Wired(q, z)[p]) <=> Newline(Plain(q)[p])
<1>1. p <= 2 * z \/ p > 2 * z
  OBVIOUS
<1>2. Newline(Zipped(Plain(q)[p])) <=> Newline(Plain(q)[p])
  BY DEF Newline, Zipped
<1> QED BY <1>1, <1>2, WiredIs

\* A frame is a byte that is not its end, and one that is.
LEMMA LineBytes ==
    ASSUME NEW q \in Nat, NEW j \in Nat, j # q
    PROVE  /\ ~Newline(Plain(q)[End(q, j) + 1]) /\ Newline(Plain(q)[End(q, j) + 2])
<1> DEFINE a == End(q, j)
<1>1. a \in Nat /\ Seg(Plain(q), a, a + 2) = Item(q, j + 1)
  BY FrameAt
<1>2. Item(q, j + 1) = Frame(j + 1) \/ Item(q, j + 1) = Frame(j)
  BY DEF Item
<1>3. Item(q, j + 1)[1].at = 1 /\ Item(q, j + 1)[2].at = 2
  BY <1>2 DEF Frame
<1> HIDE DEF a
<1>4. 1 \in 1..(a + 2 - a) /\ 2 \in 1..(a + 2 - a) /\ a + 2 \in Nat
  BY <1>1
<1>a. a \in Nat
  BY <1>1
<1>5. Seg(Plain(q), a, a + 2)[1] = Plain(q)[a + 1]
  BY <1>a, <1>4, SegAt
<1>6. Seg(Plain(q), a, a + 2)[2] = Plain(q)[a + 2]
  BY <1>a, <1>4, SegAt
<1> QED BY <1>1, <1>3, <1>5, <1>6 DEF Newline, a

-----------------------------------------------------------------------------
\* The stages on segments of the stream.
LineAt(f, a, b) == [kind |-> "line", buf |-> Seg(f, a, b), left |-> 0]
Result(stage, unit, stored) ==
    [stage |-> stage, unit |-> unit, overflow |-> FALSE, stored |-> stored]

LEMMA SelectLine ==
    ASSUME NEW f, NEW a \in Nat, NEW b \in Nat, a <= b,
           ~Newline(f[a + 1]), Newline(f[a + 2])
    PROVE  /\ b - a <= 1 => SelectInSeq(Seg(f, a, b), Newline) = 0
           /\ b - a > 1 => SelectInSeq(Seg(f, a, b), Newline) = 2
<1> DEFINE s == Seg(f, a, b) I == {i \in 1..Len(s) : Newline(s[i])}
<1>1. Len(s) = b - a
  BY SegLen
<1>2. \A i \in 1..(b - a) : s[i] = f[a + i]
  BY SegAt
<1>3. SelectInSeq(s, Newline) = IF I # {} THEN Min(I) ELSE 0
  BY DEF SelectInSeq
<1> HIDE DEF s
<1>4. 1 \notin I
  BY <1>1, <1>2
<1>5. \A i \in I : i \in Int /\ i >= 2 /\ i <= b - a
  BY <1>1, <1>4
<1>6. b - a > 1 => 2 \in I
  BY <1>1, <1>2
<1> HIDE DEF I
<1>7. CASE b - a <= 1
  <2>1. I = {}
    BY <1>5, <1>7
  <2> QED BY <1>3, <1>7, <2>1 DEF s
<1>8. CASE b - a > 1
  <2>1. 2 \in I /\ \A i \in I : 2 <= i
    BY <1>5, <1>6, <1>8
  <2>2. \A x \in I : (\A i \in I : x <= i) => x = 2
    BY <1>5, <2>1
  <2>3. Min(I) = 2
    BY <2>1, <2>2 DEF Min
  <2> QED BY <1>3, <1>8, <2>1, <2>3 DEF s
<1> QED BY <1>7, <1>8

\* The line stage gives back the frame its buffer begins with, once that is complete.
LEMMA PushLineSeg ==
    ASSUME NEW f \in Streams, NEW a \in Nat, NEW b \in Nat, NEW c \in Nat,
           a <= b, b <= c, ~Newline(f[a + 1]), Newline(f[a + 2]),
           NEW x \in Nat, c - a <= 1 => x = a, c - a > 1 => x = a + 2
    PROVE  PushLine(LineAt(f, a, b), Seg(f, b, c))
            = Result(LineAt(f, x, c), Seg(f, a, x), <<>>)
<1> DEFINE buf == LineAt(f, a, b).buf \o Seg(f, b, c)
           end == SelectInSeq(buf, Newline)
<1>0. a <= c /\ a <= x /\ x <= c
  OBVIOUS
<1>1. LineAt(f, a, b).buf = Seg(f, a, b)
  BY DEF LineAt
<1>2. Cat(Seg(f, a, b), Seg(f, b, c)) = Seg(f, a, c)
  BY SegConcat
<1>3. buf = Seg(f, a, c)
  BY <1>1, <1>2 DEF Cat
<1>4. end = x - a
  <2> HIDE DEF buf
  <2>1. SelectInSeq(buf, Newline) = SelectInSeq(Seg(f, a, c), Newline)
    BY <1>3
  <2>2. c - a <= 1 => SelectInSeq(Seg(f, a, c), Newline) = 0
    BY <1>0, SelectLine
  <2>3. c - a > 1 => SelectInSeq(Seg(f, a, c), Newline) = 2
    BY <1>0, SelectLine
  <2> QED BY <1>0, <2>1, <2>2, <2>3
<1> HIDE DEF end
<1>5. SubSeq(Seg(f, a, c), end + 1, Len(Seg(f, a, c))) = Seg(f, x, c)
  <2>1. Len(Seg(f, a, c)) = c - a
    BY <1>0, SegLen
  <2> DEFINE i == end + 1 j == c - a
  <2>2. i \in Nat /\ j \in Nat /\ 1 <= i /\ i <= j + 1 /\ a + j <= c
    BY <1>0, <1>4
  <2>3. a + i - 1 = x /\ a + j = c
    BY <1>4
  <2> HIDE DEF i, j
  <2>4. Cut(Seg(f, a, c), i, j) = Seg(f, a + i - 1, a + j)
    BY <1>0, <2>2, SegSub
  <2> QED BY <2>1, <2>3, <2>4 DEF Cut, i, j
<1>6. SubSeq(Seg(f, a, c), 1, end) = Seg(f, a, x)
  <2>1. a + 1 - 1 = a /\ end \in Nat /\ a + end = x /\ 1 <= end + 1
    BY <1>0, <1>4
  <2>2. Cut(Seg(f, a, c), 1, end) = Seg(f, a + 1 - 1, a + end)
    BY <1>0, <2>1, SegSub
  <2> QED BY <2>1, <2>2 DEF Cut
<1>7. ((IF end = 0 THEN Len(Seg(f, a, c)) ELSE end - 1) > MaxReadLen) = FALSE
  <2>1. Len(Seg(f, a, c)) = c - a
    BY <1>0, SegLen
  <2> HIDE DEF end
  <2> QED BY <1>4, <2>1, Numbers
<1>8. [LineAt(f, a, b) EXCEPT !.buf = Seg(f, x, c)] = LineAt(f, x, c)
  BY DEF LineAt
<1>9. PushLine(LineAt(f, a, b), Seg(f, b, c)) =
        [stage |-> [LineAt(f, a, b) EXCEPT !.buf = SubSeq(buf, end + 1, Len(buf))],
         unit |-> SubSeq(buf, 1, end),
         overflow |-> (IF end = 0 THEN Len(buf) ELSE end - 1) > MaxReadLen,
         stored |-> <<>>]
  BY Zenon DEF PushLine, end
<1> HIDE DEF buf
<1> QED BY <1>3, <1>5, <1>6, <1>7, <1>8, <1>9, Zenon DEF Result

\* The filter of the q-th message, of which the bytes up to the e-th were taken: some
\* are wanted still, or it was handed over.
Wanted(q, e) == e < 2 * q + BlobLen
Held(q, e) == IF Wanted(q, e) THEN Seg(Plain(q), 2 * q, e) ELSE <<>>
Left(q, e) == IF Wanted(q, e) THEN 2 * q + BlobLen - e ELSE 0
Counted(buf, left) == [kind |-> "counted", buf |-> buf, left |-> left]
CountedAt(q, e) == Counted(Held(q, e), Left(q, e))
Changed(stage, buf, left) == [stage EXCEPT !.buf = buf, !.left = left]

LEMMA CountedChanged ==
    ASSUME NEW q, NEW e, NEW b, NEW l
    PROVE  Changed(CountedAt(q, e), b, l) = Counted(b, l)
<1> DEFINE r == Counted(b, Left(q, e))
<1>1. [CountedAt(q, e) EXCEPT !.buf = b] = r
  BY DEF CountedAt, Counted
<1>2. [r EXCEPT !.left = l] = Counted(b, l)
  BY DEF Counted
<1>3. \A s : [s EXCEPT !.buf = b, !.left = l] = [[s EXCEPT !.buf = b] EXCEPT !.left = l]
  OBVIOUS
<1> HIDE DEF r
<1> QED BY <1>1, <1>2, <1>3, Zenon DEF Changed

LEMMA CountedFields ==
    ASSUME NEW q, NEW e
    PROVE  /\ CountedAt(q, e).kind = "counted" /\ CountedAt(q, e).buf = Held(q, e)
           /\ CountedAt(q, e).left = Left(q, e)
BY DEF CountedAt, Counted

LEMMA PushCountedSeg ==
    ASSUME NEW q \in Nat, NEW e \in Nat, NEW c \in Nat, 2 * q <= e, e <= c,
           NEW y \in Nat,
           ~Wanted(q, e) => y = e, Wanted(q, e) /\ Wanted(q, c) => y = c,
           Wanted(q, e) /\ ~Wanted(q, c) => y = 2 * q + BlobLen
    PROVE  PushCounted(CountedAt(q, e), Seg(Plain(q), e, c))
            = Result(CountedAt(q, y), Seg(Plain(q), y, c),
                     IF Wanted(q, e) /\ ~Wanted(q, c) THEN <<Item(q, q + 1)>> ELSE <<>>)
<1> DEFINE chunk == Seg(Plain(q), e, c) left == CountedAt(q, e).left
           n == IF Len(chunk) < left THEN Len(chunk) ELSE left
           buf == CountedAt(q, e).buf \o SubSeq(chunk, 1, n)
           fires == left > 0 /\ n = left
           full == 2 * q + BlobLen
<1>0. BlobLen \in Nat /\ BlobLen >= 1
  BY Numbers
<1>1. full \in Nat /\ e <= y /\ y <= c /\ 2 * q <= y /\ 2 * q <= full
  BY <1>0 DEF Wanted
<1>s. Plain(q) \in Streams
  BY PlainType
<1>2. left = IF Wanted(q, e) THEN full - e ELSE 0
  <2>1. left = Left(q, e)
    BY CountedFields
  <2> QED BY <1>0, <2>1 DEF Left
<1>3. Len(chunk) = c - e
  BY SegLen
<1> HIDE DEF left, chunk
<1>4. n = y - e
  BY <1>0, <1>1, <1>2, <1>3 DEF Wanted
<1>5. fires <=> Wanted(q, e) /\ ~Wanted(q, c)
  BY <1>0, <1>1, <1>2, <1>3 DEF Wanted
<1> HIDE DEF n
<1>6. Cut(chunk, 1, n) = Seg(Plain(q), e, y)
  <2>1. e + 1 - 1 = e /\ n \in Nat /\ e + n = y /\ 1 <= n + 1
    BY <1>1, <1>4
  <2>2. Cut(chunk, 1, n) = Seg(Plain(q), e + 1 - 1, e + n)
    BY <1>1, <1>s, <2>1, SegSub DEF chunk
  <2> QED BY <2>1, <2>2
<1>7. Cut(chunk, n + 1, Len(chunk)) = Seg(Plain(q), y, c)
  <2> DEFINE i == n + 1 j == c - e
  <2>1. i \in Nat /\ j \in Nat /\ 1 <= i /\ i <= j + 1 /\ e + j <= c
    BY <1>1, <1>4
  <2>2. e + i - 1 = y /\ e + j = c
    BY <1>1, <1>4
  <2> HIDE DEF i, j
  <2>3. Cut(chunk, i, j) = Seg(Plain(q), e + i - 1, e + j)
    BY <1>1, <1>s, <2>1, SegSub DEF chunk
  <2> QED BY <1>3, <2>2, <2>3 DEF i, j
<1>8. Wanted(q, e) => buf = Seg(Plain(q), 2 * q, y)
  <2>1. Wanted(q, e) => CountedAt(q, e).buf = Seg(Plain(q), 2 * q, e)
    BY CountedFields, Zenon DEF Held
  <2>2. 2 * q \in Nat
    OBVIOUS
  <2>3. Cat(Seg(Plain(q), 2 * q, e), Seg(Plain(q), e, y)) = Seg(Plain(q), 2 * q, y)
    BY <1>1, <2>2, PlainConcat
  <2> QED BY <1>6, <2>1, <2>3, Zenon DEF Cat, Cut
<1>9. ~Wanted(q, e) => buf = <<>>
  <2>1. ~Wanted(q, e) => CountedAt(q, e).buf = <<>> /\ y = e
    BY CountedFields, Zenon DEF Held
  <2>2. Seg(Plain(q), e, e) = <<>>
    BY SegEmpty
  <2>3. <<>> \o <<>> = <<>>
    OBVIOUS
  <2> QED BY <1>6, <2>1, <2>2, <2>3, Zenon DEF Cut
<1> HIDE DEF buf
<1>10. fires => buf = Item(q, q + 1)
  <2>1. fires => y = full
    BY <1>5
  <2>2. Seg(Plain(q), 2 * q, full) = Item(q, q + 1)
    BY BlobAt
  <2> HIDE DEF fires, full
  <2> QED BY <1>5, <1>8, <2>1, <2>2, Zenon
<1>11. [CountedAt(q, e) EXCEPT !.buf = IF fires THEN <<>> ELSE buf, !.left = @ - n] = CountedAt(q, y)
  <2>1. left - n = IF Wanted(q, y) THEN full - y ELSE 0
    BY <1>0, <1>1, <1>2, <1>4 DEF Wanted
  <2>2. (IF fires THEN <<>> ELSE buf) = IF Wanted(q, y) THEN Seg(Plain(q), 2 * q, y) ELSE <<>>
    <3>1. fires => ~Wanted(q, y)
      BY <1>0, <1>1, <1>5 DEF Wanted
    <3>2. ~fires /\ Wanted(q, e) => Wanted(q, y)
      BY <1>0, <1>1, <1>5 DEF Wanted
    <3>3. ~Wanted(q, e) => ~Wanted(q, y)
      BY <1>0, <1>1 DEF Wanted
    <3> HIDE DEF fires
    <3> QED BY <1>8, <1>9, <3>1, <3>2, <3>3, Zenon
  <2> DEFINE newbuf == IF fires THEN <<>> ELSE buf
             newleft == left - n
  <2>3. newleft = Left(q, y)
    BY <1>0, <2>1 DEF Left
  <2>4. newbuf = Held(q, y)
    BY <2>2 DEF Held
  <2> HIDE DEF newbuf, newleft
  <2>5. Changed(CountedAt(q, e), newbuf, newleft) = CountedAt(q, y)
    BY <2>3, <2>4, CountedChanged DEF CountedAt
  <2> QED BY <2>5 DEF newbuf, newleft, left, Changed
<1>12. PushCounted(CountedAt(q, e), chunk) =
        [stage |-> [CountedAt(q, e) EXCEPT !.buf = IF fires THEN <<>> ELSE buf, !.left = @ - n],
         unit |-> SubSeq(chunk, n + 1, Len(chunk)), overflow |-> FALSE,
         stored |-> IF fires THEN <<buf>> ELSE <<>>]
  BY Zenon DEF PushCounted, n, left, buf
<1> HIDE DEF fires
<1>13. (IF fires THEN <<buf>> ELSE <<>>)
        = IF Wanted(q, e) /\ ~Wanted(q, c) THEN <<Item(q, q + 1)>> ELSE <<>>
  BY <1>5, <1>10, Zenon
<1> QED BY <1>7, <1>11, <1>12, <1>13, Zenon DEF Result, Cut, chunk

-----------------------------------------------------------------------------
\* What has come through the first stages when nothing overflows.
SoFar(stages, unit, stored) ==
    [stages |-> stages, unit |-> unit, overflow |-> FALSE, stored |-> stored]
Start(p) == [stages |-> <<>>, unit |-> p.input, overflow |-> p.sticky, stored |-> <<>>]

\* g is what the definition of Pull unfolds to, for the first n stages of p.
Pulls(g, p, n) ==
    g = [i \in 0..n |-> IF i = 0 THEN Start(p)
                        ELSE CHOOSE r \in {Through(so_far, p.stages[i]) : so_far \in {g[i - 1]}} : TRUE]

LEMMA PullsAt ==
    ASSUME NEW p, NEW n \in Nat, NEW g, Pulls(g, p, n)
    PROVE  g[0] = Start(p) /\ \A i \in 1..n : g[i] = Through(g[i - 1], p.stages[i])
<1>1. \A i \in 0..n : g[i] =
        IF i = 0 THEN Start(p)
        ELSE CHOOSE r \in {Through(so_far, p.stages[i]) : so_far \in {g[i - 1]}} : TRUE
  BY Zenon DEF Pulls
<1>2. 0 \in 0..n /\ \A i \in 1..n : i \in 0..n /\ i # 0
  OBVIOUS
<1>3. \A x, s : (CHOOSE r \in {Through(so_far, s) : so_far \in {x}} : TRUE) = Through(x, s)
  <2> TAKE x, s
  <2>1. {Through(so_far, s) : so_far \in {x}} = {Through(x, s)}
    OBVIOUS
  <2>2. \A y : (CHOOSE r \in {y} : TRUE) = y
    OBVIOUS
  <2> QED BY <2>1, <2>2
<1> QED BY <1>1, <1>2, <1>3, Zenon

LEMMA PullsExists ==
    ASSUME NEW p, NEW n \in Nat
    PROVE  \E g : Pulls(g, p, n)
<1> DEFINE T == {k \in Nat : \E g : Pulls(g, p, k)}
           Step(x, i) == CHOOSE r \in {Through(so_far, p.stages[i]) : so_far \in {x}} : TRUE
<1>0. \A g, k : Pulls(g, p, k) <=>
        g = [i \in 0..k |-> IF i = 0 THEN Start(p) ELSE Step(g[i - 1], i)]
  BY Zenon DEF Pulls
<1> HIDE DEF Step
<1>1. 0 \in T
  <2>1. [i \in 0..0 |-> Start(p)]
        = [i \in 0..0 |-> IF i = 0 THEN Start(p) ELSE Step([j \in 0..0 |-> Start(p)][i - 1], i)]
    OBVIOUS
  <2>2. Pulls([i \in 0..0 |-> Start(p)], p, 0)
    BY <1>0, <2>1, Zenon
  <2> QED BY <2>2
<1>2. ASSUME NEW k \in Nat, k \in T PROVE k + 1 \in T
  <2>1. PICK g : Pulls(g, p, k)
    BY <1>2
  <2> DEFINE f == [i \in 0..(k + 1) |-> IF i = k + 1 THEN Step(g[k], k + 1) ELSE g[i]]
  <2>2. \A i \in 0..k : g[i] = IF i = 0 THEN Start(p) ELSE Step(g[i - 1], i)
    BY <1>0, <2>1, Zenon
  <2>3. ASSUME NEW i \in 0..(k + 1)
        PROVE  f[i] = IF i = 0 THEN Start(p) ELSE Step(f[i - 1], i)
    <3>1. CASE i = 0
      BY <2>2, <3>1
    <3>2. CASE i = k + 1
      <4>0. k + 1 \in 0..(k + 1) /\ k \in 0..(k + 1) /\ k # k + 1
        OBVIOUS
      <4>1. f[k + 1] = Step(g[k], k + 1) /\ f[k] = g[k]
        BY <4>0, Zenon
      <4>2. i # 0 /\ i - 1 = k
        BY <3>2
      <4> HIDE DEF f
      <4> QED BY <3>2, <4>1, <4>2
    <3>3. CASE i \in 1..k
      BY <2>2, <3>3
    <3> QED BY <3>1, <3>2, <3>3
  <2>4. f = [i \in 0..(k + 1) |-> f[i]]
    OBVIOUS
  <2> HIDE DEF f
  <2>5. f = [i \in 0..(k + 1) |-> IF i = 0 THEN Start(p) ELSE Step(f[i - 1], i)]
    BY <2>3, <2>4
  <2>6. Pulls(f, p, k + 1)
    BY <1>0, <2>5, Zenon
  <2> QED BY <2>6
<1> HIDE DEF T
<1>3. n \in T
  BY <1>1, <1>2, NatSetInduction
<1> QED BY <1>3 DEF T

LEMMA PullIs ==
    ASSUME NEW p, Len(p.stages) \in Nat
    PROVE  \E g : Pulls(g, p, Len(p.stages)) /\ Pull(p) = g[Len(p.stages)]
<1> DEFINE n == Len(p.stages)
           g == CHOOSE f : Pulls(f, p, n)
<1>1. \E f : Pulls(f, p, n)
  BY PullsExists
<1>2. Pulls(g, p, n)
  BY <1>1, Zenon
<1>3. Pull(p) = g[n]
  BY Zenon DEF Pull, Pulls, Start
<1> QED BY <1>2, <1>3

-----------------------------------------------------------------------------
\* Short sequences: the pipelines of one to three stages.
LEMMA OneOf ==
    ASSUME NEW S, NEW s \in Seq(S), Len(s) = 1
    PROVE  s = <<s[1]>>
<1> DEFINE w == <<s[1]>>
<1>1. w \in Seq(S) /\ Len(w) = 1 /\ w[1] = s[1]
  OBVIOUS
<1> HIDE DEF w
<1>2. \A i \in 1..Len(s) : s[i] = w[i]
  BY <1>1
<1>3. s = w
  BY <1>1, <1>2, SeqEqual
<1> QED
  BY <1>3 DEF w

LEMMA TwoOf ==
    ASSUME NEW S, NEW s \in Seq(S), Len(s) = 2
    PROVE  s = <<s[1], s[2]>>
<1> DEFINE w == <<s[1], s[2]>>
<1>0. s[1] \in S /\ s[2] \in S
  BY 1 \in 1..Len(s), 2 \in 1..Len(s), ElementOfSeq
<1>1. w \in Seq(S) /\ Len(w) = 2 /\ w[1] = s[1] /\ w[2] = s[2]
  BY <1>0
<1> HIDE DEF w
<1>2. \A i \in 1..Len(s) : s[i] = w[i]
  BY <1>1
<1>3. s = w
  BY <1>1, <1>2, SeqEqual
<1> QED
  BY <1>3 DEF w

LEMMA ThreeOf ==
    ASSUME NEW S, NEW s \in Seq(S), Len(s) = 3
    PROVE  s = <<s[1], s[2], s[3]>>
<1> DEFINE w == <<s[1], s[2], s[3]>>
<1>0. s[1] \in S /\ s[2] \in S /\ s[3] \in S
  OBVIOUS
<1>1. w \in Seq(S) /\ Len(w) = 3 /\ w[1] = s[1] /\ w[2] = s[2] /\ w[3] = s[3]
  BY <1>0
<1> HIDE DEF w
<1>2. \A i \in 1..Len(s) : s[i] = w[i]
  BY <1>1
<1>3. s = w
  BY <1>1, <1>2, SeqEqual
<1> QED
  BY <1>3 DEF w

LEMMA Appends ==
    ASSUME NEW a, NEW b, NEW c
    PROVE  /\ Append(<<>>, a) = <<a>> /\ Append(<<a>>, b) = <<a, b>>
           /\ Append(<<a, b>>, c) = <<a, b, c>>
<1> DEFINE S == {a, b, c}
           s == Append(<<a>>, b)
           t == Append(<<a, b>>, c)
<1>0. Append(<<>>, a) = <<a>>
  OBVIOUS
<1>1. <<a>> \in Seq(S) /\ <<a, b>> \in Seq(S) /\ b \in S /\ c \in S
  OBVIOUS
<1>2. s \in Seq(S) /\ Len(s) = 2 /\ t \in Seq(S) /\ Len(t) = 3
  BY <1>1, AppendProperties
<1>3. s[1] = a /\ s[2] = b
  BY <1>1, AppendProperties
<1>4. t[1] = a /\ t[2] = b /\ t[3] = c
  BY <1>1, AppendProperties
<1> HIDE DEF s, t
<1>5. s = <<s[1], s[2]>> /\ t = <<t[1], t[2], t[3]>>
  BY <1>2, TwoOf, ThreeOf
<1>6. s = <<a, b>> /\ t = <<a, b, c>>
  BY <1>3, <1>4, <1>5, Zenon
<1> QED
  BY <1>0, <1>6, Zenon DEF s, t

LEMMA Spliced ==
    ASSUME NEW a, NEW b, NEW c
    PROVE  /\ Head(<<a>>) = a /\ Tail(<<a>>) = <<>> /\ <<a, b>> \o <<>> = <<a, b>>
           /\ Last(<<a, b>>) = b /\ Front(<<a, b>>) = <<a>>
           /\ <<a>> \o <<b, c>> = <<a, b, c>>
<1> DEFINE S == {a, b, c}
           s == <<a, b>> \o <<>>
           f == Front(<<a, b>>)
           t == <<a>> \o <<b, c>>
<1>0. Head(<<a>>) = a /\ Tail(<<a>>) = <<>> /\ Last(<<a, b>>) = b
  BY DEF Last
<1>1. <<a>> \in Seq(S) /\ <<a, b>> \in Seq(S) /\ <<b, c>> \in Seq(S) /\ <<>> \in Seq(S)
  OBVIOUS
<1>2. s \in Seq(S) /\ Len(s) = 2 /\ t \in Seq(S) /\ Len(t) = 3
  BY <1>1, ConcatProperties
<1>3. s[1] = a /\ s[2] = b
  BY <1>1, ConcatProperties
<1>4. t[1] = a /\ t[2] = b /\ t[3] = c
  BY <1>1, ConcatProperties
<1>7. f \in Seq(S) /\ Len(f) = 1 /\ f[1] = a
  BY <1>1 DEF Front
<1> HIDE DEF s, t, f
<1>5. s = <<s[1], s[2]>> /\ t = <<t[1], t[2], t[3]>> /\ f = <<f[1]>>
  BY <1>2, <1>7, OneOf, TwoOf, ThreeOf
<1>6. s = <<a, b>> /\ t = <<a, b, c>> /\ f = <<a>>
  BY <1>3, <1>4, <1>5, <1>7, Zenon
<1> QED
  BY <1>0, <1>6, Zenon DEF s, t, f

-----------------------------------------------------------------------------
\* One stage more of a pipeline.
More(stages, stage) == Append(stages, stage)

LEMMA ThroughIs ==
    ASSUME NEW ss, NEW u, NEW st, NEW s, NEW t, NEW v, NEW r,
           Push(s, u) = Result(t, v, r)
    PROVE  Through(SoFar(ss, u, st), s) = SoFar(More(ss, t), v, Cat(st, r))
<1>1. /\ SoFar(ss, u, st).unit = u /\ SoFar(ss, u, st).stages = ss
      /\ SoFar(ss, u, st).overflow = FALSE /\ SoFar(ss, u, st).stored = st
  BY DEF SoFar
<1>2. /\ Result(t, v, r).unit = v /\ Result(t, v, r).stage = t
      /\ Result(t, v, r).overflow = FALSE /\ Result(t, v, r).stored = r
  BY DEF Result
<1>3. Through(SoFar(ss, u, st), s)
        = [stages |-> Append(ss, t), unit |-> v,
           overflow |-> FALSE \/ FALSE, stored |-> st \o r]
  BY <1>1, <1>2, Zenon DEF Through
<1>4. (FALSE \/ FALSE) = FALSE
  OBVIOUS
<1> QED
  BY <1>3, <1>4, Zenon DEF SoFar, Cat, More

\* The pipeline between two steps: no overflow is left over.
PipeWith(stages, input, deferred, sticky) ==
    [stages |-> stages, input |-> input, deferred |-> deferred, sticky |-> sticky]
Off == FALSE
PipeOf(stages, input, deferred) == PipeWith(stages, input, deferred, Off)

LEMMA PipeFields ==
    ASSUME NEW s, NEW i, NEW d, NEW f
    PROVE  /\ PipeWith(s, i, d, f).stages = s /\ PipeWith(s, i, d, f).input = i
           /\ PipeWith(s, i, d, f).deferred = d /\ PipeWith(s, i, d, f).sticky = f
BY DEF PipeWith

LEMMA PipeOfFields ==
    ASSUME NEW s, NEW i, NEW d
    PROVE  /\ PipeOf(s, i, d).stages = s /\ PipeOf(s, i, d).input = i
           /\ PipeOf(s, i, d).deferred = d /\ PipeOf(s, i, d).sticky = Off
BY PipeFields DEF PipeOf

WithStages(p, x) == [p EXCEPT !.stages = x]
WithInput(p, x) == [p EXCEPT !.input = x]
WithDeferred(p, x) == [p EXCEPT !.deferred = x]
WithSticky(p, x) == [p EXCEPT !.sticky = x]

LEMMA WithStagesIs ==
    ASSUME NEW s, NEW i, NEW d, NEW f, NEW x
    PROVE  WithStages(PipeWith(s, i, d, f), x) = PipeWith(x, i, d, f)
BY DEF WithStages, PipeWith

LEMMA WithInputIs ==
    ASSUME NEW s, NEW i, NEW d, NEW f, NEW x
    PROVE  WithInput(PipeWith(s, i, d, f), x) = PipeWith(s, x, d, f)
BY DEF WithInput, PipeWith

LEMMA WithDeferredIs ==
    ASSUME NEW s, NEW i, NEW d, NEW f, NEW x
    PROVE  WithDeferred(PipeWith(s, i, d, f), x) = PipeWith(s, i, x, f)
BY DEF WithDeferred, PipeWith

LEMMA WithStickyIs ==
    ASSUME NEW s, NEW i, NEW d, NEW f, NEW x
    PROVE  WithSticky(PipeWith(s, i, d, f), x) = PipeWith(s, i, d, x)
BY DEF WithSticky, PipeWith

SplicedInto(p, t, j) == [p EXCEPT !.stages = t, !.input = j]
PulledThrough(p, t, j) == [p EXCEPT !.stages = t, !.input = j, !.sticky = FALSE]
Fed(p, j) == [p EXCEPT !.input = j]
Deferring(p, e) == [p EXCEPT !.deferred = e, !.sticky = FALSE]

LEMMA PipeSpliced ==
    ASSUME NEW s, NEW i, NEW d, NEW t, NEW j
    PROVE  SplicedInto(PipeOf(s, i, d), t, j) = PipeOf(t, j, d)
<1>1. ASSUME NEW p, NEW g PROVE [p EXCEPT !.stages = t, !.input = j] = WithInput(WithStages(p, t), j)
  BY DEF WithStages, WithInput, WithDeferred, WithSticky
<1>2. WithInput(WithStages(PipeOf(s, i, d), t), j) = PipeOf(t, j, d)
  BY WithStagesIs, WithInputIs, WithDeferredIs, WithStickyIs DEF PipeOf
<1> QED
  BY <1>1, <1>2, Zenon DEF Off, SplicedInto

LEMMA PipePulled ==
    ASSUME NEW s, NEW i, NEW d, NEW t, NEW j
    PROVE  PulledThrough(PipeOf(s, i, d), t, j) = PipeOf(t, j, d)
<1>1. ASSUME NEW p, NEW g PROVE [p EXCEPT !.stages = t, !.input = j, !.sticky = g] = WithSticky(WithInput(WithStages(p, t), j), g)
  BY DEF WithStages, WithInput, WithDeferred, WithSticky
<1>2. WithSticky(WithInput(WithStages(PipeOf(s, i, d), t), j), Off) = PipeOf(t, j, d)
  BY WithStagesIs, WithInputIs, WithDeferredIs, WithStickyIs DEF PipeOf
<1> QED
  BY <1>1, <1>2, Zenon DEF Off, PulledThrough

LEMMA PipeFed ==
    ASSUME NEW s, NEW i, NEW d, NEW j
    PROVE  Fed(PipeOf(s, i, d), j) = PipeOf(s, j, d)
<1>1. ASSUME NEW p, NEW g PROVE [p EXCEPT !.input = j] = WithInput(p, j)
  BY DEF WithStages, WithInput, WithDeferred, WithSticky
<1>2. WithInput(PipeOf(s, i, d), j) = PipeOf(s, j, d)
  BY WithStagesIs, WithInputIs, WithDeferredIs, WithStickyIs DEF PipeOf
<1> QED
  BY <1>1, <1>2, Zenon DEF Off, Fed

LEMMA PipeDeferred ==
    ASSUME NEW s, NEW i, NEW d, NEW e
    PROVE  Deferring(PipeOf(s, i, d), e) = PipeOf(s, i, e)
<1>1. ASSUME NEW p, NEW g PROVE [p EXCEPT !.deferred = e, !.sticky = g] = WithSticky(WithDeferred(p, e), g)
  BY DEF WithStages, WithInput, WithDeferred, WithSticky
<1>2. WithSticky(WithDeferred(PipeOf(s, i, d), e), Off) = PipeOf(s, i, e)
  BY WithStagesIs, WithInputIs, WithDeferredIs, WithStickyIs DEF PipeOf
<1> QED
  BY <1>1, <1>2, Zenon DEF Off, Deferring

LEMMA Pull1 ==
    ASSUME NEW i, NEW d, NEW s, NEW t, NEW u, NEW r, Push(s, i) = Result(t, u, r)
    PROVE  Pull(PipeOf(<<s>>, i, d)) = SoFar(<<t>>, u, Cat(<<>>, r))
<1> DEFINE p == PipeOf(<<s>>, i, d)
<1>0. p.stages = <<s>> /\ p.input = i /\ p.sticky = Off
  BY PipeOfFields
<1> HIDE DEF p
<1>1. Start(p) = SoFar(<<>>, i, <<>>)
  BY <1>0, Zenon DEF Start, SoFar, Off
<1>2. Len(<<s>>) = 1 /\ <<s>>[1] = s /\ 1 \in Nat /\ 1 \in 1..1 /\ 1 - 1 = 0 /\ More(<<>>, t) = <<t>>
  BY DEF More
<1>n. Len(p.stages) = 1 /\ Len(p.stages) \in Nat
  BY <1>0, <1>2
<1>3. PICK g : Pulls(g, p, 1) /\ Pull(p) = g[1]
  BY <1>n, PullIs, Zenon
<1>4. g[0] = Start(p) /\ \A n \in 1..1 : g[n] = Through(g[n - 1], p.stages[n])
  BY <1>2, <1>3, PullsAt
<1>5. g[1] = Through(g[0], s)
  BY <1>0, <1>2, <1>4, Zenon
<1>6. g[1] = SoFar(More(<<>>, t), u, Cat(<<>>, r))
  BY <1>1, <1>4, <1>5, ThroughIs
<1> QED
  BY <1>2, <1>3, <1>6 DEF p

LEMMA Pull2 ==
    ASSUME NEW i, NEW d, NEW s, NEW t, NEW u, NEW r, Push(s, i) = Result(t, u, r),
           NEW s2, NEW t2, NEW u2, NEW r2, Push(s2, u) = Result(t2, u2, r2)
    PROVE  Pull(PipeOf(<<s, s2>>, i, d)) = SoFar(<<t, t2>>, u2, Cat(Cat(<<>>, r), r2))
<1> DEFINE p == PipeOf(<<s, s2>>, i, d)
<1>0. p.stages = <<s, s2>> /\ p.input = i /\ p.sticky = Off
  BY PipeOfFields
<1> HIDE DEF p
<1>1. Start(p) = SoFar(<<>>, i, <<>>)
  BY <1>0, Zenon DEF Start, SoFar, Off
<1>2. Len(<<s, s2>>) = 2 /\ <<s, s2>>[1] = s /\ <<s, s2>>[2] = s2 /\ 2 \in Nat
      /\ 1 \in 1..2 /\ 1 - 1 = 0 /\ 2 \in 1..2 /\ 2 - 1 = 1
  OBVIOUS
<1>m. Append(<<>>, t) = <<t>> /\ Append(<<t>>, t2) = <<t, t2>>
  BY Appends
<1>a. More(More(<<>>, t), t2) = <<t, t2>>
  BY <1>m, Zenon DEF More
<1>n. Len(p.stages) = 2 /\ Len(p.stages) \in Nat
  BY <1>0, <1>2
<1>3. PICK g : Pulls(g, p, 2) /\ Pull(p) = g[2]
  BY <1>n, PullIs, Zenon
<1>4. g[0] = Start(p) /\ \A n \in 1..2 : g[n] = Through(g[n - 1], p.stages[n])
  BY <1>2, <1>3, PullsAt
<1>5. g[1] = Through(g[0], s) /\ g[2] = Through(g[1], s2)
  BY <1>0, <1>2, <1>4, Zenon
<1>6. g[1] = SoFar(More(<<>>, t), u, Cat(<<>>, r))
  BY <1>1, <1>4, <1>5, ThroughIs
<1>7. g[2] = SoFar(More(More(<<>>, t), t2), u2, Cat(Cat(<<>>, r), r2))
  BY <1>5, <1>6, ThroughIs
<1> QED
  BY <1>a, <1>3, <1>7, Zenon DEF p

LEMMA Pull3 ==
    ASSUME NEW i, NEW d, NEW s, NEW t, NEW u, NEW r, Push(s, i) = Result(t, u, r),
           NEW s2, NEW t2, NEW u2, NEW r2, Push(s2, u) = Result(t2, u2, r2),
           NEW s3, NEW t3, NEW u3, NEW r3, Push(s3, u2) = Result(t3, u3, r3)
    PROVE  Pull(PipeOf(<<s, s2, s3>>, i, d))
            = SoFar(<<t, t2, t3>>, u3, Cat(Cat(Cat(<<>>, r), r2), r3))
<1> DEFINE p == PipeOf(<<s, s2, s3>>, i, d)
<1>0. p.stages = <<s, s2, s3>> /\ p.input = i /\ p.sticky = Off
  BY PipeOfFields
<1> HIDE DEF p
<1>1. Start(p) = SoFar(<<>>, i, <<>>)
  BY <1>0, Zenon DEF Start, SoFar, Off
<1>2. Len(<<s, s2, s3>>) = 3 /\ <<s, s2, s3>>[1] = s /\ <<s, s2, s3>>[2] = s2
      /\ <<s, s2, s3>>[3] = s3 /\ 3 \in Nat
      /\ 1 \in 1..3 /\ 1 - 1 = 0 /\ 2 \in 1..3 /\ 2 - 1 = 1 /\ 3 \in 1..3 /\ 3 - 1 = 2
  OBVIOUS
<1>m. Append(<<>>, t) = <<t>> /\ Append(<<t>>, t2) = <<t, t2>>
      /\ Append(<<t, t2>>, t3) = <<t, t2, t3>>
  BY Appends
<1>a. More(More(More(<<>>, t), t2), t3) = <<t, t2, t3>>
  BY <1>m, Zenon DEF More
<1>n. Len(p.stages) = 3 /\ Len(p.stages) \in Nat
  BY <1>0, <1>2
<1>3. PICK g : Pulls(g, p, 3) /\ Pull(p) = g[3]
  BY <1>n, PullIs, Zenon
<1>4. g[0] = Start(p) /\ \A n \in 1..3 : g[n] = Through(g[n - 1], p.stages[n])
  BY <1>2, <1>3, PullsAt
<1>5. g[1] = Through(g[0], s) /\ g[2] = Through(g[1], s2) /\ g[3] = Through(g[2], s3)
  BY <1>0, <1>2, <1>4, Zenon
<1>6. g[1] = SoFar(More(<<>>, t), u, Cat(<<>>, r))
  BY <1>1, <1>4, <1>5, ThroughIs
<1>7. g[2] = SoFar(More(More(<<>>, t), t2), u2, Cat(Cat(<<>>, r), r2))
  BY <1>5, <1>6, ThroughIs
<1>8. g[3] = SoFar(More(More(More(<<>>, t), t2), t3), u3,
                   Cat(Cat(Cat(<<>>, r), r2), r3))
  BY <1>5, <1>7, ThroughIs
<1> QED
  BY <1>a, <1>3, <1>8, Zenon DEF p

-----------------------------------------------------------------------------
\* The z-th frame asks for compression and the q-th is followed by the filter, if the
\* peer does so among its first t items.
Order(q, z, t) ==
    /\ q \in 1..NoMessage /\ z \in 1..NoMessage /\ t \in Nat /\ t < NoMessage
    /\ z < q \/ z = NoMessage
    /\ End(q, t) <= 2 * NoMessage
    /\ q <= t => q + 1 <= t

\* The stages after h items, when the filter's bytes up to the e-th were taken and line is
\* the terminal stage.
StagesAt(q, z, h, e, line) ==
    IF z <= h THEN IF q <= h THEN <<InflateStage, CountedAt(q, e), line>>
                             ELSE <<InflateStage, line>>
    ELSE IF q <= h THEN <<CountedAt(q, e), line>> ELSE <<line>>
LineStream(q, z, h) == IF z <= h THEN Plain(q) ELSE Wired(q, z)
LineIn(q, z, h, a, b) == LineAt(LineStream(q, z, h), a, b)

LEMMA StagesAre ==
    ASSUME NEW q \in Nat, NEW z \in Nat, NEW h \in Nat, NEW e, NEW l
    PROVE  /\ z <= h /\ q <= h => StagesAt(q, z, h, e, l) = <<InflateStage, CountedAt(q, e), l>>
           /\ z <= h /\ q > h => StagesAt(q, z, h, e, l) = <<InflateStage, l>>
           /\ z > h /\ q <= h => StagesAt(q, z, h, e, l) = <<CountedAt(q, e), l>>
           /\ z > h /\ q > h => StagesAt(q, z, h, e, l) = <<l>>
<1>1. (q > h <=> ~(q <= h)) /\ (z > h <=> ~(z <= h))
  OBVIOUS
<1> QED
  BY <1>1, Zenon DEF StagesAt

LEMMA LineStreamIs ==
    ASSUME NEW q \in Nat, NEW z \in Nat, NEW h \in Nat
    PROVE  /\ z <= h => LineStream(q, z, h) = Plain(q)
           /\ z > h => LineStream(q, z, h) = Wired(q, z)
           /\ LineStream(q, z, h) \in Streams
<1>1. z > h <=> ~(z <= h)
  OBVIOUS
<1> QED
  BY <1>1, PlainType, WiredType, Zenon DEF LineStream

LEMMA PushInflateSeg ==
    ASSUME NEW q \in Nat, NEW z \in Nat, NEW a \in Nat, NEW b \in Nat, a <= b, 2 * z <= a
    PROVE  Push(InflateStage, Seg(Wired(q, z), a, b))
            = Result(InflateStage, Seg(Plain(q), a, b), <<>>)
<1> DEFINE c == Seg(Wired(q, z), a, b)
           u == Seg(Plain(q), a, b)
<1>1. Inflate(c) = u
  BY InflateSeg
<1>2. Len(c) = b - a /\ Len(u) = b - a
  BY SegLen
<1>3. (Len(u) < Len(c)) = FALSE
  BY <1>2
<1>4. InflateStage.kind = "inflate"
  BY DEF InflateStage
<1> HIDE DEF c, u
<1>5. Push(InflateStage, c) = PushInflate(InflateStage, c)
  BY <1>4 DEF Push
<1>6. PushInflate(InflateStage, c)
        = [stage |-> InflateStage, unit |-> u, overflow |-> Len(u) < Len(c), stored |-> <<>>]
  BY <1>1, Zenon DEF PushInflate
<1>7. PushInflate(InflateStage, c) = Result(InflateStage, u, <<>>)
  BY <1>3, <1>6 DEF Result
<1> QED
  BY <1>5, <1>7, Zenon DEF c, u

LEMMA PushLineIs ==
    ASSUME NEW f \in Streams, NEW a \in Nat, NEW b \in Nat, NEW c \in Nat,
           a <= b, b <= c, ~Newline(f[a + 1]), Newline(f[a + 2]),
           NEW x \in Nat, c - a <= 1 => x = a, c - a > 1 => x = a + 2
    PROVE  Push(LineAt(f, a, b), Seg(f, b, c)) = Result(LineAt(f, x, c), Seg(f, a, x), <<>>)
<1>1. LineAt(f, a, b).kind = "line"
  BY DEF LineAt
<1>2. \A c2 : Push(LineAt(f, a, b), c2) = PushLine(LineAt(f, a, b), c2)
  BY <1>1 DEF Push
<1>3. PushLine(LineAt(f, a, b), Seg(f, b, c)) = Result(LineAt(f, x, c), Seg(f, a, x), <<>>)
  BY PushLineSeg
<1> QED
  BY <1>2, <1>3, Zenon

LEMMA PushCountedIs ==
    ASSUME NEW q \in Nat, NEW e \in Nat, NEW c \in Nat, 2 * q <= e, e <= c,
           NEW y \in Nat,
           ~Wanted(q, e) => y = e, Wanted(q, e) /\ Wanted(q, c) => y = c,
           Wanted(q, e) /\ ~Wanted(q, c) => y = 2 * q + BlobLen
    PROVE  Push(CountedAt(q, e), Seg(Plain(q), e, c))
            = Result(CountedAt(q, c), Seg(Plain(q), y, c),
                     IF Wanted(q, e) /\ ~Wanted(q, c) THEN <<Item(q, q + 1)>> ELSE <<>>)
<1>0. BlobLen \in Nat
  BY Numbers
<1>1. CountedAt(q, e).kind = "counted"
  BY CountedFields
<1>2. \A c2 : Push(CountedAt(q, e), c2) = PushCounted(CountedAt(q, e), c2)
  BY <1>1 DEF Push
<1>3. PushCounted(CountedAt(q, e), Seg(Plain(q), e, c))
            = Result(CountedAt(q, y), Seg(Plain(q), y, c),
                     IF Wanted(q, e) /\ ~Wanted(q, c) THEN <<Item(q, q + 1)>> ELSE <<>>)
  BY PushCountedSeg
<1>4. (Wanted(q, y) <=> Wanted(q, c)) /\ (Wanted(q, c) => y = c)
  BY <1>0 DEF Wanted
<1>5. CountedAt(q, y) = CountedAt(q, c)
  BY <1>4, Zenon DEF CountedAt, Held, Left
<1> QED
  BY <1>2, <1>3, <1>5, Zenon

\* a is the place of the last byte of the j-th item.
EndIs(q, j, a) == a \in Nat /\ a = End(q, j)

LEMMA LineBegins ==
    ASSUME NEW q \in Nat, NEW z \in Nat, NEW h \in Nat, NEW j \in Nat, j # q,
           NEW a \in Nat, EndIs(q, j, a)
    PROVE  ~Newline(LineStream(q, z, h)[a + 1]) /\ Newline(LineStream(q, z, h)[a + 2])
<1>1. ~Newline(Plain(q)[a + 1]) /\ Newline(Plain(q)[a + 2])
  BY LineBytes DEF EndIs
<1>2. a + 1 \in Nat /\ a + 2 \in Nat
  OBVIOUS
<1>3. ~Newline(Wired(q, z)[a + 1]) /\ Newline(Wired(q, z)[a + 2])
  BY <1>1, <1>2, NewlineAt
<1> QED
  BY <1>1, <1>3, Zenon DEF LineStream

\* A frame that is handed over is not deflated, or was inflated.
LEMMA LineUnit ==
    ASSUME NEW q \in Nat, NEW z \in Nat, NEW h \in Nat, NEW t \in Nat, Order(q, z, t), h <= t,
           h # q, NEW a \in Nat, EndIs(q, h, a), NEW x \in Nat,
           x = a \/ x = a + 2, x <= End(q, t)
    PROVE  Seg(LineStream(q, z, h), a, x) = Seg(Plain(q), a, x)
<1>0. BlobLen \in Nat
  BY Numbers
<1>1. CASE z <= h
  BY <1>1, Zenon DEF LineStream
<1>2. CASE z > h
  <2>1. x <= 2 * NoMessage
    BY EndMonotonic, Numbers DEF Order
  <2>2. ASSUME z < q PROVE x <= 2 * z
    <3>1. End(q, h) = 2 * h
      BY <1>2, <2>2 DEF End
    <3> QED
      BY <1>2, <2>2, <3>1 DEF EndIs
  <2>3. x <= 2 * z
    BY <2>1, <2>2 DEF Order
  <2>4. Seg(Wired(q, z), a, x) = Seg(Plain(q), a, x)
    BY <2>3, NotDeflated
  <2> QED
    BY <1>2, <2>4, LineStreamIs
<1> QED
  BY <1>1, <1>2

\* What comes out of the pipeline when no filter is awaited.
LEMMA PullLine ==
    ASSUME NEW q \in Nat, NEW z \in Nat, NEW h \in Nat, NEW t \in Nat, Order(q, z, t), h <= t,
           q > h, NEW d, NEW e \in Nat, NEW i \in Nat, e <= i, i <= End(q, t),
           NEW a \in Nat, EndIs(q, h, a), a <= e,
           NEW x \in Nat, i - a <= 1 => x = a, i - a > 1 => x = a + 2
    PROVE  Pull(PipeOf(StagesAt(q, z, h, e, LineIn(q, z, h, a, e)), Seg(Wired(q, z), e, i), d))
            = SoFar(StagesAt(q, z, h, i, LineIn(q, z, h, x, i)), Seg(Plain(q), a, x), <<>>)
<1> DEFINE f == LineStream(q, z, h)
<1>1. f \in Streams
  BY LineStreamIs
<1>2. ~Newline(f[a + 1]) /\ Newline(f[a + 2])
  <2>1. h # q
    OBVIOUS
  <2> QED
    BY <2>1, LineBegins, Zenon
<1>3. (x = a \/ x = a + 2) /\ x <= i /\ x <= End(q, t)
  <2>1. End(q, t) \in Nat
    BY EndMonotonic
  <2>2. x = a \/ x = a + 2
    OBVIOUS
  <2>3. x <= i
    OBVIOUS
  <2> QED
    BY <2>1, <2>2, <2>3
<1>4. Seg(f, a, x) = Seg(Plain(q), a, x)
  BY <1>3, LineUnit
<1> HIDE DEF f
<1>5. Push(LineAt(f, a, e), Seg(f, e, i)) = Result(LineAt(f, x, i), Seg(f, a, x), <<>>)
  BY <1>1, <1>2, PushLineIs
<1>6. Cat(<<>>, <<>>) = <<>>
  BY DEF Cat
<1>7. CASE z <= h
  <2>1. f = Plain(q)
    BY <1>7, LineStreamIs DEF f
  <2>2. End(q, h) = 2 * h
    BY DEF End
  <2>3. 2 * z <= e
    BY <1>7, <2>2 DEF EndIs
  <2>4. Push(InflateStage, Seg(Wired(q, z), e, i)) = Result(InflateStage, Seg(Plain(q), e, i), <<>>)
    BY <2>3, PushInflateSeg
  <2>5. Push(LineAt(f, a, e), Seg(Plain(q), e, i)) = Result(LineAt(f, x, i), Seg(Plain(q), a, x), <<>>)
    BY <1>5, <2>1, Zenon
  <2>6. Pull(PipeOf(<<InflateStage, LineAt(f, a, e)>>, Seg(Wired(q, z), e, i), d))
            = SoFar(<<InflateStage, LineAt(f, x, i)>>, Seg(Plain(q), a, x), Cat(Cat(<<>>, <<>>), <<>>))
    BY <2>4, <2>5, Pull2
  <2>7. \A e2, l : StagesAt(q, z, h, e2, l) = <<InflateStage, l>>
    BY <1>7, StagesAre
  <2> QED
    BY <1>6, <2>6, <2>7, Zenon DEF LineIn, f
<1>8. CASE z > h
  <2>1. f = Wired(q, z)
    BY <1>8, LineStreamIs DEF f
  <2>5. Push(LineAt(f, a, e), Seg(Wired(q, z), e, i)) = Result(LineAt(f, x, i), Seg(Plain(q), a, x), <<>>)
    BY <1>4, <1>5, <2>1, Zenon
  <2>6. Pull(PipeOf(<<LineAt(f, a, e)>>, Seg(Wired(q, z), e, i), d))
            = SoFar(<<LineAt(f, x, i)>>, Seg(Plain(q), a, x), Cat(<<>>, <<>>))
    BY <2>5, Pull1
  <2>7. \A e2, l : StagesAt(q, z, h, e2, l) = <<l>>
    BY <1>8, StagesAre
  <2> QED
    BY <1>6, <2>6, <2>7, Zenon DEF LineIn, f
<1> QED
  BY <1>7, <1>8

\* What is stored once the filter is complete.
Completed(q, e, i) == IF Wanted(q, e) /\ ~Wanted(q, i) THEN <<Item(q, q + 1)>> ELSE <<>>

LEMMA CompletedAlone ==
    ASSUME NEW q \in Nat, NEW e, NEW i
    PROVE  /\ Cat(Cat(<<>>, Completed(q, e, i)), <<>>) = Completed(q, e, i)
           /\ Cat(Cat(Cat(<<>>, <<>>), Completed(q, e, i)), <<>>) = Completed(q, e, i)
<1> DEFINE r == Completed(q, e, i)
<1>1. q + 1 \in Nat /\ q + 1 >= 1
  OBVIOUS
<1>2. Item(q, q + 1) \in Seq(AnyByte)
  BY <1>1, ItemType
<1>3. r \in Seq(Seq(AnyByte))
  BY <1>2 DEF Completed
<1> HIDE DEF r
<1>4. <<>> \o r = r /\ r \o <<>> = r
  BY <1>3, ConcatEmptySeq
<1>5. <<>> \o <<>> = <<>>
  OBVIOUS
<1>6. Cat(<<>>, r) = r /\ Cat(r, <<>>) = r /\ Cat(<<>>, <<>>) = <<>>
  BY <1>4, <1>5, Zenon DEF Cat
<1> QED
  BY <1>6, Zenon DEF r

\* Behind the counted stage all is inflated, or nothing was deflated.
LEMMA LineInflated ==
    ASSUME NEW q \in Nat, NEW z \in Nat, NEW h \in Nat, NEW t \in Nat, Order(q, z, t), h <= t,
           q <= h, NEW a \in Nat, NEW b \in Nat, b <= End(q, t)
    PROVE  /\ LineIn(q, z, h, a, b) = LineAt(Plain(q), a, b)
           /\ z > h => Seg(Wired(q, z), a, b) = Seg(Plain(q), a, b)
<1>0. End(q, t) \in Nat /\ NoMessage \in Nat
  BY EndMonotonic, Numbers
<1>1. CASE z <= h
  BY <1>1, LineStreamIs DEF LineIn
<1>2. CASE z > h
  <2>1. b <= 2 * z
    BY <1>0, <1>2 DEF Order
  <2>2. Seg(Wired(q, z), a, b) = Seg(Plain(q), a, b)
    BY <2>1, NotDeflated
  <2>3. LineStream(q, z, h) = Wired(q, z)
    BY <1>2, LineStreamIs
  <2> QED
    BY <2>2, <2>3, Zenon DEF LineIn, LineAt
<1> QED
  BY <1>1, <1>2

\* What comes out of the pipeline when there is a counted stage: its part, and then what
\* the line stage makes of the rest.
LEMMA PullBehind ==
    ASSUME NEW q \in Nat, NEW z \in Nat, NEW h \in Nat, NEW t \in Nat, Order(q, z, t), h <= t,
           q <= h, NEW d, NEW e \in Nat, NEW i \in Nat, 2 * q <= e, e <= i, i <= End(q, t),
           NEW y \in Nat,
           ~Wanted(q, e) => y = e, Wanted(q, e) /\ Wanted(q, i) => y = i,
           Wanted(q, e) /\ ~Wanted(q, i) => y = 2 * q + BlobLen,
           NEW l, NEW m, NEW u, Push(l, Seg(Plain(q), y, i)) = Result(m, u, <<>>)
    PROVE  Pull(PipeOf(StagesAt(q, z, h, e, l), Seg(Wired(q, z), e, i), d))
            = SoFar(StagesAt(q, z, h, i, m), u, Completed(q, e, i))
<1>1. Push(CountedAt(q, e), Seg(Plain(q), e, i))
        = Result(CountedAt(q, i), Seg(Plain(q), y, i), Completed(q, e, i))
  BY PushCountedIs DEF Completed
<1>7. CASE z <= h
  <2>3. 2 * z <= e
    BY <1>7 DEF Order
  <2>4. Push(InflateStage, Seg(Wired(q, z), e, i)) = Result(InflateStage, Seg(Plain(q), e, i), <<>>)
    BY <2>3, PushInflateSeg
  <2>6. Pull(PipeOf(<<InflateStage, CountedAt(q, e), l>>, Seg(Wired(q, z), e, i), d))
            = SoFar(<<InflateStage, CountedAt(q, i), m>>, u,
                    Cat(Cat(Cat(<<>>, <<>>), Completed(q, e, i)), <<>>))
    BY <1>1, <2>4, Pull3
  <2>7. \A e2, l2 : StagesAt(q, z, h, e2, l2) = <<InflateStage, CountedAt(q, e2), l2>>
    BY <1>7, StagesAre
  <2> QED
    BY <2>6, <2>7, CompletedAlone, Zenon
<1>8. CASE z > h
  <2>1. Seg(Wired(q, z), e, i) = Seg(Plain(q), e, i)
    BY <1>8, LineInflated
  <2>2. Push(CountedAt(q, e), Seg(Wired(q, z), e, i))
        = Result(CountedAt(q, i), Seg(Plain(q), y, i), Completed(q, e, i))
    BY <1>1, <2>1, Zenon
  <2>6. Pull(PipeOf(<<CountedAt(q, e), l>>, Seg(Wired(q, z), e, i), d))
            = SoFar(<<CountedAt(q, i), m>>, u, Cat(Cat(<<>>, Completed(q, e, i)), <<>>))
    BY <2>2, Pull2
  <2>7. \A e2, l2 : StagesAt(q, z, h, e2, l2) = <<CountedAt(q, e2), l2>>
    BY <1>8, StagesAre
  <2> QED
    BY <2>6, <2>7, CompletedAlone, Zenon
<1> QED
  BY <1>7, <1>8

LEMMA PullFrame ==
    ASSUME NEW q \in Nat, NEW z \in Nat, NEW h \in Nat, NEW t \in Nat, Order(q, z, t), h <= t,
           q <= h, NEW d, NEW e \in Nat, NEW i \in Nat, 2 * q <= e, e <= i, i <= End(q, t),
           ~Wanted(q, i), NEW y \in Nat,
           ~Wanted(q, e) => y = e, Wanted(q, e) => y = 2 * q + BlobLen,
           NEW g \in Nat, g # q, NEW a \in Nat, EndIs(q, g, a), a <= y,
           NEW x \in Nat, i - a <= 1 => x = a, i - a > 1 => x = a + 2
    PROVE  Pull(PipeOf(StagesAt(q, z, h, e, LineIn(q, z, h, a, y)), Seg(Wired(q, z), e, i), d))
            = SoFar(StagesAt(q, z, h, i, LineIn(q, z, h, x, i)), Seg(Plain(q), a, x),
                    Completed(q, e, i))
<1>0. BlobLen \in Nat /\ End(q, t) \in Nat
  BY Numbers, EndMonotonic
<1>1. y <= i
  BY <1>0 DEF Wanted
<1>2. y <= End(q, t)
  BY <1>0, <1>1
<1>3. LineIn(q, z, h, a, y) = LineAt(Plain(q), a, y)
      /\ LineIn(q, z, h, x, i) = LineAt(Plain(q), x, i)
  BY <1>2, LineInflated
<1>4. ~Newline(Plain(q)[a + 1]) /\ Newline(Plain(q)[a + 2])
  BY LineBytes DEF EndIs
<1>5. Plain(q) \in Streams
  BY PlainType
<1>6. Push(LineAt(Plain(q), a, y), Seg(Plain(q), y, i))
        = Result(LineAt(Plain(q), x, i), Seg(Plain(q), a, x), <<>>)
  BY <1>1, <1>4, <1>5, PushLineIs
<1>7. Pull(PipeOf(StagesAt(q, z, h, e, LineAt(Plain(q), a, y)), Seg(Wired(q, z), e, i), d))
            = SoFar(StagesAt(q, z, h, i, LineAt(Plain(q), x, i)), Seg(Plain(q), a, x),
                    Completed(q, e, i))
  BY <1>6, PullBehind
<1> QED
  BY <1>3, <1>7, Zenon

LEMMA PullPartial ==
    ASSUME NEW q \in Nat, NEW z \in Nat, NEW h \in Nat, NEW t \in Nat, Order(q, z, t), h <= t,
           q <= h, NEW d, NEW e \in Nat, NEW i \in Nat, 2 * q <= e, e <= i, i <= End(q, t),
           Wanted(q, e), Wanted(q, i), NEW c \in Nat, EndIs(q, q + 1, c)
    PROVE  Pull(PipeOf(StagesAt(q, z, h, e, LineIn(q, z, h, c, c)), Seg(Wired(q, z), e, i), d))
            = SoFar(StagesAt(q, z, h, i, LineIn(q, z, h, c, c)), <<>>, <<>>)
<1>0. q + 1 \in Nat /\ q + 1 # q /\ q + 1 <= t
  BY DEF Order
<1>1. c <= End(q, t)
  BY <1>0, EndMonotonic DEF EndIs
<1>3. LineIn(q, z, h, c, c) = LineAt(Plain(q), c, c)
  BY <1>1, LineInflated
<1>4. ~Newline(Plain(q)[c + 1]) /\ Newline(Plain(q)[c + 2])
  BY <1>0, LineBytes DEF EndIs
<1>5. Plain(q) \in Streams
  BY PlainType
<1>6. Push(LineAt(Plain(q), c, c), Seg(Plain(q), c, c))
        = Result(LineAt(Plain(q), c, c), Seg(Plain(q), c, c), <<>>)
  BY <1>4, <1>5, PushLineIs
<1>2. Seg(Plain(q), c, c) = <<>> /\ Seg(Plain(q), i, i) = <<>>
  BY SegEmpty
<1>8. Push(LineAt(Plain(q), c, c), Seg(Plain(q), i, i))
        = Result(LineAt(Plain(q), c, c), <<>>, <<>>)
  BY <1>2, <1>6, Zenon
<1>7. Pull(PipeOf(StagesAt(q, z, h, e, LineAt(Plain(q), c, c)), Seg(Wired(q, z), e, i), d))
            = SoFar(StagesAt(q, z, h, i, LineAt(Plain(q), c, c)), <<>>, Completed(q, e, i))
  BY <1>8, PullBehind
<1>9. Completed(q, e, i) = <<>>
  BY DEF Completed
<1> QED
  BY <1>3, <1>7, <1>9, Zenon

\* The line stage between two steps: nothing has come to it while the filter is awaited.
LineNow(q, z, h, k, e) ==
    IF q <= h /\ Wanted(q, e) THEN LineIn(q, z, h, End(q, q + 1), End(q, q + 1))
    ELSE LineIn(q, z, h, End(q, k), e)

LEMMA LineNowIs ==
    ASSUME NEW q \in Nat, NEW z \in Nat, NEW h \in Nat, NEW k \in Nat, NEW e \in Nat
    PROVE  /\ q <= h /\ Wanted(q, e)
                => LineNow(q, z, h, k, e) = LineIn(q, z, h, End(q, q + 1), End(q, q + 1))
           /\ q > h => LineNow(q, z, h, k, e) = LineIn(q, z, h, End(q, k), e)
           /\ ~Wanted(q, e) => LineNow(q, z, h, k, e) = LineIn(q, z, h, End(q, k), e)
<1>1. q > h => ~(q <= h)
  OBVIOUS
<1> QED
  BY <1>1, Zenon DEF LineNow

\* The pipeline between two steps when no frame is deferred.
Resting(q, z, h, e, i) ==
    PipeOf(StagesAt(q, z, h, e, LineNow(q, z, h, h, e)), Seg(Wired(q, z), e, i), <<>>)

\* The items behind the h-th, up to the g-th.
Between(q, h, g) == ItemsAfter(q, h, g - h)

\* The next unit, if the filter is not awaited after it, are the bytes between the places
\* a and x, behind g items.
Unit(q, z, h, t, e, i, g, a, x) ==
    /\ q \in Nat /\ z \in Nat /\ h \in Nat /\ t \in Nat /\ e \in Nat /\ i \in Nat
    /\ g \in Nat /\ a \in Nat /\ x \in Nat /\ Order(q, z, t)
    /\ h <= t /\ e <= i /\ i <= End(q, t) /\ End(q, h) <= e
    /\ q <= h /\ Wanted(q, e) => h = q
    /\ q <= h => ~Wanted(q, i)
    /\ q <= h /\ ~Wanted(q, e) => h > q
    /\ q <= h /\ Wanted(q, e) => g = h + 1
    /\ q > h \/ ~Wanted(q, e) => g = h
    /\ EndIs(q, g, a)
    /\ i - a <= 1 => x = a
    /\ i - a > 1 => x = a + 2

LEMMA Pulled ==
    ASSUME NEW q, NEW z, NEW h, NEW t, NEW e, NEW i, NEW g, NEW a, NEW x,
           Unit(q, z, h, t, e, i, g, a, x)
    PROVE  /\ g # q /\ g <= t /\ a <= i /\ g >= h
           /\ Pull(Resting(q, z, h, e, i))
                = SoFar(StagesAt(q, z, h, i, LineIn(q, z, h, x, i)), Seg(Plain(q), a, x),
                        Between(q, h, g))
<1> SUFFICES ASSUME q \in Nat, z \in Nat, h \in Nat, t \in Nat, e \in Nat, i \in Nat,
                    g \in Nat, a \in Nat, x \in Nat, Order(q, z, t), Unit(q, z, h, t, e, i, g, a, x)
             PROVE  /\ g # q /\ g <= t /\ a <= i /\ g >= h
                    /\ Pull(Resting(q, z, h, e, i))
                        = SoFar(StagesAt(q, z, h, i, LineIn(q, z, h, x, i)), Seg(Plain(q), a, x),
                                Between(q, h, g))
  BY Zenon DEF Unit
<1>u. /\ h <= t /\ e <= i /\ i <= End(q, t) /\ End(q, h) <= e
      /\ q <= h /\ Wanted(q, e) => h = q
      /\ q <= h => ~Wanted(q, i)
      /\ q <= h /\ ~Wanted(q, e) => h > q
      /\ q <= h /\ Wanted(q, e) => g = h + 1
      /\ q > h \/ ~Wanted(q, e) => g = h
      /\ EndIs(q, g, a)
      /\ i - a <= 1 => x = a
      /\ i - a > 1 => x = a + 2
  BY Zenon DEF Unit
<1>0. BlobLen \in Nat /\ End(q, t) \in Nat /\ End(q, h) \in Nat /\ End(q, q + 1) = 2 * q + BlobLen
      /\ End(q, q) = 2 * q
  BY Numbers, EndMonotonic, BlobAt
<1>1. ItemsAfter(q, h, 0) = <<>>
  BY DEF ItemsAfter
<1>2. CASE q > h
  <2>1. g = h
    BY <1>u, <1>2
  <2>2. EndIs(q, h, a) /\ End(q, h) = a
    BY <1>u, <2>1 DEF EndIs
  <2>3. a <= e
    BY <1>u, <2>2
  <2>4. Pull(PipeOf(StagesAt(q, z, h, e, LineIn(q, z, h, a, e)), Seg(Wired(q, z), e, i), <<>>))
            = SoFar(StagesAt(q, z, h, i, LineIn(q, z, h, x, i)), Seg(Plain(q), a, x), <<>>)
    BY <1>u, <1>2, <2>2, <2>3, PullLine
  <2>5. LineNow(q, z, h, h, e) = LineIn(q, z, h, a, e)
    BY <1>u, <1>2, <2>2, LineNowIs
  <2>6. Between(q, h, g) = <<>>
    BY <1>u, <1>1, <2>1 DEF Between
  <2>7. g # q /\ g <= t /\ a <= i /\ g >= h
    BY <1>u, <1>2, <2>1, <2>3
  <2> QED
    BY <2>4, <2>5, <2>6, <2>7, Zenon DEF Resting
<1>3. CASE q <= h /\ ~Wanted(q, e)
  <2>1. g = h /\ h > q
    BY <1>u, <1>3
  <2>2. EndIs(q, h, a) /\ End(q, h) = a
    BY <1>u, <2>1 DEF EndIs
  <2>3. a <= e
    BY <1>u, <2>2
  <2>a. ~Wanted(q, i) /\ 2 * q <= e
    BY <1>u, <1>3, <1>0 DEF Wanted
  <2>4. Pull(PipeOf(StagesAt(q, z, h, e, LineIn(q, z, h, a, e)), Seg(Wired(q, z), e, i), <<>>))
            = SoFar(StagesAt(q, z, h, i, LineIn(q, z, h, x, i)), Seg(Plain(q), a, x),
                    Completed(q, e, i))
    BY <1>u, <1>3, <2>1, <2>2, <2>3, <2>a, PullFrame
  <2>5. LineNow(q, z, h, h, e) = LineIn(q, z, h, a, e)
    BY <1>u, <1>3, <2>2, LineNowIs
  <2>6. Between(q, h, g) = <<>> /\ Completed(q, e, i) = <<>>
    BY <1>u, <1>1, <1>3, <2>1 DEF Completed, Between
  <2>7. g # q /\ g <= t /\ a <= i /\ g >= h
    BY <1>u, <2>1, <2>3
  <2> QED
    BY <2>4, <2>5, <2>6, <2>7, Zenon DEF Resting
<1>4. CASE q <= h /\ Wanted(q, e)
  <2>1. g = q + 1 /\ h = q
    BY <1>u, <1>4
  <2>2. EndIs(q, q + 1, a) /\ End(q, q + 1) = a
    BY <1>u, <2>1 DEF EndIs
  <2>3. a = 2 * q + BlobLen
    BY <1>u, <1>0, <2>2
  <2>a. ~Wanted(q, i) /\ 2 * q <= e /\ a <= i
    BY <1>u, <1>0, <1>4, <2>1, <2>3 DEF Wanted
  <2>b. q + 1 # q /\ q + 1 \in Nat
    OBVIOUS
  <2>4. Pull(PipeOf(StagesAt(q, z, h, e, LineIn(q, z, h, a, a)), Seg(Wired(q, z), e, i), <<>>))
            = SoFar(StagesAt(q, z, h, i, LineIn(q, z, h, x, i)), Seg(Plain(q), a, x),
                    Completed(q, e, i))
    BY <1>u, <1>4, <2>2, <2>3, <2>a, <2>b, PullFrame
  <2>5. LineNow(q, z, h, h, e) = LineIn(q, z, h, a, a)
    BY <1>u, <1>4, <2>2, LineNowIs
  <2>c. ItemsAfter(q, h, 1) = <<Item(q, h + 1)>>
    BY DEF ItemsAfter
  <2>6. Between(q, h, g) = Completed(q, e, i)
    BY <1>u, <1>4, <2>1, <2>a, <2>c DEF Completed, Between
  <2>7. g # q /\ g <= t /\ g >= h
    BY <1>u, <2>1 DEF Order
  <2> QED
    BY <2>4, <2>5, <2>6, <2>7, <2>a, Zenon DEF Resting
<1> QED
  BY <1>u, <1>2, <1>3, <1>4

-----------------------------------------------------------------------------
Gives(p, unit, stored) == [pipe |-> p, unit |-> unit, overflow |-> FALSE, stored |-> stored]

LEMMA NextFields ==
    ASSUME NEW p, NEW u, NEW st
    PROVE  /\ Gives(p, u, st).pipe = p /\ Gives(p, u, st).unit = u
           /\ ~Gives(p, u, st).overflow /\ Gives(p, u, st).stored = st
BY DEF Gives

LEMMA NextPulled ==
    ASSUME NEW s, NEW i, NEW ss, NEW u, NEW st, Pull(PipeOf(s, i, <<>>)) = SoFar(ss, u, st)
    PROVE  NextFrame(PipeOf(s, i, <<>>)) = Gives(PipeOf(ss, <<>>, <<>>), u, st)
<1> DEFINE p == PipeOf(s, i, <<>>)
           r == SoFar(ss, u, st)
<1>1. ~(p.deferred # <<>>)
  BY PipeOfFields
<1>2. r.stages = ss /\ r.unit = u /\ r.overflow = FALSE /\ r.stored = st
  BY DEF SoFar
<1>4. Pull(p) = r
  OBVIOUS
<1>0. p = PipeOf(s, i, <<>>)
  OBVIOUS
<1> HIDE DEF p, r
<1>3. PulledThrough(p, ss, <<>>) = PipeOf(ss, <<>>, <<>>)
  BY <1>0, PipePulled
<1>5. NextFrame(p) = [pipe |-> [p EXCEPT !.stages = r.stages, !.input = <<>>, !.sticky = FALSE],
                      unit |-> r.unit, overflow |-> r.overflow, stored |-> r.stored]
  BY <1>1, <1>4, Zenon DEF NextFrame
<1>6. NextFrame(p) = [pipe |-> PipeOf(ss, <<>>, <<>>),
                      unit |-> u, overflow |-> FALSE, stored |-> st]
  BY <1>2, <1>3, <1>5, Zenon DEF PulledThrough
<1> QED
  BY <1>6, Zenon DEF p, Gives

LEMMA NextDeferred ==
    ASSUME NEW s, NEW i, NEW d, d # <<>>
    PROVE  NextFrame(PipeOf(s, i, d)) = Gives(PipeOf(s, i, Tail(d)), Head(d), <<>>)
<1> DEFINE p == PipeOf(s, i, d)
<1>0. p.deferred = d /\ p.sticky = Off /\ p = PipeOf(s, i, d)
  BY PipeOfFields
<1> HIDE DEF p
<1>1. p.deferred = d /\ p.sticky = FALSE
  BY <1>0, Zenon DEF Off
<1>2. \A t : Deferring(p, t) = PipeOf(s, i, t)
  BY <1>0, PipeDeferred
<1>3. NextFrame(p) = [pipe |-> [p EXCEPT !.deferred = Tail(p.deferred), !.sticky = FALSE],
                      unit |-> Head(p.deferred), overflow |-> p.sticky, stored |-> <<>>]
  BY <1>1, Zenon DEF NextFrame
<1>4. NextFrame(p) = [pipe |-> PipeOf(s, i, Tail(d)),
                      unit |-> Head(d), overflow |-> FALSE, stored |-> <<>>]
  BY <1>1, <1>2, <1>3, Zenon DEF Deferring
<1> QED
  BY <1>4, Zenon DEF p, Gives

-----------------------------------------------------------------------------
\* What the peer sent: q and z are the places of its HSND and of its ZON.
Total(q, s) == IF q <= Len(s) THEN Len(s) + 1 ELSE Len(s)
ItemsOf(s) == Joined([m \in DOMAIN s |-> Items(m, s[m])])
SentAs(q, z, s) ==
    /\ s \in Seq(MessageKinds) /\ Len(s) <= MaxMessages
    /\ q \in 1..Len(s) \/ q = NoMessage
    /\ z \in 1..Len(s) \/ z = NoMessage
    /\ \A m \in 1..Len(s) : (s[m] = "hsnd" <=> m = q) /\ (s[m] = "zon" <=> m = z)
    /\ z < q \/ z = NoMessage
    /\ ItemsOf(s) = ItemsAfter(q, 0, Total(q, s))

LEMMA SentOrder ==
    ASSUME NEW q, NEW z, NEW s, SentAs(q, z, s)
    PROVE  /\ q \in Nat /\ z \in Nat /\ Len(s) \in Nat /\ Total(q, s) \in Nat
           /\ Order(q, z, Total(q, s))
<1>0. /\ BlobLen \in Nat /\ BlobLen >= 1 /\ MaxMessages \in Nat
      /\ NoMessage \in Nat /\ NoMessage = MaxMessages + BlobLen + 1
  BY Numbers DEF NoMessage
<1>1. Len(s) \in Nat /\ Len(s) <= MaxMessages
  BY DEF SentAs
<1>2. q \in 1..NoMessage /\ z \in 1..NoMessage
  BY <1>0, <1>1 DEF SentAs
<1>3. Total(q, s) \in Nat /\ Total(q, s) < NoMessage
  BY <1>0, <1>1 DEF Total
<1>4. End(q, Total(q, s)) <= 2 * NoMessage
  <2>1. CASE q <= Len(s)
    <3>1. Total(q, s) = Len(s) + 1
      BY <2>1 DEF Total
    <3>2. End(q, Total(q, s)) = 2 * Len(s) + BlobLen
      BY <1>0, <1>1, <1>2, <2>1, <3>1 DEF End
    <3> QED
      BY <1>0, <1>1, <3>2
  <2>2. CASE ~(q <= Len(s))
    <3>1. Total(q, s) = Len(s)
      BY <2>2 DEF Total
    <3>2. End(q, Total(q, s)) = 2 * Len(s)
      BY <1>1, <1>2, <2>2, <3>1 DEF End
    <3> QED
      BY <1>0, <1>1, <3>2
  <2> QED
    BY <2>1, <2>2
<1>5. q <= Total(q, s) => q + 1 <= Total(q, s)
  BY <1>1, <1>2 DEF Total
<1>6. z < q \/ z = NoMessage
  BY DEF SentAs
<1> QED
  BY <1>1, <1>2, <1>3, <1>4, <1>5, <1>6 DEF Order

LEMMA FramesDiffer ==
    ASSUME NEW m, NEW n, Frame(m) = Frame(n)
    PROVE  m = n
<1>1. Frame(m)[1].of = m /\ Frame(n)[1].of = n
  BY DEF Frame
<1> QED
  BY <1>1

\* What a frame of the peer makes of the pipeline.
LEMMA DispatchedIs ==
    ASSUME NEW q, NEW z, SentAs(q, z, sent), NEW n \in Nat, 1 <= n, n <= Total(q, sent), n # q + 1, NEW p
    PROVE  /\ n = z => Dispatched(Item(q, n), p) = Prepend(InflateStage, p)
           /\ n = q => Dispatched(Item(q, n), p) = InsertBeforeTerminal(CountedStage, p)
           /\ n # z /\ n # q => Dispatched(Item(q, n), p) = [pipe |-> p, stored |-> <<>>]
<1>0. /\ q \in Nat /\ z \in Nat /\ Len(sent) \in Nat /\ Total(q, sent) \in Nat /\ Order(q, z, Total(q, sent))
      /\ NoMessage \in Nat
  BY SentOrder, Numbers
<1>1. PICK g \in 1..Len(sent) :
          Item(q, n) = Frame(g) /\ (n = q <=> g = q) /\ (n = z <=> g = z)
  <2>1. CASE n <= q
    <3>1. n \in 1..Len(sent)
      BY <1>0, <2>1 DEF Total
    <3>2. Item(q, n) = Frame(n)
      BY <2>1 DEF Item
    <3> QED
      BY <3>1, <3>2
  <2>2. CASE ~(n <= q)
    <3>1. n - 1 \in 1..Len(sent) /\ n - 1 > q /\ q < NoMessage
      BY <1>0, <2>2 DEF Total, Order
    <3>2. Item(q, n) = Frame(n - 1)
      BY <1>0, <2>2 DEF Item
    <3>3. n # z /\ n - 1 # z /\ n # q /\ n - 1 # q
      BY <1>0, <3>1 DEF Order
    <3> QED
      BY <3>1, <3>2, <3>3
  <2> QED
    BY <2>1, <2>2
<1>2. (sent[g] = "hsnd" <=> g = q) /\ (sent[g] = "zon" <=> g = z) /\ DOMAIN sent = 1..Len(sent)
  BY <1>0 DEF SentAs
<1>3. \A kind : (\E m \in DOMAIN sent : sent[m] = kind /\ Item(q, n) = Frame(m)) <=> sent[g] = kind
  BY <1>1, <1>2, FramesDiffer, Zenon
<1> DEFINE is(kind) == \E m \in DOMAIN sent : sent[m] = kind /\ Item(q, n) = Frame(m)
<1>4. (is("zon") <=> n = z) /\ (is("hsnd") <=> n = q)
  BY <1>1, <1>2, <1>3, Zenon
<1>5. ~(n = z /\ n = q)
  BY <1>0 DEF Order
<1>6. Dispatched(Item(q, n), p) =
        CASE is("zon") -> Prepend(InflateStage, p)
          [] is("hsnd") -> InsertBeforeTerminal(CountedStage, p)
          [] OTHER -> [pipe |-> p, stored |-> <<>>]
  BY Zenon DEF Dispatched
<1> HIDE DEF is
<1> QED
  BY <1>4, <1>5, <1>6

-----------------------------------------------------------------------------
\* Splicing.
Outcome(p, stored) == [pipe |-> p, stored |-> stored]

LEMMA PrependIs ==
    ASSUME NEW f, NEW a, NEW b, NEW i, NEW d, NEW new
    PROVE  Prepend(new, PipeOf(<<LineAt(f, a, b)>>, i, d))
            = Outcome(PipeOf(<<new, LineStage>>, Cat(Seg(f, a, b), i), d), <<>>)
<1> DEFINE l == LineAt(f, a, b)
           p == PipeOf(<<l>>, i, d)
           front == Head(p.stages)
           residual == IF front.kind = "line" THEN front.buf ELSE <<>>
           behind == IF front.kind = "line" THEN LineStage ELSE front
<1>1. l.kind = "line" /\ l.buf = Seg(f, a, b)
  BY DEF LineAt
<1> HIDE DEF l
<1>2. p.stages = <<l>> /\ p.input = i
  BY PipeOfFields
<1>3. SplicedInto(p, <<new, LineStage>>, Cat(Seg(f, a, b), i))
        = PipeOf(<<new, LineStage>>, Cat(Seg(f, a, b), i), d)
  BY PipeSpliced
<1> HIDE DEF p
<1>4. Head(<<l>>) = l /\ Tail(<<l>>) = <<>>
  BY Spliced
<1>5. <<new, LineStage>> \o <<>> = <<new, LineStage>>
  BY Spliced
<1>6. front = l /\ Tail(p.stages) = <<>>
  BY <1>2, <1>4, Zenon
<1>7. residual = Seg(f, a, b) /\ behind = LineStage
  BY <1>1, <1>6, Zenon
<1> HIDE DEF front, residual, behind
<1>8. Prepend(new, p) =
        [pipe |-> [p EXCEPT !.stages = <<new, behind>> \o Tail(p.stages),
                            !.input = residual \o p.input], stored |-> <<>>]
  BY Zenon DEF Prepend, front, residual, behind
<1>9. Prepend(new, p) = [pipe |-> SplicedInto(p, <<new, LineStage>>, Cat(Seg(f, a, b), i)),
                         stored |-> <<>>]
  BY <1>2, <1>5, <1>6, <1>7, <1>8, Zenon DEF SplicedInto, Cat
<1> QED
  BY <1>3, <1>9, Zenon DEF Outcome, p, l

LEMMA CountedBegins ==
    ASSUME NEW q \in Nat
    PROVE  Wanted(q, 2 * q) /\ CountedStage = CountedAt(q, 2 * q)
<1>0. BlobLen \in Nat /\ BlobLen >= 1
  BY Numbers
<1>1. Wanted(q, 2 * q)
  BY <1>0 DEF Wanted
<1>2. Held(q, 2 * q) = <<>>
  BY <1>1, SegEmpty DEF Held
<1>3. Left(q, 2 * q) = BlobLen
  BY <1>0, <1>1 DEF Left
<1>4. CountedAt(q, 2 * q) = Counted(<<>>, BlobLen)
  BY <1>2, <1>3, Zenon DEF CountedAt
<1> QED
  BY <1>1, <1>4, Zenon DEF CountedStage, Counted

LEMMA LineBegun ==
    ASSUME NEW f, NEW c \in Nat
    PROVE  LineAt(f, c, c) = LineStage
<1>1. Seg(f, c, c) = <<>>
  BY SegEmpty
<1> QED
  BY <1>1, Zenon DEF LineAt, LineStage

-----------------------------------------------------------------------------
\* The complete lines of the bytes behind the filter.
LEMMA NewlinesAre ==
    ASSUME NEW u, NEW m \in Nat, \A j \in 1..m : Newline(u[j]) <=> j % 2 = 0
    PROVE  \A n \in 0..m : Newlines(u, n) = n \div 2
<1> DEFINE E(n) == {i \in 1..n : Newline(u[i])}
           S == {n \in Nat : n <= m => IsFiniteSet(E(n)) /\ Cardinality(E(n)) = n \div 2}
<1>1. 0 \in S
  <2>1. E(0) = {}
    OBVIOUS
  <2> QED
    BY <2>1, FS_EmptySet
<1>2. ASSUME NEW n \in Nat, n \in S
      PROVE  n + 1 \in S
  <2> SUFFICES ASSUME n + 1 <= m
               PROVE  IsFiniteSet(E(n + 1)) /\ Cardinality(E(n + 1)) = (n + 1) \div 2
    OBVIOUS
  <2>1. IsFiniteSet(E(n)) /\ Cardinality(E(n)) = n \div 2
    BY <1>2
  <2>2. n + 1 \in 1..m
    OBVIOUS
  <2>3. CASE (n + 1) % 2 = 0
    <3>1. Newline(u[n + 1])
      BY <2>2, <2>3
    <3>2. E(n + 1) = E(n) \cup {n + 1} /\ n + 1 \notin E(n)
      BY <3>1
    <3>3. (n + 1) \div 2 = n \div 2 + 1
      BY <2>3
    <3> HIDE DEF E
    <3> QED
      BY <2>1, <3>2, <3>3, FS_AddElement
  <2>4. CASE (n + 1) % 2 # 0
    <3>1. ~Newline(u[n + 1])
      BY <2>2, <2>4
    <3>2. E(n + 1) = E(n)
      BY <3>1
    <3>3. (n + 1) \div 2 = n \div 2
      BY <2>4
    <3> HIDE DEF E
    <3> QED
      BY <2>1, <3>2, <3>3
  <2> QED
    BY <2>3, <2>4
<1>3. \A n \in Nat : n \in S
  <2> HIDE DEF S
  <2> QED
    BY <1>1, <1>2, NatSetInduction
<1> QED
  BY <1>3 DEF Newlines

LEMMA LineEnds ==
    ASSUME NEW u, NEW m \in Nat, Len(u) = m, \A j \in 1..m : Newline(u[j]) <=> j % 2 = 0,
           NEW k \in Nat, 2 * k <= m
    PROVE  LineEnd(u, k) = 2 * k
<1> DEFINE P(i) == Newlines(u, i) = k /\ (i = 0 \/ Newline(u[i]))
<1>1. \A n \in 0..m : Newlines(u, n) = n \div 2
  BY NewlinesAre
<1>2. 2 * k \in 0..m /\ (2 * k) \div 2 = k /\ (2 * k) % 2 = 0
  OBVIOUS
<1>3. P(2 * k)
  BY <1>1, <1>2
<1>4. ASSUME NEW i \in 0..m, P(i)
      PROVE  i = 2 * k
  <2>1. i \div 2 = k
    BY <1>1, <1>4
  <2>2. i % 2 = 0
    BY <1>4
  <2> QED
    BY <2>1, <2>2
<1>5. LineEnd(u, k) = CHOOSE i \in 0..m : P(i)
  BY Zenon DEF LineEnd
<1> HIDE DEF P
<1> QED
  BY <1>2, <1>3, <1>4, <1>5

\* Behind the filter the second, fourth, ... byte is the end of a line.
LEMMA BehindBlob ==
    ASSUME NEW q \in Nat, q >= 1, NEW a \in Nat, EndIs(q, q + 1, a), NEW b \in Nat, a <= b
    PROVE  \A j \in 1..(b - a) : Newline(Seg(Plain(q), a, b)[j]) <=> j % 2 = 0
<1>0. BlobLen \in Nat /\ BlobLen >= 1 /\ End(q, q + 1) = 2 * q + BlobLen
  BY Numbers, BlobAt
<1>1. a = 2 * q + BlobLen
  BY <1>0 DEF EndIs
<1> TAKE j \in 1..(b - a)
<1>2. Seg(Plain(q), a, b)[j] = Plain(q)[a + j]
  BY SegAt
<1>3. ~(a + j <= 2 * q) /\ ~(a + j <= 2 * q + BlobLen) /\ a + j \in Nat
      /\ (a + j) - BlobLen = 2 * q + j
  BY <1>0, <1>1
<1>4. Plain(q)[a + j] = FrameByte(2 * q + j)
  BY <1>3, PlainAt DEF ByteAt
<1>5. 2 * q + j \in Nat /\ (2 * q + j) % 2 = j % 2
  OBVIOUS
<1>6. Newline(FrameByte(2 * q + j)) <=> (2 * q + j) % 2 = 0
  BY <1>5, FrameBytes
<1> QED
  BY <1>2, <1>4, <1>5, <1>6

LEMMA EndBehind ==
    ASSUME NEW q \in Nat, NEW k \in Nat
    PROVE  End(q, q + 1 + k) = 2 * (q + k) + BlobLen
<1>1. ~(q + 1 + k <= q) /\ (q + 1 + k) - 1 = q + k
  OBVIOUS
<1> QED
  BY <1>1 DEF End

LEMMA LinesAre ==
    ASSUME NEW q \in Nat, q >= 1, NEW a \in Nat, EndIs(q, q + 1, a), NEW b \in Nat, a <= b,
           NEW m \in Nat, m = (b - a) \div 2, NEW c \in Nat, c = a + 2 * m
    PROVE  /\ Lines(Seg(Plain(q), a, b)) = ItemsAfter(q, q + 1, m)
           /\ Rest(Seg(Plain(q), a, b)) = Seg(Plain(q), c, b)
           /\ EndIs(q, q + 1 + m, c) /\ c <= b /\ b - c <= 1
<1> DEFINE u == Seg(Plain(q), a, b)
           n == b - a
<1>0. BlobLen \in Nat /\ BlobLen >= 1 /\ End(q, q + 1) = 2 * q + BlobLen
  BY Numbers, BlobAt
<1>1. a = 2 * q + BlobLen
  BY <1>0 DEF EndIs
<1>2. n \in Nat /\ Len(u) = n /\ 2 * m <= n /\ n - 2 * m <= 1
  BY SegLen
<1>3. \A j \in 1..n : Newline(u[j]) <=> j % 2 = 0
  BY BehindBlob
<1>4. Plain(q) \in Streams
  BY PlainType
<1>5. ASSUME NEW i \in Nat, NEW j \in Nat, 1 <= i, i <= j + 1, j <= n
      PROVE  Cut(u, i, j) = Seg(Plain(q), a + i - 1, a + j)
  BY <1>4, <1>5, SegSub
<1> HIDE DEF u, n
<1>6. \A k \in 0..m : LineEnd(u, k) = 2 * k
  <2> TAKE k \in 0..m
  <2>1. k \in Nat /\ 2 * k <= n
    BY <1>2
  <2> QED
    BY <1>2, <1>3, <2>1, LineEnds
<1>7. Newlines(u, Len(u)) = m
  <2>1. n \in 0..n
    BY <1>2
  <2>2. Newlines(u, n) = n \div 2
    BY <1>2, <1>3, <2>1, NewlinesAre
  <2> QED
    BY <1>2, <2>2 DEF n
<1>8. ASSUME NEW k \in 1..m
      PROVE  Line(u, k) = Item(q, q + 1 + k)
  <2>1. k \in 0..m /\ k - 1 \in 0..m /\ k \in Nat /\ 2 * k - 1 \in Nat /\ 2 * k \in Nat
        /\ 2 * (k - 1) + 1 = 2 * k - 1
    OBVIOUS
  <2>2. LineEnd(u, k) = 2 * k /\ LineEnd(u, k - 1) + 1 = 2 * k - 1
    BY <1>6, <2>1
  <2>3. Line(u, k) = Cut(u, 2 * k - 1, 2 * k)
    BY <2>2, Zenon DEF Line, Cut
  <2>4. Cut(u, 2 * k - 1, 2 * k) = Seg(Plain(q), a + (2 * k - 1) - 1, a + 2 * k)
    BY <1>2, <1>5, <2>1
  <2>5. q + k \in Nat /\ q + k # q /\ ~(q + k <= q) /\ q + k + 1 = q + 1 + k
    OBVIOUS
  <2>6. End(q, q + k) = a + (2 * k - 1) - 1 /\ End(q, q + k) + 2 = a + 2 * k
    BY <1>0, <1>1, <2>5 DEF End
  <2>7. Seg(Plain(q), End(q, q + k), End(q, q + k) + 2) = Item(q, q + k + 1)
    BY <2>5, FrameAt
  <2> QED
    BY <2>3, <2>4, <2>5, <2>6, <2>7
<1>9. Lines(u) = ItemsAfter(q, q + 1, m)
  <2>1. Lines(u) = [k \in 1..m |-> Line(u, k)]
    BY <1>7, Zenon DEF Lines
  <2> QED
    BY <1>8, <2>1 DEF ItemsAfter
<1>10. Rest(u) = Seg(Plain(q), c, b)
  <2>1. m \in 0..m /\ 2 * m + 1 \in Nat /\ 1 <= 2 * m + 1 /\ 2 * m + 1 <= n + 1 /\ n <= n
    BY <1>2
  <2>2. LineEnd(u, Newlines(u, Len(u))) = 2 * m
    BY <1>6, <1>7, <2>1
  <2>3. Rest(u) = Cut(u, 2 * m + 1, n)
    BY <1>2, <2>2, Zenon DEF Rest, Cut
  <2>4. Cut(u, 2 * m + 1, n) = Seg(Plain(q), a + (2 * m + 1) - 1, a + n)
    BY <1>2, <1>5, <2>1
  <2>5. a + (2 * m + 1) - 1 = c /\ a + n = b
    BY DEF n
  <2> QED
    BY <2>3, <2>4, <2>5
<1>11. EndIs(q, q + 1 + m, c) /\ c <= b /\ b - c <= 1
  <2>1. End(q, q + 1 + m) = 2 * (q + m) + BlobLen
    BY EndBehind, Zenon
  <2>2. c = End(q, q + 1 + m)
    BY <1>0, <1>1, <2>1
  <2>3. c <= b /\ b - c <= 1
    BY <1>2 DEF n
  <2> QED
    BY <2>2, <2>3 DEF EndIs
<1> QED
  BY <1>9, <1>10, <1>11 DEF u

\* A counted stage that is put in front of the line stage, behind the inflate stage.
Inserted(p, t, e, g) == [p EXCEPT !.stages = t, !.deferred = e, !.sticky = g]
LineBuf(stage, rest) == [stage EXCEPT !.buf = rest]

LEMMA PipeInserted ==
    ASSUME NEW s, NEW i, NEW d, NEW t, NEW e
    PROVE  Inserted(PipeOf(s, i, d), t, e, Off) = PipeOf(t, i, e)
<1>1. ASSUME NEW p, NEW g
      PROVE  [p EXCEPT !.stages = t, !.deferred = e, !.sticky = g]
                = WithSticky(WithDeferred(WithStages(p, t), e), g)
  BY DEF WithStages, WithDeferred, WithSticky
<1>2. WithSticky(WithDeferred(WithStages(PipeOf(s, i, d), t), e), Off) = PipeOf(t, i, e)
  BY WithStagesIs, WithDeferredIs, WithStickyIs DEF PipeOf
<1> QED
  BY <1>1, <1>2, Zenon DEF Inserted

LEMMA LineKept ==
    ASSUME NEW f, NEW a, NEW b, NEW g, NEW c, NEW n
    PROVE  LineBuf(LineAt(f, a, b), Seg(g, c, n)) = LineAt(g, c, n)
BY DEF LineBuf, LineAt

LEMMA InsertIs ==
    ASSUME NEW f, NEW a, NEW b, NEW i, NEW new, NEW t, NEW u, NEW st,
           Push(new, Seg(f, a, b)) = Result(t, u, st),
           NEW g, NEW c, NEW n, Rest(u) = Seg(g, c, n), Len(Rest(u)) <= MaxReadLen,
           \A k \in DOMAIN Lines(u) : Len(Lines(u)[k]) <= MaxReadLen + 1,
           Len(Rest(u)) \in Nat, \A k \in DOMAIN Lines(u) : Len(Lines(u)[k]) \in Nat
    PROVE  InsertBeforeTerminal(new, PipeOf(<<InflateStage, LineAt(f, a, b)>>, i, <<>>))
            = Outcome(PipeOf(<<InflateStage, t, LineAt(g, c, n)>>, i, <<>> \o Lines(u)), st)
<1> DEFINE l == LineAt(f, a, b)
           p == PipeOf(<<InflateStage, l>>, i, <<>>)
           r == Push(new, l.buf)
           line == Last(p.stages)
           rest == Rest(r.unit)
           over == p.sticky \/ r.overflow \/ Len(rest) > MaxReadLen
                     \/ \E k \in DOMAIN Lines(r.unit) : Len(Lines(r.unit)[k]) > MaxReadLen + 1
<1>0. MaxReadLen \in Nat
  BY Numbers
<1>1. l.buf = Seg(f, a, b)
  BY DEF LineAt
<1>2. r.stage = t /\ r.unit = u /\ r.stored = st /\ r.overflow = FALSE
  BY <1>1 DEF Result
<1>a. LineBuf(l, Rest(u)) = LineAt(g, c, n)
  BY LineKept
<1> HIDE DEF l
<1>3. p.stages = <<InflateStage, l>> /\ p.deferred = <<>> /\ p.sticky = Off
  BY PipeOfFields
<1>4. \A s, e : Inserted(p, s, e, Off) = PipeOf(s, i, e)
  BY PipeInserted
<1>5. Last(<<InflateStage, l>>) = l /\ Front(<<InflateStage, l>>) = <<InflateStage>>
      /\ <<InflateStage>> \o <<t, LineAt(g, c, n)>> = <<InflateStage, t, LineAt(g, c, n)>>
  BY Spliced
<1>b. ~(Len(<<InflateStage, l>>) < 2)
  OBVIOUS
<1> HIDE DEF p
<1>6. line = l /\ Front(p.stages) = <<InflateStage>> /\ ~(Len(p.stages) < 2)
  BY <1>3, <1>5, <1>b, Zenon
<1> HIDE DEF line
<1>c. r = Push(new, line.buf)
  BY <1>6, Zenon
<1> HIDE DEF r
<1>7. over = Off
  <2>1. ~(Len(Rest(u)) > MaxReadLen)
    BY <1>0
  <2>2. ~(\E k \in DOMAIN Lines(u) : Len(Lines(u)[k]) > MaxReadLen + 1)
    BY <1>0
  <2> QED
    BY <1>2, <1>3, <2>1, <2>2, Zenon DEF Off
<1> HIDE DEF over
<1>8. InsertBeforeTerminal(new, p) =
         [pipe |-> [p EXCEPT
            !.stages = Front(p.stages) \o <<r.stage, [line EXCEPT !.buf = rest]>>,
            !.deferred = p.deferred \o Lines(r.unit),
            !.sticky = over],
          stored |-> r.stored]
  BY <1>6, <1>c, Zenon DEF InsertBeforeTerminal, line, over
<1>9. InsertBeforeTerminal(new, p) =
         [pipe |-> Inserted(p, Front(p.stages) \o <<r.stage, LineBuf(line, rest)>>,
                            p.deferred \o Lines(r.unit), over),
          stored |-> r.stored]
  BY <1>8, Zenon DEF Inserted, LineBuf
<1>10. InsertBeforeTerminal(new, p) =
         [pipe |-> Inserted(p, <<InflateStage>> \o <<t, LineAt(g, c, n)>>,
                            <<>> \o Lines(u), Off),
          stored |-> st]
  BY <1>2, <1>3, <1>6, <1>7, <1>9, <1>a, Zenon
<1> QED
  BY <1>4, <1>5, <1>10, Zenon DEF Outcome, p, l

-----------------------------------------------------------------------------
\* The places of the stream: h items are handed over, the frames up to the k-th are
\* deferred, the bytes up to the e-th have come through the stages, those up to the i-th
\* to the pipeline and those up to the c-th to luasocket's buffer.
Places(q, t, h, k, e, i, c) ==
    /\ h <= k /\ k <= t
    /\ End(q, k) <= e /\ e <= i /\ i <= c /\ c <= End(q, t)
    /\ q <= h /\ Wanted(q, e) => k = q
    /\ q <= h /\ ~Wanted(q, e) => k > q
    /\ k > h => q < h

\* What the pipeline gives next when no frame is deferred: nothing, while the filter is
\* awaited, or the bytes of a frame that is complete, if there is one.
LEMMA NextUnit ==
    ASSUME NEW q \in Nat, NEW z \in Nat, NEW h \in Nat, NEW t \in Nat, Order(q, z, t),
           NEW e \in Nat, NEW i \in Nat, NEW c \in Nat, Places(q, t, h, h, e, i, c)
    PROVE  \/ /\ q <= h /\ Wanted(q, i) /\ h = q
              /\ NextFrame(Resting(q, z, h, e, i)) = Gives(PipeOf(StagesAt(q, z, h, i, LineNow(q, z, h, h, i)), <<>>, <<>>),
                                     <<>>, <<>>)
           \/ \E g, a, x \in Nat :
              /\ EndIs(q, g, a) /\ g # q /\ h <= g /\ g <= t /\ a <= i
              /\ q <= h => ~Wanted(q, i) /\ q < g
              /\ q > h => g = h
              /\ i - a <= 1 => x = a
              /\ i - a > 1 => x = a + 2
              /\ NextFrame(Resting(q, z, h, e, i)) = Gives(PipeOf(StagesAt(q, z, h, i, LineIn(q, z, h, x, i)), <<>>, <<>>),
                                     Seg(Plain(q), a, x), Between(q, h, g))
<1>a. q + 1 \in Nat
  OBVIOUS
<1>b. End(q, t) \in Nat /\ End(q, h) \in Nat /\ End(q, q + 1) \in Nat
  BY <1>a, EndMonotonic
<1>0. /\ BlobLen \in Nat /\ End(q, t) \in Nat /\ End(q, h) \in Nat /\ End(q, q) = 2 * q
      /\ End(q, q + 1) \in Nat /\ q + 1 \in Nat
  BY <1>a, <1>b, Numbers, BlobAt
<1>1. /\ h <= t /\ End(q, h) <= e /\ e <= i /\ i <= End(q, t)
      /\ q <= h /\ Wanted(q, e) => h = q
      /\ q <= h /\ ~Wanted(q, e) => h > q
  <2>1. /\ h <= t /\ End(q, h) <= e /\ e <= i /\ i <= c /\ c <= End(q, t)
        /\ q <= h /\ Wanted(q, e) => h = q
        /\ q <= h /\ ~Wanted(q, e) => h > q
    BY Zenon DEF Places
  <2>2. i <= End(q, t)
    BY <1>0, <2>1
  <2> QED
    BY <2>1, <2>2, Zenon
<1>2. CASE q <= h /\ Wanted(q, i)
  <2>1. Wanted(q, e)
    BY <1>0, <1>1, <1>2 DEF Wanted
  <2>2. h = q
    BY <1>1, <1>2, <2>1
  <2>3. 2 * q <= e /\ EndIs(q, q + 1, End(q, q + 1))
    BY <1>0, <1>1, <2>2 DEF EndIs
  <2>4. LineNow(q, z, h, h, e) = LineIn(q, z, h, End(q, q + 1), End(q, q + 1))
        /\ LineNow(q, z, h, h, i) = LineIn(q, z, h, End(q, q + 1), End(q, q + 1))
    BY <1>2, <2>1, LineNowIs
  <2>5. Pull(PipeOf(StagesAt(q, z, h, e, LineIn(q, z, h, End(q, q + 1), End(q, q + 1))),
                    Seg(Wired(q, z), e, i), <<>>))
            = SoFar(StagesAt(q, z, h, i, LineIn(q, z, h, End(q, q + 1), End(q, q + 1))), <<>>, <<>>)
    BY <1>0, <1>1, <1>2, <2>1, <2>3, PullPartial
  <2>6. NextFrame(Resting(q, z, h, e, i)) = Gives(PipeOf(StagesAt(q, z, h, i, LineNow(q, z, h, h, i)), <<>>, <<>>), <<>>, <<>>)
    BY <2>4, <2>5, NextPulled DEF Resting
  <2> QED
    BY <1>2, <2>2, <2>6
<1>3. CASE ~(q <= h /\ Wanted(q, i))
  <2>1. PICK g \in Nat :
            (q <= h /\ Wanted(q, e) => g = h + 1) /\ (q > h \/ ~Wanted(q, e) => g = h)
    BY h + 1 \in Nat
  <2>4. PICK a \in Nat : EndIs(q, g, a)
    BY EndMonotonic DEF EndIs
  <2>3. PICK x \in Nat : (i - a <= 1 => x = a) /\ (i - a > 1 => x = a + 2)
    BY a + 2 \in Nat
  <2>5. q <= h => ~Wanted(q, i)
    BY <1>3
  <2>6. /\ g # q /\ g <= t /\ a <= i /\ g >= h
        /\ Pull(Resting(q, z, h, e, i))
                = SoFar(StagesAt(q, z, h, i, LineIn(q, z, h, x, i)), Seg(Plain(q), a, x),
                        Between(q, h, g))
    <3>1. Unit(q, z, h, t, e, i, g, a, x)
      BY <1>1, <2>1, <2>3, <2>4, <2>5, Zenon DEF Unit
    <3> QED
      BY <3>1, Pulled
  <2>7. NextFrame(Resting(q, z, h, e, i)) = Gives(PipeOf(StagesAt(q, z, h, i, LineIn(q, z, h, x, i)), <<>>, <<>>),
                                     Seg(Plain(q), a, x), Between(q, h, g))
    BY <2>6, NextPulled DEF Resting
  <2>8. (q <= h => q < g) /\ (q > h => g = h)
    BY <1>1, <2>1
  <2> QED
    BY <2>1, <2>3, <2>4, <2>5, <2>6, <2>7, <2>8
<1> QED
  BY <1>2, <1>3

-----------------------------------------------------------------------------
\* The pipeline between two steps.
PipeNow(q, z, h, k, e, i) ==
    PipeOf(StagesAt(q, z, h, e, LineNow(q, z, h, k, e)), Seg(Wired(q, z), e, i), Between(q, h, k))

\* A frame, the one behind g items, has come through the pipeline and is to be dispatched.
Ready(q, z, t, h, g, x, i, c) ==
    /\ q \in Nat /\ z \in Nat /\ t \in Nat /\ h \in Nat /\ g \in Nat /\ x \in Nat
    /\ i \in Nat /\ c \in Nat /\ Order(q, z, t)
    /\ h <= g /\ g + 1 <= t /\ g # q
    /\ EndIs(q, g + 1, x) /\ x <= i /\ i <= c /\ c <= End(q, t)
    /\ q <= h => ~Wanted(q, i) /\ q < g
    /\ q > h => g = h

LEMMA ReadyFields ==
    ASSUME NEW q, NEW z, NEW t, NEW h, NEW g, NEW x, NEW i, NEW c, Ready(q, z, t, h, g, x, i, c)
    PROVE  /\ q \in Nat /\ z \in Nat /\ t \in Nat /\ h \in Nat /\ g \in Nat /\ x \in Nat
           /\ i \in Nat /\ c \in Nat /\ Order(q, z, t)
           /\ h <= g /\ g + 1 <= t /\ g # q
           /\ EndIs(q, g + 1, x) /\ x = End(q, g + 1) /\ x <= i /\ i <= c /\ c <= End(q, t)
           /\ q <= h => ~Wanted(q, i) /\ q < g
           /\ q > h => g = h
BY Zenon DEF Ready, EndIs

LEMMA BetweenNone ==
    ASSUME NEW q, NEW h \in Nat
    PROVE  Between(q, h, h) = <<>> /\ ItemsAfter(q, h, 0) = <<>>
BY DEF Between, ItemsAfter

\* What the handler of the frame makes of the pipeline is the pipeline after h2 items, the
\* frame and what the new stage stores at once.
Goes(q, z, t, g, i, c, d) ==
    \E h2, k2, e2 \in Nat :
        /\ g + 1 <= h2 /\ Places(q, t, h2, k2, e2, i, c)
        /\ d = Outcome(PipeNow(q, z, h2, k2, e2, i), Between(q, g + 1, h2))

PipeBefore(q, z, h, x, i) == PipeOf(StagesAt(q, z, h, i, LineIn(q, z, h, x, i)), <<>>, <<>>)

LEMMA AfterText ==
    ASSUME NEW q, NEW z, NEW t, NEW h, NEW g, NEW x, NEW i, NEW c, Ready(q, z, t, h, g, x, i, c),
           g + 1 # z, g + 1 # q
    PROVE  Goes(q, z, t, g, i, c, Outcome(PipeBefore(q, z, h, x, i), <<>>))
<1>0. /\ q \in Nat /\ z \in Nat /\ t \in Nat /\ h \in Nat /\ g \in Nat /\ x \in Nat
      /\ i \in Nat /\ c \in Nat /\ Order(q, z, t)
      /\ h <= g /\ g + 1 <= t /\ g # q
      /\ x = End(q, g + 1) /\ x <= i /\ i <= c /\ c <= End(q, t)
      /\ q <= h => ~Wanted(q, i) /\ q < g
      /\ q > h => g = h
  BY ReadyFields
<1>1. PICK n \in Nat : n = g + 1
  BY <1>0
<1>2. (z <= n <=> z <= h) /\ (q <= n <=> q <= h)
  BY <1>0, <1>1 DEF Order
<1>3. /\ \A l : StagesAt(q, z, n, i, l) = StagesAt(q, z, h, i, l)
      /\ LineIn(q, z, n, x, i) = LineIn(q, z, h, x, i)
  BY <1>2, Zenon DEF StagesAt, LineIn, LineStream
<1>4. q <= n => ~Wanted(q, i)
  BY <1>0, <1>2
<1>5. LineNow(q, z, n, n, i) = LineIn(q, z, n, x, i)
  BY <1>0, <1>1, <1>4, Zenon DEF LineNow
<1>6. Seg(Wired(q, z), i, i) = <<>> /\ Between(q, n, n) = <<>>
  BY <1>0, SegEmpty, BetweenNone
<1>7. PipeNow(q, z, n, n, i, i) = PipeBefore(q, z, h, x, i)
  BY <1>3, <1>5, <1>6, Zenon DEF PipeNow, PipeBefore
<1>8. Places(q, t, n, n, i, i, c)
  BY <1>0, <1>1, <1>2 DEF Places
<1>9. Outcome(PipeBefore(q, z, h, x, i), <<>>)
        = Outcome(PipeNow(q, z, n, n, i, i), Between(q, g + 1, n))
  BY <1>1, <1>6, <1>7, Zenon
<1>10. g + 1 <= n
  BY <1>1
<1> QED
  BY <1>0, <1>8, <1>9, <1>10, Zenon DEF Goes

LEMMA AfterZon ==
    ASSUME NEW q, NEW z, NEW t, NEW h, NEW g, NEW x, NEW i, NEW c, Ready(q, z, t, h, g, x, i, c),
           g + 1 = z
    PROVE  Goes(q, z, t, g, i, c, Prepend(InflateStage, PipeBefore(q, z, h, x, i)))
<1>0. /\ q \in Nat /\ z \in Nat /\ t \in Nat /\ h \in Nat /\ g \in Nat /\ x \in Nat
      /\ i \in Nat /\ c \in Nat /\ Order(q, z, t)
      /\ h <= g /\ g + 1 <= t /\ g # q
      /\ x = End(q, g + 1) /\ x <= i /\ i <= c /\ c <= End(q, t)
      /\ q <= h => ~Wanted(q, i) /\ q < g
      /\ q > h => g = h
  BY ReadyFields
<1>1. z < q /\ q > h /\ g = h /\ z > h /\ q > z /\ ~(q <= z) /\ z <= z
  BY <1>0 DEF Order
<1>2. x = End(q, z)
  BY <1>0
<1>3. PipeBefore(q, z, h, x, i) = PipeOf(<<LineAt(Wired(q, z), x, i)>>, <<>>, <<>>)
  <2>1. \A l : StagesAt(q, z, h, i, l) = <<l>>
    BY <1>0, <1>1, StagesAre
  <2>2. LineIn(q, z, h, x, i) = LineAt(Wired(q, z), x, i)
    BY <1>0, <1>1, LineStreamIs DEF LineIn
  <2> QED
    BY <2>1, <2>2, Zenon DEF PipeBefore
<1>4. Prepend(InflateStage, PipeBefore(q, z, h, x, i))
        = Outcome(PipeOf(<<InflateStage, LineStage>>, Cat(Seg(Wired(q, z), x, i), <<>>), <<>>), <<>>)
  BY <1>3, PrependIs
<1>5. Cat(Seg(Wired(q, z), x, i), <<>>) = Seg(Wired(q, z), x, i)
  <2>1. Seg(Wired(q, z), x, i) \in Seq(AnyByte)
    BY <1>0, WiredSeg
  <2> QED
    BY <2>1, ConcatEmptySeq DEF Cat
<1>6. LineNow(q, z, z, z, x) = LineStage
  <2>1. LineNow(q, z, z, z, x) = LineIn(q, z, z, x, x)
    BY <1>1, <1>2, Zenon DEF LineNow
  <2>2. LineIn(q, z, z, x, x) = LineStage
    BY <1>0, LineBegun DEF LineIn
  <2> QED
    BY <2>1, <2>2
<1>7. StagesAt(q, z, z, x, LineStage) = <<InflateStage, LineStage>>
  BY <1>1, Zenon DEF StagesAt
<1>8. Between(q, z, z) = <<>>
  BY <1>0, BetweenNone
<1>9. PipeNow(q, z, z, z, x, i) = PipeOf(<<InflateStage, LineStage>>, Seg(Wired(q, z), x, i), <<>>)
  BY <1>6, <1>7, <1>8, Zenon DEF PipeNow
<1>10. Places(q, t, z, z, x, i, c)
  BY <1>0, <1>1, <1>2 DEF Places
<1>11. g + 1 <= z /\ g + 1 = z
  BY <1>0
<1>12. Prepend(InflateStage, PipeBefore(q, z, h, x, i))
        = Outcome(PipeNow(q, z, z, z, x, i), Between(q, g + 1, z))
  BY <1>4, <1>5, <1>8, <1>9, <1>11, Zenon
<1> QED
  BY <1>0, <1>10, <1>11, <1>12, Zenon DEF Goes

LEMMA CountedTakes ==
    ASSUME NEW q \in Nat, NEW e \in Nat, EndIs(q, q, e), NEW i \in Nat, e <= i
    PROVE  /\ Wanted(q, i) => Push(CountedStage, Seg(Plain(q), e, i))
                                = Result(CountedAt(q, i), Seg(Plain(q), i, i), <<>>)
           /\ ~Wanted(q, i) => Push(CountedStage, Seg(Plain(q), e, i))
                                 = Result(CountedAt(q, i), Seg(Plain(q), End(q, q + 1), i),
                                          <<Item(q, q + 1)>>)
<1>0. BlobLen \in Nat /\ End(q, q) = 2 * q /\ End(q, q + 1) = 2 * q + BlobLen
  BY Numbers, BlobAt
<1>1. e = 2 * q
  BY <1>0 DEF EndIs
<1>2. Wanted(q, e) /\ CountedStage = CountedAt(q, e)
  BY <1>1, CountedBegins
<1>3. 2 * q <= e
  BY <1>1
<1>4. ASSUME NEW w \in Nat, Wanted(q, i) => w = i, ~Wanted(q, i) => w = 2 * q + BlobLen
      PROVE  Push(CountedAt(q, e), Seg(Plain(q), e, i))
            = Result(CountedAt(q, i), Seg(Plain(q), w, i),
                     IF Wanted(q, e) /\ ~Wanted(q, i) THEN <<Item(q, q + 1)>> ELSE <<>>)
  BY <1>2, <1>3, <1>4, PushCountedIs
<1>5. ASSUME Wanted(q, i)
      PROVE  Push(CountedStage, Seg(Plain(q), e, i))
                = Result(CountedAt(q, i), Seg(Plain(q), i, i), <<>>)
  BY <1>2, <1>4, <1>5, Zenon
<1>6. ASSUME ~Wanted(q, i)
      PROVE  Push(CountedStage, Seg(Plain(q), e, i))
                = Result(CountedAt(q, i), Seg(Plain(q), End(q, q + 1), i), <<Item(q, q + 1)>>)
  <2>1. 2 * q + BlobLen \in Nat
    BY <1>0
  <2> QED
    BY <1>0, <1>2, <1>4, <1>6, <2>1, Zenon
<1> QED
  BY <1>5, <1>6

LEMMA AfterHsnd1 ==
    ASSUME NEW q, NEW z, NEW t, NEW h, NEW g, NEW x, NEW i, NEW c, Ready(q, z, t, h, g, x, i, c),
           g + 1 = q, z > h
    PROVE  Goes(q, z, t, g, i, c, InsertBeforeTerminal(CountedStage, PipeBefore(q, z, h, x, i)))
<1>0. /\ q \in Nat /\ z \in Nat /\ t \in Nat /\ h \in Nat /\ g \in Nat /\ x \in Nat
      /\ i \in Nat /\ c \in Nat /\ Order(q, z, t)
      /\ h <= g /\ g + 1 <= t /\ g # q
      /\ x = End(q, g + 1) /\ x <= i /\ i <= c /\ c <= End(q, t)
      /\ q <= h => ~Wanted(q, i) /\ q < g
      /\ q > h => g = h
  BY ReadyFields
<1>1. q > h /\ g = h /\ ~(z <= q) /\ q <= q /\ z > q
  BY <1>0 DEF Order
<1>2. x = End(q, q) /\ End(q, q) = 2 * q
  BY <1>0, BlobAt
<1>b. Wanted(q, x) /\ CountedStage = CountedAt(q, x)
  BY <1>0, <1>2, CountedBegins
<1>3. PipeBefore(q, z, h, x, i) = PipeOf(<<LineAt(Wired(q, z), x, i)>>, <<>>, <<>>)
  <2>1. \A l : StagesAt(q, z, h, i, l) = <<l>>
    BY <1>0, <1>1, StagesAre
  <2>2. LineIn(q, z, h, x, i) = LineAt(Wired(q, z), x, i)
    BY <1>0, <1>1, LineStreamIs DEF LineIn
  <2> QED
    BY <2>1, <2>2, Zenon DEF PipeBefore
<1>4. InsertBeforeTerminal(CountedStage, PipeBefore(q, z, h, x, i))
        = Outcome(PipeOf(<<CountedStage, LineStage>>, Cat(Seg(Wired(q, z), x, i), <<>>), <<>>), <<>>)
  <2>1. PipeOf(<<LineAt(Wired(q, z), x, i)>>, <<>>, <<>>).stages = <<LineAt(Wired(q, z), x, i)>>
    BY PipeOfFields
  <2>2. \A l : Len(<<l>>) < 2
    OBVIOUS
  <2>3. Len(PipeBefore(q, z, h, x, i).stages) < 2
    BY <1>3, <2>1, <2>2, Zenon
  <2>4. InsertBeforeTerminal(CountedStage, PipeBefore(q, z, h, x, i))
            = Prepend(CountedStage, PipeBefore(q, z, h, x, i))
    BY <2>3, Zenon DEF InsertBeforeTerminal
  <2> QED
    BY <1>3, <2>4, PrependIs
<1>5. Cat(Seg(Wired(q, z), x, i), <<>>) = Seg(Wired(q, z), x, i)
  <2>1. Seg(Wired(q, z), x, i) \in Seq(AnyByte)
    BY <1>0, WiredSeg
  <2> QED
    BY <2>1, ConcatEmptySeq DEF Cat
<1>6. LineNow(q, z, q, q, x) = LineStage
  <2>1. LineNow(q, z, q, q, x) = LineIn(q, z, q, End(q, q + 1), End(q, q + 1))
    BY <1>1, <1>b, Zenon DEF LineNow
  <2>3. End(q, q + 1) \in Nat
    BY <1>0, q + 1 \in Nat, EndMonotonic
  <2>2. LineIn(q, z, q, End(q, q + 1), End(q, q + 1)) = LineStage
    BY <2>3, LineBegun DEF LineIn
  <2> QED
    BY <2>1, <2>2
<1>7. StagesAt(q, z, q, x, LineStage) = <<CountedStage, LineStage>>
  BY <1>1, <1>b, Zenon DEF StagesAt
<1>8. Between(q, q, q) = <<>>
  BY <1>0, BetweenNone
<1>9. PipeNow(q, z, q, q, x, i) = PipeOf(<<CountedStage, LineStage>>, Seg(Wired(q, z), x, i), <<>>)
  BY <1>6, <1>7, <1>8, Zenon DEF PipeNow
<1>10. Places(q, t, q, q, x, i, c)
  BY <1>0, <1>1, <1>2, <1>b DEF Places
<1>11. g + 1 <= q /\ g + 1 = q
  BY <1>0
<1>12. InsertBeforeTerminal(CountedStage, PipeBefore(q, z, h, x, i))
        = Outcome(PipeNow(q, z, q, q, x, i), Between(q, g + 1, q))
  BY <1>4, <1>5, <1>8, <1>9, <1>11, Zenon
<1> QED
  BY <1>0, <1>10, <1>11, <1>12, Zenon DEF Goes

\* The same behind the inflate stage, while the filter is not complete ...
LEMMA AfterHsnd2 ==
    ASSUME NEW q, NEW z, NEW t, NEW h, NEW g, NEW x, NEW i, NEW c, Ready(q, z, t, h, g, x, i, c),
           g + 1 = q, z <= h, Wanted(q, i)
    PROVE  Goes(q, z, t, g, i, c, InsertBeforeTerminal(CountedStage, PipeBefore(q, z, h, x, i)))
<1>0. /\ q \in Nat /\ z \in Nat /\ t \in Nat /\ h \in Nat /\ g \in Nat /\ x \in Nat
      /\ i \in Nat /\ c \in Nat /\ Order(q, z, t)
      /\ h <= g /\ g + 1 <= t /\ g # q
      /\ x = End(q, g + 1) /\ x <= i /\ i <= c /\ c <= End(q, t)
      /\ q <= h => ~Wanted(q, i) /\ q < g
      /\ q > h => g = h
  BY ReadyFields
<1>1. q > h /\ g = h /\ z <= q /\ q <= q /\ ~(q <= h) /\ q >= 1
  BY <1>0 DEF Order
<1>2. x = 2 * q
  BY <1>0, BlobAt
<1>b. Wanted(q, x) /\ CountedStage = CountedAt(q, x)
  BY <1>0, <1>2, CountedBegins
<1>3. PipeBefore(q, z, h, x, i) = PipeOf(<<InflateStage, LineAt(Plain(q), x, i)>>, <<>>, <<>>)
  <2>1. \A l : StagesAt(q, z, h, i, l) = <<InflateStage, l>>
    BY <1>0, <1>1, StagesAre
  <2>2. LineIn(q, z, h, x, i) = LineAt(Plain(q), x, i)
    BY <1>0, <1>1, LineStreamIs DEF LineIn
  <2> QED
    BY <2>1, <2>2, Zenon DEF PipeBefore
<1>s. Seg(Plain(q), i, i) = <<>> /\ Seg(Wired(q, z), i, i) = <<>>
  BY <1>0, SegEmpty
<1>4. Push(CountedStage, Seg(Plain(q), x, i)) = Result(CountedAt(q, i), <<>>, <<>>)
  <2>1. EndIs(q, q, x)
    BY <1>0 DEF EndIs
  <2>2. Push(CountedStage, Seg(Plain(q), x, i)) = Result(CountedAt(q, i), Seg(Plain(q), i, i), <<>>)
    <3>1. q \in Nat /\ x \in Nat /\ i \in Nat /\ x <= i
      BY <1>0
    <3> QED
      BY <2>1, <3>1, CountedTakes
  <2> QED
    BY <1>s, <2>2, Zenon
<1>e. PICK f \in Nat : EndIs(q, q + 1, f)
  BY <1>0, q + 1 \in Nat, EndMonotonic DEF EndIs
<1>5. Lines(<<>>) = <<>> /\ Rest(<<>>) = Seg(Plain(q), f, f)
  <2>1. Seg(Plain(q), f, f) = <<>>
    BY SegEmpty
  <2>2. 0 \in Nat /\ 0 = (f - f) \div 2 /\ f = f + 2 * 0 /\ f <= f
    OBVIOUS
  <2>3. Lines(Seg(Plain(q), f, f)) = ItemsAfter(q, q + 1, 0)
        /\ Rest(Seg(Plain(q), f, f)) = Seg(Plain(q), f, f)
    BY <1>0, <1>1, <1>e, <2>2, LinesAre
  <2>4. ItemsAfter(q, q + 1, 0) = <<>>
    BY <1>0, q + 1 \in Nat, BetweenNone
  <2> QED
    BY <2>1, <2>3, <2>4, Zenon
<1>6. InsertBeforeTerminal(CountedStage, PipeBefore(q, z, h, x, i))
        = Outcome(PipeOf(<<InflateStage, CountedAt(q, i), LineAt(Plain(q), f, f)>>, <<>>,
                         <<>> \o Lines(<<>>)), <<>>)
  <2>1. Len(Rest(<<>>)) = 0
    BY <1>5, SegEmpty
  <2>2. Len(Rest(<<>>)) \in Nat /\ Len(Rest(<<>>)) <= MaxReadLen
    BY <2>1, Numbers
  <2>3. \A k : ~(k \in DOMAIN Lines(<<>>))
    BY <1>5
  <2> QED
    BY <1>3, <1>4, <1>5, <2>2, <2>3, InsertIs
<1>7. <<>> \o Lines(<<>>) = <<>>
  BY <1>5
<1>8. LineNow(q, z, q, q, i) = LineAt(Plain(q), f, f)
  <2>1. LineNow(q, z, q, q, i) = LineIn(q, z, q, f, f)
    BY <1>1, <1>e, Zenon DEF LineNow, EndIs
  <2>2. LineStream(q, z, q) = Plain(q)
    BY <1>1, Zenon DEF LineStream
  <2> QED
    BY <2>1, <2>2, Zenon DEF LineIn
<1>9. \A l : StagesAt(q, z, q, i, l) = <<InflateStage, CountedAt(q, i), l>>
  BY <1>1, Zenon DEF StagesAt
<1>10. Between(q, q, q) = <<>>
  BY <1>0, BetweenNone
<1>11. PipeNow(q, z, q, q, i, i)
        = PipeOf(<<InflateStage, CountedAt(q, i), LineAt(Plain(q), f, f)>>, <<>>, <<>>)
  BY <1>8, <1>9, <1>10, <1>s, Zenon DEF PipeNow
<1>12. Places(q, t, q, q, i, i, c)
  BY <1>0, <1>1, <1>2, <1>b, BlobAt DEF Places
<1>13. g + 1 <= q /\ g + 1 = q
  BY <1>0
<1>14. InsertBeforeTerminal(CountedStage, PipeBefore(q, z, h, x, i))
        = Outcome(PipeNow(q, z, q, q, i, i), Between(q, g + 1, q))
  BY <1>6, <1>7, <1>10, <1>11, <1>13, Zenon
<1> QED
  BY <1>0, <1>12, <1>13, <1>14, Zenon DEF Goes

LEMMA LineItem ==
    ASSUME NEW q \in Nat, NEW m \in Nat, NEW k \in 1..m
    PROVE  Len(ItemsAfter(q, q + 1, m)[k]) = 2
<1>1. ItemsAfter(q, q + 1, m)[k] = Item(q, q + 1 + k)
  BY DEF ItemsAfter
<1>2. Item(q, q + 1 + k) = Frame(q + 1 + k - 1)
  BY DEF Item
<1>3. \A n : Len(Frame(n)) = 2
  BY DEF Frame
<1> QED
  BY <1>1, <1>2, <1>3, Zenon

\* ... and when it is complete: what the line stage held behind it are the next frames.
LEMMA AfterHsnd3 ==
    ASSUME NEW q, NEW z, NEW t, NEW h, NEW g, NEW x, NEW i, NEW c, Ready(q, z, t, h, g, x, i, c),
           g + 1 = q, z <= h, ~Wanted(q, i)
    PROVE  Goes(q, z, t, g, i, c, InsertBeforeTerminal(CountedStage, PipeBefore(q, z, h, x, i)))
<1>0. /\ q \in Nat /\ z \in Nat /\ t \in Nat /\ h \in Nat /\ g \in Nat /\ x \in Nat
      /\ i \in Nat /\ c \in Nat /\ Order(q, z, t)
      /\ h <= g /\ g + 1 <= t /\ g # q
      /\ x = End(q, g + 1) /\ x <= i /\ i <= c /\ c <= End(q, t)
      /\ q <= h => ~Wanted(q, i) /\ q < g
      /\ q > h => g = h
  BY ReadyFields
<1>1. q > h /\ g = h /\ z <= q /\ q <= q /\ ~(q <= h) /\ q >= 1
  BY <1>0 DEF Order
<1>n. /\ BlobLen \in Nat /\ End(q, q + 1) = 2 * q + BlobLen /\ MaxReadLen \in Nat /\ MaxReadLen >= 1
      /\ End(q, t) \in Nat
  BY <1>0, Numbers, BlobAt, EndMonotonic
<1>3. PipeBefore(q, z, h, x, i) = PipeOf(<<InflateStage, LineAt(Plain(q), x, i)>>, <<>>, <<>>)
  <2>1. \A l : StagesAt(q, z, h, i, l) = <<InflateStage, l>>
    BY <1>0, <1>1, StagesAre
  <2>2. LineIn(q, z, h, x, i) = LineAt(Plain(q), x, i)
    BY <1>0, <1>1, LineStreamIs DEF LineIn
  <2> QED
    BY <2>1, <2>2, Zenon DEF PipeBefore
<1>s. Seg(Wired(q, z), i, i) = <<>>
  BY <1>0, SegEmpty
<1>e. PICK f \in Nat : EndIs(q, q + 1, f)
  BY <1>0, q + 1 \in Nat, EndMonotonic DEF EndIs
<1>f. f <= i
  BY <1>0, <1>n, <1>e DEF Wanted, EndIs
<1>4. Push(CountedStage, Seg(Plain(q), x, i))
        = Result(CountedAt(q, i), Seg(Plain(q), f, i), <<Item(q, q + 1)>>)
  <2>1. EndIs(q, q, x)
    BY <1>0 DEF EndIs
  <2>3. q \in Nat /\ x \in Nat /\ i \in Nat /\ x <= i
    BY <1>0
  <2>2. Push(CountedStage, Seg(Plain(q), x, i))
            = Result(CountedAt(q, i), Seg(Plain(q), End(q, q + 1), i), <<Item(q, q + 1)>>)
    BY <2>1, <2>3, CountedTakes
  <2> QED
    BY <1>e, <2>2, Zenon DEF EndIs
<1>m. PICK m \in Nat : m = (i - f) \div 2
  BY <1>0, <1>f
<1>c. PICK b \in Nat : b = f + 2 * m
  BY f + 2 * m \in Nat
<1>5. /\ Lines(Seg(Plain(q), f, i)) = ItemsAfter(q, q + 1, m)
      /\ Rest(Seg(Plain(q), f, i)) = Seg(Plain(q), b, i)
      /\ EndIs(q, q + 1 + m, b) /\ b <= i /\ i - b <= 1
  BY <1>0, <1>1, <1>e, <1>f, <1>m, <1>c, LinesAre
<1>6. InsertBeforeTerminal(CountedStage, PipeBefore(q, z, h, x, i))
        = Outcome(PipeOf(<<InflateStage, CountedAt(q, i), LineAt(Plain(q), b, i)>>, <<>>,
                         <<>> \o Lines(Seg(Plain(q), f, i))), <<Item(q, q + 1)>>)
  <2> DEFINE u == Seg(Plain(q), f, i)
  <2>1. Len(Rest(u)) = i - b
    BY <1>0, <1>5, SegLen
  <2>2. Len(Rest(u)) \in Nat /\ Len(Rest(u)) <= MaxReadLen
    BY <1>0, <1>n, <1>5, <2>1
  <2>3. DOMAIN ItemsAfter(q, q + 1, m) = 1..m
    BY DEF ItemsAfter
  <2>4. \A k \in DOMAIN Lines(u) : Len(Lines(u)[k]) = 2
    BY <1>0, <1>5, <2>3, LineItem
  <2>5. 2 \in Nat /\ 2 <= MaxReadLen + 1
    BY <1>n
  <2>6. \A k \in DOMAIN Lines(u) : Len(Lines(u)[k]) \in Nat /\ Len(Lines(u)[k]) <= MaxReadLen + 1
    BY <2>4, <2>5, Zenon
  <2>7. Rest(u) = Seg(Plain(q), b, i)
    BY <1>5
  <2> HIDE DEF u
  <2>8. Push(CountedStage, Seg(Plain(q), x, i)) = Result(CountedAt(q, i), u, <<Item(q, q + 1)>>)
    BY <1>4 DEF u
  <2>9. InsertBeforeTerminal(CountedStage, PipeOf(<<InflateStage, LineAt(Plain(q), x, i)>>, <<>>, <<>>))
        = Outcome(PipeOf(<<InflateStage, CountedAt(q, i), LineAt(Plain(q), b, i)>>, <<>>,
                         <<>> \o Lines(u)), <<Item(q, q + 1)>>)
    BY <2>2, <2>6, <2>7, <2>8, InsertIs
  <2> QED
    BY <1>3, <2>9, Zenon DEF u
<1>k. PICK k \in Nat : k = q + 1 + m
  BY <1>0, q + 1 + m \in Nat
<1>j. PICK h2 \in Nat : h2 = q + 1
  BY <1>0, q + 1 \in Nat
<1>7. <<>> \o Lines(Seg(Plain(q), f, i)) = Between(q, h2, k)
  <2>1. ItemsAfter(q, q + 1, m) \in Seq(Seq(AnyByte))
    BY <1>0, q + 1 \in Nat, ItemsType
  <2>2. <<>> \o ItemsAfter(q, q + 1, m) = ItemsAfter(q, q + 1, m)
    BY <2>1, ConcatEmptySeq
  <2>3. k - h2 = m
    BY <1>0, <1>k, <1>j
  <2> QED
    BY <1>5, <1>j, <2>2, <2>3, Zenon DEF Between
<1>8. LineNow(q, z, h2, k, i) = LineAt(Plain(q), b, i)
  <2>1. LineNow(q, z, h2, k, i) = LineIn(q, z, h2, b, i)
    BY <1>5, <1>k, Zenon DEF LineNow, EndIs
  <2>2. z <= h2
    BY <1>0, <1>1, <1>j
  <2>3. LineStream(q, z, h2) = Plain(q)
    BY <2>2, Zenon DEF LineStream
  <2> QED
    BY <2>1, <2>3, Zenon DEF LineIn
<1>9. \A l : StagesAt(q, z, h2, i, l) = <<InflateStage, CountedAt(q, i), l>>
  <2>1. z <= h2 /\ q <= h2
    BY <1>0, <1>1, <1>j
  <2> QED
    BY <2>1, Zenon DEF StagesAt
<1>10. Between(q, g + 1, h2) = <<Item(q, q + 1)>>
  <2>1. g + 1 = q /\ h2 - q = 1
    BY <1>0, <1>j
  <2>2. ItemsAfter(q, q, 1) = <<Item(q, q + 1)>>
    BY <1>0 DEF ItemsAfter
  <2> QED
    BY <2>1, <2>2, Zenon DEF Between
<1>11. PipeNow(q, z, h2, k, i, i)
        = PipeOf(<<InflateStage, CountedAt(q, i), LineAt(Plain(q), b, i)>>, <<>>, Between(q, h2, k))
  BY <1>8, <1>9, <1>s, Zenon DEF PipeNow
<1>12. Places(q, t, h2, k, i, i, c)
  <2>1. b = End(q, k)
    BY <1>5, <1>k DEF EndIs
  <2>2. k <= t
    <3> SUFFICES ASSUME t < k PROVE FALSE
      BY <1>0
    <3>1. End(q, t) < End(q, k)
      BY <1>0, EndMonotonic
    <3> QED
      BY <1>0, <1>n, <1>5, <2>1, <3>1
  <2>3. /\ h2 <= k /\ k > q /\ q < h2 /\ q <= h2 /\ i <= i /\ i <= c /\ c <= End(q, t)
    BY <1>0, <1>k, <1>j
  <2> QED
    BY <1>5, <2>1, <2>2, <2>3, Zenon DEF Places
<1>13. g + 1 <= h2
  BY <1>0, <1>j
<1>14. InsertBeforeTerminal(CountedStage, PipeBefore(q, z, h, x, i))
        = Outcome(PipeNow(q, z, h2, k, i, i), Between(q, g + 1, h2))
  BY <1>6, <1>7, <1>10, <1>11, Zenon
<1> QED
  BY <1>0, <1>12, <1>13, <1>14, Zenon DEF Goes

-----------------------------------------------------------------------------
\* The items up to the end of a run of them.
LEMMA ItemsConcat ==
    ASSUME NEW q \in Nat, NEW a \in Nat, NEW n \in Nat, NEW m \in Nat
    PROVE  Cat(ItemsAfter(q, a, n), ItemsAfter(q, a + n, m)) = ItemsAfter(q, a, n + m)
<1> DEFINE s == ItemsAfter(q, a, n)
           t == ItemsAfter(q, a + n, m)
           r == ItemsAfter(q, a, n + m)
<1>1. s \in Seq(Seq(AnyByte)) /\ Len(s) = n
  BY ItemsType
<1>2. t \in Seq(Seq(AnyByte)) /\ Len(t) = m
  BY a + n \in Nat, ItemsType
<1>3. r \in Seq(Seq(AnyByte)) /\ Len(r) = n + m
  BY n + m \in Nat, ItemsType
<1>4. /\ \A j \in 1..n : s[j] = Item(q, a + j)
      /\ \A j \in 1..m : t[j] = Item(q, a + n + j)
      /\ \A j \in 1..(n + m) : r[j] = Item(q, a + j)
  BY DEF ItemsAfter
<1> HIDE DEF s, t, r
<1>5. /\ s \o t \in Seq(Seq(AnyByte)) /\ Len(s \o t) = Len(s) + Len(t)
      /\ \A j \in 1..(Len(s) + Len(t)) :
            (s \o t)[j] = IF j <= Len(s) THEN s[j] ELSE t[j - Len(s)]
  BY <1>1, <1>2, ConcatProperties
<1>6. ASSUME NEW j \in 1..(n + m)
      PROVE  (s \o t)[j] = r[j]
  <2>0. (s \o t)[j] = IF j <= n THEN s[j] ELSE t[j - n]
    BY <1>1, <1>2, <1>5
  <2>1. CASE j <= n
    BY <1>4, <2>0, <2>1
  <2>2. CASE ~(j <= n)
    <3>1. j - n \in 1..m /\ a + n + (j - n) = a + j
      BY <2>2
    <3> QED
      BY <1>4, <2>0, <2>2, <3>1
  <2> QED
    BY <2>1, <2>2
<1>7. Len(s \o t) = Len(r)
  BY <1>1, <1>2, <1>3, <1>5
<1>8. s \o t = r
  BY <1>3, <1>5, <1>6, <1>7, SeqEqual
<1> QED
  BY <1>8, Zenon DEF Cat, s, t, r

LEMMA BetweenConcat ==
    ASSUME NEW q \in Nat, NEW h \in Nat, NEW g \in Nat, h <= g
    PROVE  Cat(ItemsAfter(q, 0, h), Between(q, h, g)) = ItemsAfter(q, 0, g)
<1>1. PICK m \in Nat : m = g - h
  BY g - h \in Nat
<1>2. Cat(ItemsAfter(q, 0, h), ItemsAfter(q, 0 + h, m)) = ItemsAfter(q, 0, h + m)
  BY ItemsConcat
<1>3. 0 + h = h /\ h + m = g
  BY <1>1
<1> QED
  BY <1>1, <1>2, <1>3, Zenon DEF Between

LEMMA BetweenHead ==
    ASSUME NEW q \in Nat, NEW h \in Nat, NEW k \in Nat, h < k
    PROVE  /\ Between(q, h, k) # <<>> /\ Head(Between(q, h, k)) = Item(q, h + 1)
           /\ Tail(Between(q, h, k)) = Between(q, h + 1, k)
<1> DEFINE s == Between(q, h, k)
           t == Between(q, h + 1, k)
           m == k - h
<1>0. m \in Nat /\ m >= 1 /\ m - 1 \in Nat /\ k - (h + 1) = m - 1 /\ h + 1 \in Nat
  OBVIOUS
<1>1. s \in Seq(Seq(AnyByte)) /\ Len(s) = m
  BY <1>0, ItemsType DEF Between
<1>2. t \in Seq(Seq(AnyByte)) /\ Len(t) = m - 1
  BY <1>0, ItemsType DEF Between
<1>3. \A j \in 1..m : s[j] = Item(q, h + j)
  BY DEF Between, ItemsAfter
<1>4. \A j \in 1..(m - 1) : t[j] = Item(q, h + 1 + j)
  BY <1>0 DEF Between, ItemsAfter
<1> HIDE DEF s, t, m
<1>5. s # <<>>
  BY <1>0, <1>1
<1>6. Head(s) = s[1]
  BY <1>1, <1>5, HeadTailProperties
<1>7. Tail(s) \in Seq(Seq(AnyByte)) /\ Len(Tail(s)) = m - 1 /\ \A j \in 1..(m - 1) : Tail(s)[j] = s[j + 1]
  BY <1>1, <1>5, HeadTailProperties
<1>8. ASSUME NEW j \in 1..(m - 1)
      PROVE  Tail(s)[j] = t[j]
  <2>1. j + 1 \in 1..m /\ h + (j + 1) = h + 1 + j
    BY <1>0
  <2> QED
    BY <1>3, <1>4, <1>7, <2>1
<1>9. Tail(s) = t
  BY <1>2, <1>7, <1>8, SeqEqual
<1>10. Head(s) = Item(q, h + 1)
  BY <1>0, <1>3, <1>6
<1> QED
  BY <1>5, <1>9, <1>10, Zenon DEF s, t

\* What is handed over: what was before, what the stages stored, the frame and what its
\* handler stored.
Handed(q, h, g, n) ==
    ItemsAfter(q, 0, h) \o Between(q, h, g) \o <<Item(q, g + 1)>> \o Between(q, g + 1, n)

LEMMA HandedIs ==
    ASSUME NEW q \in Nat, NEW h \in Nat, NEW g \in Nat, NEW n \in Nat, h <= g, g + 1 <= n
    PROVE  Handed(q, h, g, n) = ItemsAfter(q, 0, n)
<1>1. Cat(ItemsAfter(q, 0, h), Between(q, h, g)) = ItemsAfter(q, 0, g)
  BY BetweenConcat
<1>2. Between(q, g, g + 1) = <<Item(q, g + 1)>>
  <2>1. (g + 1) - g = 1
    OBVIOUS
  <2>2. ItemsAfter(q, g, 1) = <<Item(q, g + 1)>>
    BY DEF ItemsAfter
  <2> QED
    BY <2>1, <2>2, Zenon DEF Between
<1>3. Cat(ItemsAfter(q, 0, g), Between(q, g, g + 1)) = ItemsAfter(q, 0, g + 1)
  BY g + 1 \in Nat, g <= g + 1, BetweenConcat
<1>4. Cat(ItemsAfter(q, 0, g + 1), Between(q, g + 1, n)) = ItemsAfter(q, 0, n)
  BY g + 1 \in Nat, BetweenConcat
<1> QED
  BY <1>1, <1>2, <1>3, <1>4, Zenon DEF Cat, Handed

-----------------------------------------------------------------------------
\* The peer sends another message: the places of what it sent before stay the same.
Longer(q, z, t, y, w) ==
    /\ q \in Nat /\ z \in Nat /\ t \in Nat /\ y \in Nat /\ w \in Nat
    /\ Order(q, z, t)
    /\ y = q \/ (t < q /\ t < y)
    /\ w = z \/ (t < z /\ t < w /\ t < q)

LEMMA LongerEnd ==
    ASSUME NEW q, NEW z, NEW t, NEW y, NEW w, Longer(q, z, t, y, w), NEW j \in Nat, j <= t
    PROVE  End(y, j) = End(q, j) /\ Item(y, j) = Item(q, j)
<1>1. y = q \/ (j <= q /\ j <= y)
  BY DEF Longer
<1>2. CASE y = q
  BY <1>2
<1>3. CASE j <= q /\ j <= y
  BY <1>3 DEF End, Item
<1> QED
  BY <1>1, <1>2, <1>3

LEMMA LongerItems ==
    ASSUME NEW q, NEW z, NEW t, NEW y, NEW w, Longer(q, z, t, y, w),
           NEW a \in Nat, NEW n \in Nat, a + n <= t
    PROVE  ItemsAfter(y, a, n) = ItemsAfter(q, a, n)
<1>1. \A j \in 1..n : a + j \in Nat /\ a + j <= t
  BY DEF Longer
<1>2. \A j \in 1..n : Item(y, a + j) = Item(q, a + j)
  BY <1>1, LongerEnd
<1> QED
  BY <1>2 DEF ItemsAfter

LEMMA LongerBetween ==
    ASSUME NEW q, NEW z, NEW t, NEW y, NEW w, Longer(q, z, t, y, w),
           NEW h \in Nat, NEW k \in Nat, h <= k, k <= t
    PROVE  Between(y, h, k) = Between(q, h, k)
<1>1. PICK n \in Nat : n = k - h
  BY k - h \in Nat
<1>2. h + n <= t
  BY <1>1
<1> QED
  BY <1>1, <1>2, LongerItems DEF Between

LEMMA LongerPlain ==
    ASSUME NEW q, NEW z, NEW t, NEW y, NEW w, Longer(q, z, t, y, w), NEW p \in Nat, p <= End(q, t)
    PROVE  Plain(y)[p] = Plain(q)[p]
<1>1. CASE y = q
  BY <1>1
<1>2. CASE t < q /\ t < y
  <2>1. End(q, t) = 2 * t /\ q \in Nat /\ y \in Nat /\ t \in Nat
    BY <1>2 DEF End, Longer
  <2>2. p <= 2 * q /\ p <= 2 * y
    BY <1>2, <2>1
  <2> QED
    BY <2>1, <2>2, PlainAt DEF ByteAt
<1> QED
  BY <1>1, <1>2 DEF Longer

LEMMA LongerWired ==
    ASSUME NEW q, NEW z, NEW t, NEW y, NEW w, Longer(q, z, t, y, w), NEW p \in Nat, p <= End(q, t)
    PROVE  Wired(y, w)[p] = Wired(q, z)[p]
<1>1. Plain(y)[p] = Plain(q)[p]
  BY LongerPlain
<1>2. q \in Nat /\ z \in Nat /\ y \in Nat /\ w \in Nat /\ t \in Nat
  BY DEF Longer
<1>5. p <= 2 * z \/ p > 2 * z
  BY <1>2
<1>6. Wired(y, z)[p] = Wired(q, z)[p]
  BY <1>1, <1>2, <1>5, WiredIs
<1>3. CASE w = z
  BY <1>3, <1>6
<1>4. CASE t < z /\ t < w /\ t < q
  <2>1. End(q, t) = 2 * t
    BY <1>2, <1>4 DEF End
  <2>2. p <= 2 * z /\ p <= 2 * w
    BY <1>2, <1>4, <2>1
  <2> QED
    BY <1>1, <1>2, <2>2, WiredIs
<1> QED
  BY <1>3, <1>4 DEF Longer

LEMMA LongerSeg ==
    ASSUME NEW q, NEW z, NEW t, NEW y, NEW w, Longer(q, z, t, y, w),
           NEW a \in Nat, NEW b \in Nat, b <= End(q, t)
    PROVE  /\ Seg(Plain(y), a, b) = Seg(Plain(q), a, b)
           /\ Seg(Wired(y, w), a, b) = Seg(Wired(q, z), a, b)
<1>0. End(q, t) \in Nat
  BY EndMonotonic DEF Longer
<1>1. \A p \in a+1..b : p \in Nat /\ p <= End(q, t)
  BY <1>0
<1>2. \A p \in a+1..b : Plain(y)[p] = Plain(q)[p]
  BY <1>1, LongerPlain
<1>3. \A p \in a+1..b : Wired(y, w)[p] = Wired(q, z)[p]
  BY <1>1, LongerWired
<1> QED
  BY <1>2, <1>3, SegSame

LEMMA LongerLine ==
    ASSUME NEW q, NEW z, NEW t, NEW y, NEW w, Longer(q, z, t, y, w), NEW h \in Nat, h <= t,
           NEW a \in Nat, NEW b \in Nat, b <= End(q, t)
    PROVE  LineIn(y, w, h, a, b) = LineIn(q, z, h, a, b)
<1>1. w <= h <=> z <= h
  BY DEF Longer
<1>2. Seg(LineStream(y, w, h), a, b) = Seg(LineStream(q, z, h), a, b)
  <2>1. /\ Seg(Plain(y), a, b) = Seg(Plain(q), a, b)
        /\ Seg(Wired(y, w), a, b) = Seg(Wired(q, z), a, b)
    BY LongerSeg
  <2> QED
    BY <1>1, <2>1, Zenon DEF LineStream
<1> QED
  BY <1>2, Zenon DEF LineIn, LineAt

LEMMA LongerPlaces ==
    ASSUME NEW q, NEW z, NEW t, NEW y, NEW w, Longer(q, z, t, y, w), NEW u \in Nat, t <= u,
           NEW h \in Nat, NEW k \in Nat, NEW e \in Nat, NEW i \in Nat, NEW c \in Nat,
           Places(q, t, h, k, e, i, c)
    PROVE  Places(y, u, h, k, e, i, c)
<1>0. q \in Nat /\ z \in Nat /\ t \in Nat /\ y \in Nat /\ w \in Nat
  BY DEF Longer
<1>p. /\ h <= k /\ k <= t
      /\ End(q, k) <= e /\ e <= i /\ i <= c /\ c <= End(q, t)
      /\ q <= h /\ Wanted(q, e) => k = q
      /\ q <= h /\ ~Wanted(q, e) => k > q
      /\ k > h => q < h
  BY Zenon DEF Places
<1>1. End(y, k) = End(q, k) /\ End(y, t) = End(q, t)
  BY <1>0, <1>p, LongerEnd
<1>2. End(y, t) \in Nat /\ End(y, u) \in Nat /\ End(y, t) <= End(y, u)
  BY <1>0, EndMonotonic
<1>3. c <= End(y, u)
  BY <1>p, <1>1, <1>2
<1>4. k <= u
  BY <1>0, <1>p
<1>5. y = q \/ (h < q /\ h < y)
  BY <1>0, <1>p DEF Longer
<1>6. CASE y = q
  BY <1>p, <1>1, <1>3, <1>4, <1>6, Zenon DEF Places
<1>7. CASE h < q /\ h < y
  <2>1. ~(y <= h) /\ ~(k > h)
    BY <1>0, <1>p, <1>7
  <2> QED
    BY <1>p, <1>1, <1>3, <1>4, <2>1, Zenon DEF Places
<1> QED
  BY <1>5, <1>6, <1>7

LEMMA LongerPipe ==
    ASSUME NEW q, NEW z, NEW t, NEW y, NEW w, Longer(q, z, t, y, w),
           NEW h \in Nat, NEW k \in Nat, NEW e \in Nat, NEW i \in Nat, NEW c \in Nat,
           Places(q, t, h, k, e, i, c)
    PROVE  PipeNow(y, w, h, k, e, i) = PipeNow(q, z, h, k, e, i)
<1>0. q \in Nat /\ z \in Nat /\ t \in Nat /\ y \in Nat /\ w \in Nat
  BY DEF Longer
<1>p. /\ h <= k /\ k <= t
      /\ End(q, k) <= e /\ e <= i /\ i <= c /\ c <= End(q, t)
      /\ q <= h /\ Wanted(q, e) => k = q
      /\ k > h => q < h
  BY Zenon DEF Places
<1>n. End(q, t) \in Nat /\ End(q, k) \in Nat /\ h <= t /\ e <= End(q, t) /\ i <= End(q, t)
  <2>1. End(q, t) \in Nat /\ End(q, k) \in Nat
    BY <1>0, EndMonotonic
  <2> QED
    BY <1>0, <1>p, <2>1
<1>1. (w <= h <=> z <= h) /\ (q <= h => y = q) /\ (y <= h <=> q <= h)
  BY <1>0, <1>n DEF Longer
<1>2. \A l : StagesAt(y, w, h, e, l) = StagesAt(q, z, h, e, l)
  BY <1>1, Zenon DEF StagesAt
<1>3. Seg(Wired(y, w), e, i) = Seg(Wired(q, z), e, i)
  BY <1>n, LongerSeg
<1>4. Between(y, h, k) = Between(q, h, k)
  BY <1>p, LongerBetween
<1>5. End(y, k) = End(q, k) /\ LineIn(y, w, h, End(q, k), e) = LineIn(q, z, h, End(q, k), e)
  BY <1>p, <1>n, LongerEnd, LongerLine
<1>6. q <= h => LineIn(y, w, h, End(q, q + 1), End(q, q + 1))
                    = LineIn(q, z, h, End(q, q + 1), End(q, q + 1))
  <2> SUFFICES ASSUME q <= h
               PROVE  LineIn(y, w, h, End(q, q + 1), End(q, q + 1))
                        = LineIn(q, z, h, End(q, q + 1), End(q, q + 1))
    OBVIOUS
  <2>1. q + 1 \in Nat /\ q + 1 <= t
    BY <1>0, <1>n DEF Longer, Order
  <2>2. End(q, q + 1) \in Nat /\ End(q, q + 1) <= End(q, t)
    BY <1>0, <2>1, EndMonotonic
  <2> QED
    BY <1>n, <2>2, LongerLine
<1>7. LineNow(y, w, h, k, e) = LineNow(q, z, h, k, e)
  BY <1>1, <1>5, <1>6, Zenon DEF LineNow
<1> QED
  BY <1>2, <1>3, <1>4, <1>7, Zenon DEF PipeNow

-----------------------------------------------------------------------------
\* Another message of the peer.
LEMMA ItemsMade ==
    ASSUME NEW m \in Nat, NEW k
    PROVE  Items(m, k) \in Seq(Seq(AnyByte))
<1>0. BlobLen \in Nat
  BY Numbers
<1>1. Frame(m) \in Seq(AnyByte)
  BY DEF Frame, AnyByte
<1>2. Blob(m) \in Seq(AnyByte)
  <2>1. \A j \in 1..BlobLen : [of |-> m, at |-> 2 + j, zip |-> FALSE] \in AnyByte
    BY <1>0 DEF AnyByte
  <2> QED
    BY <1>0, <2>1 DEF Blob
<1> QED
  BY <1>1, <1>2 DEF Items

LEMMA ItemsOfAppend ==
    ASSUME NEW s \in Seq(MessageKinds), NEW kind \in MessageKinds
    PROVE  ItemsOf(Append(s, kind)) = Cat(ItemsOf(s), Items(Len(s) + 1, kind))
<1> DEFINE S == Seq(Seq(AnyByte))
           r == Append(s, kind)
           f == [m \in DOMAIN s |-> Items(m, s[m])]
           g == [m \in DOMAIN r |-> Items(m, r[m])]
           n == Len(s)
<1>1. n \in Nat /\ DOMAIN s = 1..n /\ Len(r) = n + 1 /\ DOMAIN r = 1..(n + 1)
      /\ r[n + 1] = kind /\ \A m \in 1..n : r[m] = s[m]
  BY AppendProperties
<1>2. \A m \in Nat : \A k : Items(m, k) \in S
  BY ItemsMade
<1>3. \A m \in 1..n : f[m] = Items(m, s[m])
  BY <1>1
<1>4. \A m \in 1..(n + 1) : g[m] = Items(m, r[m])
  BY <1>1
<1>5. f \in Seq(S) /\ Len(f) = n
  BY <1>1, <1>2
<1>6. g \in Seq(S) /\ Len(g) = n + 1
  <2>1. n + 1 \in Nat
    BY <1>1
  <2> QED
    BY <1>1, <1>2, <2>1
<1>7. Items(n + 1, kind) \in S
  BY <1>1, <1>2
<1> HIDE DEF f, g, S, r, n
<1>8. /\ Append(f, Items(n + 1, kind)) \in Seq(S)
      /\ Len(Append(f, Items(n + 1, kind))) = n + 1
      /\ \A m \in 1..n : Append(f, Items(n + 1, kind))[m] = f[m]
      /\ Append(f, Items(n + 1, kind))[n + 1] = Items(n + 1, kind)
  BY <1>5, <1>7, AppendProperties
<1>9. \A m \in 1..(n + 1) : m \in 1..n \/ m = n + 1
  BY <1>1
<1>10. n + 1 \in 1..(n + 1) /\ \A m \in 1..n : m \in 1..(n + 1)
  BY <1>1
<1>11. \A m \in 1..n : g[m] = f[m]
  BY <1>1, <1>3, <1>4, <1>10
<1>12. g[n + 1] = Items(n + 1, kind)
  BY <1>1, <1>4, <1>10
<1>13. \A m \in 1..(n + 1) : g[m] = Append(f, Items(n + 1, kind))[m]
  BY <1>8, <1>9, <1>11, <1>12
<1>14. g = Append(f, Items(n + 1, kind))
  BY <1>6, <1>8, <1>13, SeqEqual
<1>15. Joined(g) = Joined(f) \o Items(n + 1, kind)
  BY <1>5, <1>7, <1>14, JoinedAppend DEF S
<1> QED
  BY <1>15, Zenon DEF Cat, ItemsOf, f, g, r, n

\* The new message, among the messages behind t items: what was sent, and what is sent now.
Sends(q, z, s, kind, y, w) ==
    /\ SentAs(q, z, s) /\ kind \in MessageKinds /\ Len(s) < MaxMessages
    /\ kind = "zon" => z = NoMessage /\ q = NoMessage
    /\ kind = "hsnd" => q = NoMessage
    /\ y = IF kind = "hsnd" THEN Len(s) + 1 ELSE q
    /\ w = IF kind = "zon" THEN Len(s) + 1 ELSE z

LEMMA SendsNumbers ==
    ASSUME NEW q, NEW z, NEW s, NEW kind, NEW y, NEW w, Sends(q, z, s, kind, y, w)
    PROVE  /\ q \in Nat /\ z \in Nat /\ y \in Nat /\ w \in Nat /\ Len(s) \in Nat
           /\ Total(q, s) \in Nat /\ Total(y, Append(s, kind)) \in Nat
           /\ s \in Seq(MessageKinds) /\ kind \in MessageKinds
           /\ Len(Append(s, kind)) = Len(s) + 1 /\ Len(s) + 1 < NoMessage
           /\ Total(y, Append(s, kind)) = Total(q, s) + (IF kind = "hsnd" THEN 2 ELSE 1)
           /\ Longer(q, z, Total(q, s), y, w)
<1>1. SentAs(q, z, s) /\ kind \in MessageKinds /\ Len(s) < MaxMessages
  BY DEF Sends
<1>2. /\ q \in Nat /\ z \in Nat /\ Len(s) \in Nat /\ Total(q, s) \in Nat
      /\ Order(q, z, Total(q, s))
  BY <1>1, SentOrder
<1>3. /\ s \in Seq(MessageKinds)
      /\ q \in 1..Len(s) \/ q = NoMessage
      /\ z \in 1..Len(s) \/ z = NoMessage
  BY <1>1 DEF SentAs
<1>4. NoMessage \in Nat /\ MaxMessages < NoMessage /\ MaxMessages \in Nat
  BY Numbers DEF NoMessage
<1>5. Len(Append(s, kind)) = Len(s) + 1
  BY <1>1, <1>3, AppendProperties
<1>6. y \in Nat /\ w \in Nat
  BY <1>2 DEF Sends
<1>7. Total(y, Append(s, kind)) = Total(q, s) + (IF kind = "hsnd" THEN 2 ELSE 1)
  <2>1. CASE kind = "hsnd"
    <3>1. q = NoMessage /\ y = Len(s) + 1
      BY <2>1 DEF Sends
    <3>2. Total(q, s) = Len(s)
      BY <1>1, <1>2, <1>4, <3>1 DEF Total
    <3>3. Total(y, Append(s, kind)) = Len(s) + 2
      BY <1>2, <1>5, <3>1 DEF Total
    <3> QED
      BY <1>2, <2>1, <3>2, <3>3
  <2>2. CASE kind # "hsnd"
    <3>1. y = q
      BY <2>2 DEF Sends
    <3>2. q <= Len(s) + 1 <=> q <= Len(s)
      BY <1>1, <1>2, <1>3, <1>4
    <3>3. Total(q, Append(s, kind)) = Total(q, s) + 1
      BY <1>2, <1>5, <3>2 DEF Total
    <3> QED
      BY <2>2, <3>1, <3>3
  <2> QED
    BY <2>1, <2>2
<1>8. y = q \/ (Total(q, s) < q /\ Total(q, s) < y)
  BY <1>1, <1>2, <1>3, <1>4 DEF Sends, Total
<1>9. w = z \/ (Total(q, s) < z /\ Total(q, s) < w /\ Total(q, s) < q)
  BY <1>1, <1>2, <1>3, <1>4 DEF Sends, Total
<1>10. Longer(q, z, Total(q, s), y, w)
  BY <1>2, <1>6, <1>8, <1>9, Zenon DEF Longer
<1>11. Len(s) + 1 < NoMessage /\ Total(y, Append(s, kind)) \in Nat
  BY <1>1, <1>2, <1>4, <1>7
<1> QED
  BY <1>1, <1>2, <1>3, <1>5, <1>6, <1>7, <1>10, <1>11, Zenon

LEMMA SendsItems ==
    ASSUME NEW q, NEW z, NEW s, NEW kind, NEW y, NEW w, Sends(q, z, s, kind, y, w)
    PROVE  Between(y, Total(q, s), Total(y, Append(s, kind))) = Items(Len(s) + 1, kind)
<1> DEFINE t == Total(q, s)
           u == Total(y, Append(s, kind))
<1>1. /\ q \in Nat /\ z \in Nat /\ y \in Nat /\ Len(s) \in Nat
      /\ t \in Nat /\ u \in Nat /\ u = t + (IF kind = "hsnd" THEN 2 ELSE 1)
      /\ Len(s) + 1 < NoMessage /\ NoMessage \in Nat
  BY SendsNumbers, Numbers
<1>2. t = IF q <= Len(s) THEN Len(s) + 1 ELSE Len(s)
  BY DEF Total
<1>3. q \in 1..Len(s) \/ q = NoMessage
  BY DEF Sends, SentAs
<1>4. Between(y, t, u) = ItemsAfter(y, t, u - t)
  BY DEF Between
<1> HIDE DEF t, u
<1>5. CASE kind = "hsnd"
  <2>1. q = NoMessage /\ y = Len(s) + 1
    BY <1>5 DEF Sends
  <2>2. t = Len(s) /\ u - t = 2
    BY <1>1, <1>2, <1>5, <2>1
  <2>3. Item(y, t + 1) = Frame(y) /\ Item(y, t + 2) = Blob(y)
    BY <1>1, <2>1, <2>2 DEF Item
  <2>4. ItemsAfter(y, t, 2) = <<Item(y, t + 1), Item(y, t + 2)>>
    BY DEF ItemsAfter
  <2> QED
    BY <1>4, <1>5, <2>1, <2>2, <2>3, <2>4, Zenon DEF Items, t, u
<1>6. CASE kind # "hsnd"
  <2>1. y = q
    BY <1>6 DEF Sends
  <2>2. u - t = 1
    BY <1>1, <1>6
  <2>3. Item(q, t + 1) = Frame(Len(s) + 1)
    <3>1. CASE q <= Len(s)
      <4>1. PICK n \in Nat : n = t + 1
        BY <1>1, t + 1 \in Nat
      <4>2. n - 1 = Len(s) + 1 /\ ~(n <= q) /\ ~(n = q + 1)
        BY <1>1, <1>2, <3>1, <4>1
      <4>3. Item(q, n) = Frame(n - 1)
        BY <4>2, Zenon DEF Item
      <4> QED
        BY <4>1, <4>2, <4>3, Zenon
    <3>2. CASE ~(q <= Len(s))
      <4>1. t + 1 = Len(s) + 1 /\ t + 1 <= q
        BY <1>1, <1>2, <1>3, <3>2
      <4> QED
        BY <4>1 DEF Item
    <3> QED
      BY <3>1, <3>2
  <2>4. ItemsAfter(q, t, 1) = <<Item(q, t + 1)>>
    BY DEF ItemsAfter
  <2> QED
    BY <1>4, <1>6, <2>1, <2>2, <2>3, <2>4, Zenon DEF Items, t, u
<1> QED
  BY <1>5, <1>6

LEMMA SendsSent ==
    ASSUME NEW q, NEW z, NEW s, NEW kind, NEW y, NEW w, Sends(q, z, s, kind, y, w)
    PROVE  SentAs(y, w, Append(s, kind))
<1> DEFINE t == Total(q, s)
           u == Total(y, Append(s, kind))
           r == Append(s, kind)
<1>1. /\ q \in Nat /\ z \in Nat /\ y \in Nat /\ w \in Nat /\ Len(s) \in Nat
      /\ t \in Nat /\ u \in Nat /\ u = t + (IF kind = "hsnd" THEN 2 ELSE 1)
      /\ s \in Seq(MessageKinds) /\ kind \in MessageKinds /\ Len(r) = Len(s) + 1
      /\ Len(s) + 1 < NoMessage /\ NoMessage \in Nat /\ MaxMessages \in Nat
      /\ Longer(q, z, t, y, w)
  BY SendsNumbers, Numbers
<1>2. /\ Len(s) < MaxMessages
      /\ kind = "zon" => z = NoMessage /\ q = NoMessage
      /\ kind = "hsnd" => q = NoMessage
      /\ y = IF kind = "hsnd" THEN Len(s) + 1 ELSE q
      /\ w = IF kind = "zon" THEN Len(s) + 1 ELSE z
  BY DEF Sends
<1>3. /\ q \in 1..Len(s) \/ q = NoMessage
      /\ z \in 1..Len(s) \/ z = NoMessage
      /\ \A m \in 1..Len(s) : (s[m] = "hsnd" <=> m = q) /\ (s[m] = "zon" <=> m = z)
      /\ z < q \/ z = NoMessage
      /\ ItemsOf(s) = ItemsAfter(q, 0, t)
  BY Zenon DEF Sends, SentAs
<1>4. /\ r \in Seq(MessageKinds) /\ r[Len(s) + 1] = kind /\ \A m \in 1..Len(s) : r[m] = s[m]
  BY <1>1, AppendProperties
<1>5. ItemsOf(r) = Cat(ItemsOf(s), Items(Len(s) + 1, kind))
  BY <1>1, ItemsOfAppend
<1>6. Between(y, t, u) = Items(Len(s) + 1, kind)
  BY SendsItems
<1> HIDE DEF t, u, r
<1>7. ItemsOf(r) = ItemsAfter(y, 0, u)
  <2>1. ItemsAfter(y, 0, t) = ItemsAfter(q, 0, t)
    BY <1>1, LongerItems
  <2>2. t <= u
    BY <1>1
  <2>3. Cat(ItemsAfter(y, 0, t), Between(y, t, u)) = ItemsAfter(y, 0, u)
    BY <1>1, <2>2, BetweenConcat
  <2> QED
    BY <1>3, <1>5, <1>6, <2>1, <2>3, Zenon
<1>8. /\ y \in 1..Len(r) \/ y = NoMessage
      /\ w \in 1..Len(r) \/ w = NoMessage
      /\ w < y \/ w = NoMessage
      /\ Len(r) <= MaxMessages
  BY <1>1, <1>2, <1>3
<1>9. ASSUME NEW m \in 1..Len(r)
      PROVE  (r[m] = "hsnd" <=> m = y) /\ (r[m] = "zon" <=> m = w)
  <2>1. CASE m = Len(s) + 1
    <3>1. r[m] = kind /\ q # m /\ z # m
      BY <1>1, <1>3, <1>4, <2>1
    <3> QED
      BY <1>2, <2>1, <3>1
  <2>2. CASE m # Len(s) + 1
    <3>1. m \in 1..Len(s)
      BY <1>1, <2>2
    <3>2. r[m] = s[m] /\ (s[m] = "hsnd" <=> m = q) /\ (s[m] = "zon" <=> m = z)
      BY <1>3, <1>4, <3>1
    <3>3. m # NoMessage
      BY <1>1, <3>1
    <3> QED
      BY <1>2, <2>2, <3>2, <3>3
  <2> QED
    BY <2>1, <2>2
<1> QED
  BY <1>4, <1>7, <1>8, <1>9, Zenon DEF SentAs, r, u

LEMMA ByteZipped ==
    ASSUME NEW b \in AnyByte
    PROVE  [b EXCEPT !.zip = TRUE] = Zipped(b)
<1>1. ASSUME NEW r \in AnyByte, NEW v \in BOOLEAN
      PROVE  [r EXCEPT !.zip = v] = [of |-> r.of, at |-> r.at, zip |-> v]
  BY DEF AnyByte
<1> QED
  BY <1>1, Zenon DEF Zipped

LEMMA DeflatedSeg ==
    ASSUME NEW q \in Nat, NEW z \in Nat, NEW a \in Nat, NEW b \in Nat, a <= b, 2 * z <= a
    PROVE  Deflated(Seg(Plain(q), a, b)) = Seg(Wired(q, z), a, b)
<1>1. ASSUME NEW p \in Nat, p > 2 * z
      PROVE  [Plain(q)[p] EXCEPT !.zip = TRUE] = Wired(q, z)[p]
  <2>1. Wired(q, z)[p] = Zipped(Plain(q)[p])
    BY <1>1, WiredIs
  <2>2. Plain(q)[p] \in AnyByte
    BY PlainType DEF Streams
  <2>3. [Plain(q)[p] EXCEPT !.zip = TRUE] = Zipped(Plain(q)[p])
    BY <2>2, ByteZipped
  <2> QED
    BY <2>1, <2>3
<1>2. DOMAIN Seg(Plain(q), a, b) = 1..(b - a)
  BY DEF Seg
<1>3. \A j \in 1..(b - a) : a + j \in Nat /\ a + j > 2 * z
  OBVIOUS
<1>4. \A j \in 1..(b - a) : Seg(Plain(q), a, b)[j] = Plain(q)[a + j]
  BY SegAt
<1>5. \A j \in 1..(b - a) : [Seg(Plain(q), a, b)[j] EXCEPT !.zip = TRUE] = Wired(q, z)[a + j]
  BY <1>1, <1>3, <1>4, Zenon
<1> QED
  BY <1>2, <1>5, Zenon DEF Deflated, Seg

\* The bytes of the message, as they go on the wire.
LEMMA SendsBytes ==
    ASSUME NEW q, NEW z, NEW s, NEW kind, NEW y, NEW w, Sends(q, z, s, kind, y, w),
           NEW bytes, bytes = Joined(Items(Len(s) + 1, kind))
    PROVE  (IF z <= Len(s) THEN Deflated(bytes) ELSE bytes)
            = Seg(Wired(y, w), End(y, Total(q, s)), End(y, Total(y, Append(s, kind))))
<1> DEFINE t == Total(q, s)
           u == Total(y, Append(s, kind))
<1>1. /\ q \in Nat /\ z \in Nat /\ y \in Nat /\ w \in Nat /\ Len(s) \in Nat
      /\ t \in Nat /\ u \in Nat /\ u = t + (IF kind = "hsnd" THEN 2 ELSE 1)
      /\ Len(s) + 1 < NoMessage /\ NoMessage \in Nat /\ BlobLen \in Nat
  BY SendsNumbers, Numbers
<1>2. /\ kind = "zon" => z = NoMessage /\ q = NoMessage
      /\ kind = "hsnd" => q = NoMessage
      /\ y = IF kind = "hsnd" THEN Len(s) + 1 ELSE q
      /\ w = IF kind = "zon" THEN Len(s) + 1 ELSE z
  BY DEF Sends
<1>3. /\ q \in 1..Len(s) \/ q = NoMessage
      /\ z \in 1..Len(s) \/ z = NoMessage
      /\ z < q \/ z = NoMessage
  BY Zenon DEF Sends, SentAs
<1>4. Between(y, t, u) = Items(Len(s) + 1, kind)
  BY SendsItems
<1>5. Order(y, w, u)
  BY SendsSent, SentOrder
<1>6. t = IF q <= Len(s) THEN Len(s) + 1 ELSE Len(s)
  BY DEF Total
<1> HIDE DEF t, u
<1>7. PICK a \in Nat, b \in Nat : a = End(y, t) /\ b = End(y, u) /\ a <= b
  <2>1. t <= u
    BY <1>1
  <2>2. End(y, t) \in Nat /\ End(y, u) \in Nat /\ End(y, t) <= End(y, u)
    BY <1>1, <2>1, EndMonotonic
  <2> QED
    BY <2>2, Zenon
<1>8. bytes = Seg(Plain(y), a, b)
  <2>1. PICK n \in Nat : n = u - t /\ t + n = u
    BY <1>1
  <2>2. Joined(ItemsAfter(y, t, n)) = Seg(Plain(y), End(y, t), End(y, t + n))
    BY <1>1, JoinedItems
  <2> QED
    BY <1>4, <1>7, <2>1, <2>2, Zenon DEF Between
<1>9. CASE z <= Len(s)
  <2>1. w = z
    BY <1>1, <1>2, <1>9
  <2>2. 2 * z <= End(y, t)
    <3>1. y > t \/ (y = q /\ q <= Len(s) /\ t = Len(s) + 1)
      BY <1>1, <1>2, <1>3, <1>6
    <3> QED
      BY <1>1, <1>6, <1>9, <3>1 DEF End
  <2>3. Deflated(Seg(Plain(y), a, b)) = Seg(Wired(y, w), a, b)
    BY <1>1, <1>7, <2>1, <2>2, DeflatedSeg
  <2> QED
    BY <1>7, <1>8, <1>9, <2>3, Zenon DEF t, u
<1>10. CASE ~(z <= Len(s))
  <2>1. z = NoMessage
    BY <1>1, <1>3, <1>10
  <2>2. b <= 2 * w
    <3>1. CASE kind = "zon"
      <4>1. y = q /\ q = NoMessage /\ w = Len(s) + 1 /\ u = Len(s) + 1
        BY <1>1, <1>2, <1>6, <3>1
      <4> QED
        BY <1>1, <1>7, <4>1 DEF End
    <3>2. CASE kind # "zon"
      <4>1. w = NoMessage
        BY <1>2, <2>1, <3>2
      <4> QED
        BY <1>5, <1>7, <4>1 DEF Order
    <3> QED
      BY <3>1, <3>2
  <2>3. Seg(Wired(y, w), a, b) = Seg(Plain(y), a, b)
    BY <1>1, <2>2, NotDeflated
  <2> QED
    BY <1>7, <1>8, <1>10, <2>3, Zenon DEF t, u
<1> QED
  BY <1>9, <1>10

-----------------------------------------------------------------------------
\* The inductive invariant: the stream that the peer sent lies, cut at the places h to c,
\* in handed, pipe, cbuf and wire.
Carried(q, z, s, h, k, e, i, c, p, b, v, d) ==
    /\ {q, z, h, k, e, i, c} \subseteq Nat
    /\ SentAs(q, z, s) /\ Places(q, Total(q, s), h, k, e, i, c)
    /\ d = ItemsAfter(q, 0, h) /\ p = PipeNow(q, z, h, k, e, i)
    /\ b = Seg(Wired(q, z), i, c) /\ v = Seg(Wired(q, z), c, End(q, Total(q, s)))

\* The end of the stream is seen when all has come to the pipeline, and the connection is
\* closed when all has left it.
Closing(q, s, h, i, f, l, st) ==
    /\ f \in BOOLEAN /\ l \in BOOLEAN /\ st \in {"idle", "reading", "closed"}
    /\ l => f /\ i = End(q, Total(q, s))
    /\ st = "closed" => f /\ h = Total(q, s)

PipeIInv ==
    \E q, z, h, k, e, i, c :
        /\ Carried(q, z, sent, h, k, e, i, c, pipe, cbuf, wire, handed)
        /\ Closing(q, sent, h, i, fin, last, control)

LEMMA CarriedFields ==
    ASSUME NEW q, NEW z, NEW h, NEW k, NEW e, NEW i, NEW c, NEW s, NEW p, NEW b, NEW v, NEW d,
           Carried(q, z, s, h, k, e, i, c, p, b, v, d)
    PROVE  /\ q \in Nat /\ z \in Nat /\ h \in Nat /\ k \in Nat /\ e \in Nat /\ i \in Nat /\ c \in Nat
           /\ SentAs(q, z, s) /\ Places(q, Total(q, s), h, k, e, i, c)
           /\ Total(q, s) \in Nat /\ Order(q, z, Total(q, s))
           /\ h <= k /\ k <= Total(q, s) /\ h <= Total(q, s)
           /\ End(q, k) <= e /\ e <= i /\ i <= c /\ c <= End(q, Total(q, s))
           /\ End(q, k) \in Nat /\ End(q, Total(q, s)) \in Nat
           /\ d = ItemsAfter(q, 0, h) /\ p = PipeNow(q, z, h, k, e, i)
           /\ b = Seg(Wired(q, z), i, c) /\ v = Seg(Wired(q, z), c, End(q, Total(q, s)))
<1>0. q \in Nat /\ z \in Nat /\ h \in Nat /\ k \in Nat /\ e \in Nat /\ i \in Nat /\ c \in Nat
  BY DEF Carried
<1>1. /\ SentAs(q, z, s) /\ Places(q, Total(q, s), h, k, e, i, c)
      /\ d = ItemsAfter(q, 0, h) /\ p = PipeNow(q, z, h, k, e, i)
      /\ b = Seg(Wired(q, z), i, c) /\ v = Seg(Wired(q, z), c, End(q, Total(q, s)))
  BY Zenon DEF Carried
<1>2. Total(q, s) \in Nat /\ Order(q, z, Total(q, s))
  BY <1>1, SentOrder
<1>3. /\ h <= k /\ k <= Total(q, s)
      /\ End(q, k) <= e /\ e <= i /\ i <= c /\ c <= End(q, Total(q, s))
  BY <1>1, Zenon DEF Places
<1>4. End(q, k) \in Nat /\ End(q, Total(q, s)) \in Nat
  BY <1>0, <1>2, EndMonotonic
<1>5. h <= Total(q, s)
  BY <1>0, <1>2, <1>3
<1> QED
  BY <1>0, <1>1, <1>2, <1>3, <1>4, <1>5, Zenon

LEMMA PipeInitial == PipeInit => PipeIInv
<1> SUFFICES ASSUME PipeInit
             PROVE  PipeIInv
  OBVIOUS
<1> DEFINE q == NoMessage
<1>0. q \in Nat /\ 0 \in Nat /\ BlobLen \in Nat /\ BlobLen >= 1 /\ MaxMessages \in Nat /\ q = MaxMessages + BlobLen + 1
  BY Numbers DEF NoMessage
<1>1. /\ sent = <<>> /\ fin = FALSE /\ wire = <<>> /\ cbuf = <<>>
      /\ pipe = [stages |-> <<LineStage>>, input |-> <<>>, deferred |-> <<>>, sticky |-> FALSE]
      /\ control = "idle" /\ last = FALSE /\ handed = <<>>
  BY DEF PipeInit
<1> HIDE DEF q
<1>2. Total(q, <<>>) = 0
  BY <1>0 DEF Total
<1>3. ItemsAfter(q, 0, 0) = <<>> /\ Between(q, 0, 0) = <<>>
  BY BetweenNone
<1>4. SentAs(q, q, <<>>)
  <2>1. ItemsOf(<<>>) = <<>>
    <3>1. [m \in DOMAIN <<>> |-> Items(m, <<>>[m])] = <<>>
      OBVIOUS
    <3> QED
      BY <3>1, JoinedNone DEF ItemsOf
  <2>2. <<>> \in Seq(MessageKinds) /\ Len(<<>>) = 0 /\ 1..0 = {}
    OBVIOUS
  <2>3. 0 <= MaxMessages
    BY <1>0
  <2> QED
    BY <1>2, <1>3, <2>1, <2>2, <2>3 DEF SentAs, q
<1>5. End(q, 0) = 0
  BY <1>0 DEF End
<1>6. Places(q, 0, 0, 0, 0, 0, 0)
  BY <1>0, <1>5 DEF Places
<1>7. Seg(Wired(q, q), 0, 0) = <<>>
  BY SegEmpty
<1>8. pipe = PipeNow(q, q, 0, 0, 0, 0)
  <2>1. ~(q <= 0)
    BY <1>0
  <2>2. LineNow(q, q, 0, 0, 0) = LineIn(q, q, 0, 0, 0)
    BY <1>5, <2>1, Zenon DEF LineNow
  <2>3. LineIn(q, q, 0, 0, 0) = LineStage
    BY LineBegun DEF LineIn
  <2>4. \A l : StagesAt(q, q, 0, 0, l) = <<l>>
    BY <2>1, Zenon DEF StagesAt
  <2>5. pipe = PipeOf(<<LineStage>>, <<>>, <<>>)
    BY <1>1, Zenon DEF PipeOf, PipeWith, Off
  <2> QED
    BY <1>3, <1>7, <2>2, <2>3, <2>4, <2>5, Zenon DEF PipeNow
<1>a. {q, 0} \subseteq Nat /\ {q, q, 0, 0, 0, 0, 0} = {q, 0}
  BY <1>0
<1>9. Carried(q, q, sent, 0, 0, 0, 0, 0, pipe, cbuf, wire, handed)
  BY <1>a, <1>1, <1>2, <1>3, <1>4, <1>5, <1>6, <1>7, <1>8, Zenon DEF Carried
<1>10. Closing(q, sent, 0, 0, fin, last, control)
  BY <1>1 DEF Closing
<1> QED
  BY <1>0, <1>9, <1>10, Zenon DEF PipeIInv

LEMMA SendKeeps ==
    ASSUME ~LateZon, PipeIInv, NEW kind \in MessageKinds, Send(kind)
    PROVE  PipeIInv'
<1>0. PICK q, z, h, k, e, i, c :
        /\ Carried(q, z, sent, h, k, e, i, c, pipe, cbuf, wire, handed)
        /\ Closing(q, sent, h, i, fin, last, control)
  BY Zenon DEF PipeIInv
<1>1. Carried(q, z, sent, h, k, e, i, c, pipe, cbuf, wire, handed)
  BY <1>0
<1>n. q \in Nat /\ z \in Nat /\ h \in Nat /\ k \in Nat /\ e \in Nat /\ i \in Nat /\ c \in Nat
  BY <1>1, CarriedFields
<1>2. /\ SentAs(q, z, sent) /\ Places(q, Total(q, sent), h, k, e, i, c)
      /\ Total(q, sent) \in Nat /\ Order(q, z, Total(q, sent))
      /\ h <= Total(q, sent) /\ i <= c /\ c <= End(q, Total(q, sent)) /\ End(q, Total(q, sent)) \in Nat
      /\ handed = ItemsAfter(q, 0, h) /\ pipe = PipeNow(q, z, h, k, e, i)
      /\ cbuf = Seg(Wired(q, z), i, c) /\ wire = Seg(Wired(q, z), c, End(q, Total(q, sent)))
  BY <1>1, CarriedFields
<1>3. /\ ~fin /\ Len(sent) < MaxMessages
      /\ kind = "text" \/ ~Did(kind)
      /\ kind = "zon" => ~Did("hsnd")
      /\ sent' = Append(sent, kind)
      /\ wire' = wire \o IF Did("zon") THEN Deflated(Joined(Items(Len(sent'), kind)))
                         ELSE Joined(Items(Len(sent'), kind))
      /\ fin' = fin /\ cbuf' = cbuf /\ pipe' = pipe /\ control' = control /\ last' = last
      /\ handed' = handed
  BY DEF Send
<1>4. /\ sent \in Seq(MessageKinds) /\ Len(sent) \in Nat /\ DOMAIN sent = 1..Len(sent)
      /\ q \in 1..Len(sent) \/ q = NoMessage
      /\ z \in 1..Len(sent) \/ z = NoMessage
      /\ \A m \in 1..Len(sent) : (sent[m] = "hsnd" <=> m = q) /\ (sent[m] = "zon" <=> m = z)
      /\ NoMessage \in Nat /\ MaxMessages < NoMessage /\ MaxMessages \in Nat
  <2>1. /\ sent \in Seq(MessageKinds)
        /\ q \in 1..Len(sent) \/ q = NoMessage
        /\ z \in 1..Len(sent) \/ z = NoMessage
        /\ \A m \in 1..Len(sent) : (sent[m] = "hsnd" <=> m = q) /\ (sent[m] = "zon" <=> m = z)
    BY <1>2, Zenon DEF SentAs
  <2>2. NoMessage \in Nat /\ MaxMessages < NoMessage /\ MaxMessages \in Nat
    BY Numbers DEF NoMessage
  <2> QED
    BY <2>1, <2>2
<1>5. (Did("zon") <=> z <= Len(sent)) /\ (Did("hsnd") <=> q <= Len(sent))
  <2>1. ASSUME NEW f \in Nat, f \in 1..Len(sent) \/ f = NoMessage, NEW kd,
               \A m \in 1..Len(sent) : sent[m] = kd <=> m = f
        PROVE  Did(kd) <=> f <= Len(sent)
    <3>1. f <= Len(sent) <=> f \in 1..Len(sent)
      BY <1>3, <1>4, <2>1
    <3> QED
      BY <1>4, <2>1, <3>1, Zenon DEF Did
  <2> QED
    BY <1>n, <1>4, <2>1
<1>6. PICK y \in Nat, w \in Nat :
        /\ y = IF kind = "hsnd" THEN Len(sent) + 1 ELSE q
        /\ w = IF kind = "zon" THEN Len(sent) + 1 ELSE z
  BY <1>n, <1>4
<1>7. Sends(q, z, sent, kind, y, w)
  <2>1. kind = "zon" => z = NoMessage /\ q = NoMessage
    BY <1>3, <1>4, <1>5
  <2>2. kind = "hsnd" => q = NoMessage
    BY <1>3, <1>4, <1>5
  <2> QED
    BY <1>2, <1>3, <1>6, <2>1, <2>2, Zenon DEF Sends
<1>8. PICK t \in Nat, u \in Nat : t = Total(q, sent) /\ u = Total(y, sent')
  BY <1>3, <1>7, SendsNumbers, Zenon
<1>9. Longer(q, z, t, y, w) /\ t <= u /\ Len(sent') = Len(sent) + 1
  <2>1. /\ Total(y, Append(sent, kind)) = Total(q, sent) + (IF kind = "hsnd" THEN 2 ELSE 1)
        /\ Longer(q, z, Total(q, sent), y, w) /\ Len(Append(sent, kind)) = Len(sent) + 1
    BY <1>7, SendsNumbers
  <2>2. u = t + (IF kind = "hsnd" THEN 2 ELSE 1) /\ Longer(q, z, t, y, w)
        /\ Len(sent') = Len(sent) + 1
    BY <1>3, <1>8, <2>1, Zenon
  <2>3. t <= u
    BY <2>2
  <2> QED
    BY <2>2, <2>3
<1>10. SentAs(y, w, sent')
  BY <1>3, <1>7, SendsSent
<1>p. Longer(q, z, t, y, w) /\ Places(q, t, h, k, e, i, c)
  BY <1>2, <1>8, <1>9
<1>11. Places(y, u, h, k, e, i, c)
  BY <1>n, <1>p, <1>9, LongerPlaces
<1>12. ItemsAfter(y, 0, h) = ItemsAfter(q, 0, h)
  BY <1>n, <1>2, <1>8, <1>9, LongerItems
<1>13. PipeNow(y, w, h, k, e, i) = PipeNow(q, z, h, k, e, i)
  BY <1>n, <1>p, LongerPipe
<1>14. PICK a \in Nat, b \in Nat : a = End(q, t) /\ a = End(y, t) /\ b = End(y, u) /\ a <= b
  <2>1. End(y, t) = End(q, t)
    BY <1>9, <1>8, LongerEnd
  <2>2. End(y, t) \in Nat /\ End(y, u) \in Nat /\ End(y, t) <= End(y, u)
    BY <1>6, <1>9, EndMonotonic
  <2> QED
    BY <2>1, <2>2, Zenon
<1>15. /\ Seg(Wired(y, w), i, c) = Seg(Wired(q, z), i, c)
       /\ Seg(Wired(y, w), c, a) = Seg(Wired(q, z), c, a)
  <2>1. c <= End(q, t) /\ a <= End(q, t)
    BY <1>2, <1>8, <1>14
  <2> QED
    BY <1>n, <1>9, <2>1, LongerSeg
<1>16. wire' = Seg(Wired(y, w), c, b)
  <2>1. PICK bytes : bytes = Joined(Items(Len(sent) + 1, kind))
    OBVIOUS
  <2>2. (IF z <= Len(sent) THEN Deflated(bytes) ELSE bytes) = Seg(Wired(y, w), a, b)
    <3>1. (IF z <= Len(sent) THEN Deflated(bytes) ELSE bytes)
            = Seg(Wired(y, w), End(y, Total(q, sent)), End(y, Total(y, Append(sent, kind))))
      BY <1>7, <2>1, SendsBytes
    <3> QED
      BY <1>3, <1>8, <1>14, <3>1, Zenon
  <2>3. wire' = Cat(wire, Seg(Wired(y, w), a, b))
    BY <1>3, <1>5, <1>9, <2>1, <2>2, Zenon DEF Cat
  <2>4. wire = Seg(Wired(y, w), c, a)
    BY <1>2, <1>8, <1>14, <1>15, Zenon
  <2>5. Cat(Seg(Wired(y, w), c, a), Seg(Wired(y, w), a, b)) = Seg(Wired(y, w), c, b)
    <3>1. c <= a
      BY <1>2, <1>8, <1>14
    <3> QED
      BY <1>n, <1>14, <3>1, WiredConcat
  <2> QED
    BY <2>3, <2>4, <2>5, Zenon
<1>m. {y, w, h, k, e, i, c} \subseteq Nat
  BY <1>n
<1>17. Carried(y, w, sent', h, k, e, i, c, pipe', cbuf', wire', handed')
  BY <1>m, <1>2, <1>3, <1>8, <1>10, <1>11, <1>12, <1>13, <1>14, <1>15, <1>16, Zenon DEF Carried
<1>18. Closing(y, sent', h, i, fin', last', control')
  BY <1>0, <1>3 DEF Closing
<1> QED
  BY <1>17, <1>18, Zenon DEF PipeIInv

LEMMA FinishKeeps ==
    ASSUME PipeIInv, Finish
    PROVE  PipeIInv'
<1>0. PICK q, z, h, k, e, i, c :
        /\ Carried(q, z, sent, h, k, e, i, c, pipe, cbuf, wire, handed)
        /\ Closing(q, sent, h, i, fin, last, control)
  BY Zenon DEF PipeIInv
<1>1. /\ fin' = TRUE /\ sent' = sent /\ wire' = wire /\ cbuf' = cbuf /\ pipe' = pipe
      /\ control' = control /\ last' = last /\ handed' = handed
  BY DEF Finish
<1>2. Carried(q, z, sent', h, k, e, i, c, pipe', cbuf', wire', handed')
  BY <1>0, <1>1, Zenon
<1>3. Closing(q, sent', h, i, fin', last', control')
  BY <1>0, <1>1 DEF Closing
<1> QED
  BY <1>2, <1>3, Zenon DEF PipeIInv

LEMMA StandKeeps ==
    ASSUME PipeIInv, UNCHANGED pipeVars
    PROVE  PipeIInv'
BY DEF PipeIInv, pipeVars

LEMMA ReceiveKeeps ==
    ASSUME PipeIInv, NEW n \in 0..Len(wire), Receive(n)
    PROVE  PipeIInv'
<1>0. PICK q, z, h, k, e, i, c :
        /\ Carried(q, z, sent, h, k, e, i, c, pipe, cbuf, wire, handed)
        /\ Closing(q, sent, h, i, fin, last, control)
  BY Zenon DEF PipeIInv
<1>1. Carried(q, z, sent, h, k, e, i, c, pipe, cbuf, wire, handed)
  BY <1>0
<1>n. /\ q \in Nat /\ z \in Nat /\ h \in Nat /\ k \in Nat /\ e \in Nat /\ i \in Nat /\ c \in Nat
      /\ MaxReadLen \in Nat
  BY <1>1, CarriedFields, Numbers
<1>2. /\ SentAs(q, z, sent) /\ Places(q, Total(q, sent), h, k, e, i, c)
      /\ e <= i /\ i <= c /\ c <= End(q, Total(q, sent)) /\ End(q, Total(q, sent)) \in Nat
      /\ handed = ItemsAfter(q, 0, h) /\ pipe = PipeNow(q, z, h, k, e, i)
      /\ cbuf = Seg(Wired(q, z), i, c) /\ wire = Seg(Wired(q, z), c, End(q, Total(q, sent)))
  BY <1>1, CarriedFields
<1>3. PICK bytes, m :
        /\ bytes = cbuf \o SubSeq(wire, 1, n)
        /\ m = IF Len(bytes) < MaxReadLen THEN Len(bytes) ELSE MaxReadLen
        /\ cbuf' = SubSeq(bytes, m + 1, Len(bytes))
        /\ wire' = SubSeq(wire, n + 1, Len(wire))
        /\ last' \in {FALSE, fin /\ wire' = <<>> /\ Len(bytes) < MaxReadLen}
        /\ pipe' = [pipe EXCEPT !.input = pipe.input \o SubSeq(bytes, 1, m)]
        /\ control' = "reading" /\ sent' = sent /\ fin' = fin /\ handed' = handed
  BY Zenon DEF Receive
<1>e. PICK E \in Nat : E = End(q, Total(q, sent))
  BY <1>2
<1> DEFINE f == Wired(q, z)
<1>f. f \in Streams
  BY <1>n, WiredType
<1>c. f = Wired(q, z)
  OBVIOUS
<1> HIDE DEF f
<1>4. wire = Seg(f, c, E) /\ cbuf = Seg(f, i, c) /\ c <= E
  BY <1>2, <1>e, <1>c
<1>5. Len(wire) = E - c /\ n \in Nat /\ n <= E - c /\ c + n <= E
  <2>1. Len(wire) = E - c
    BY <1>n, <1>4, SegLen
  <2> QED
    BY <1>n, <1>4, <2>1
<1>6. PICK d \in Nat : d = c + n
  BY <1>n, <1>5
<1>7. bytes = Seg(f, i, d)
  <2>1. Cut(Seg(f, c, E), 1, n) = Seg(f, c + 1 - 1, c + n)
    <3>1. 1 \in Nat /\ 1 <= 1 /\ 1 <= n + 1
      BY <1>5
    <3> QED
      BY <1>f, <1>n, <1>5, <3>1, SegSub
  <2>2. c + 1 - 1 = c
    BY <1>n
  <2>3. Cat(Seg(f, i, c), Seg(f, c, d)) = Seg(f, i, d)
    <3>1. c <= d
      BY <1>n, <1>5, <1>6
    <3> QED
      BY <1>f, <1>n, <1>2, <3>1, SegConcat
  <2> QED
    BY <1>3, <1>4, <1>6, <2>1, <2>2, <2>3, Zenon DEF Cat, Cut
<1>8. Len(bytes) = d - i /\ i <= d /\ d <= E
  <2>1. i <= d
    BY <1>n, <1>2, <1>5, <1>6
  <2>2. Len(bytes) = d - i
    BY <1>n, <1>7, <2>1, SegLen
  <2> QED
    BY <1>5, <1>6, <2>1, <2>2
<1>9. m \in Nat /\ m <= d - i
  <2>1. PICK w \in Nat : w = d - i
    BY <1>n, <1>8
  <2>2. m = IF w < MaxReadLen THEN w ELSE MaxReadLen
    BY <1>3, <1>8, <2>1, Zenon
  <2> QED
    BY <1>n, <2>1, <2>2
<1>10. PICK j \in Nat : j = i + m
  BY <1>n, <1>9
<1>11. e <= j /\ i <= j /\ j <= d
  <2>1. e <= i /\ d \in Nat
    BY <1>2
  <2> QED
    BY <1>n, <1>8, <1>9, <1>10, <2>1
<1>12. cbuf' = Seg(f, j, d)
  <2>1. PICK w \in Nat : w = d - i
    BY <1>n, <1>8
  <2>2. m + 1 \in Nat /\ 1 <= m + 1 /\ m + 1 <= w + 1 /\ i + w <= d
    BY <1>n, <1>9, <2>1
  <2>3. Cut(Seg(f, i, d), m + 1, w) = Seg(f, i + (m + 1) - 1, i + w)
    BY <1>f, <1>n, <2>2, SegSub
  <2>4. i + (m + 1) - 1 = j /\ i + w = d
    BY <1>n, <1>9, <1>10, <2>1
  <2> QED
    BY <1>3, <1>7, <1>8, <2>1, <2>3, <2>4, Zenon DEF Cut
<1>13. wire' = Seg(f, d, E)
  <2>1. PICK w \in Nat : w = E - c
    BY <1>n, <1>4
  <2>2. n \in Nat /\ n <= E - c
    BY <1>5
  <2>5. PICK b \in Nat : b = n + 1
    BY <2>2
  <2>6. 1 <= b /\ b <= w + 1 /\ c + w <= E
    BY <1>n, <2>1, <2>2, <2>5
  <2>7. Cut(Seg(f, c, E), b, w) = Seg(f, c + b - 1, c + w)
    BY <1>f, <1>n, <2>6, SegSub
  <2>3. Cut(Seg(f, c, E), n + 1, w) = Seg(f, c + (n + 1) - 1, c + w)
    BY <2>5, <2>7
  <2>4. c + (n + 1) - 1 = d /\ c + w = E
    BY <1>n, <1>5, <1>6, <2>1
  <2> QED
    BY <1>3, <1>4, <1>5, <2>1, <2>3, <2>4, Zenon DEF Cut
<1>14. pipe' = PipeNow(q, z, h, k, e, j)
  <2>1. PICK S, D : S = StagesAt(q, z, h, e, LineNow(q, z, h, k, e)) /\ D = Between(q, h, k)
    OBVIOUS
  <2>2. pipe = PipeOf(S, Seg(f, e, i), D)
    BY <1>2, <1>c, <2>1, Zenon DEF PipeNow
  <2>3. pipe.input = Seg(f, e, i)
    BY <2>2, PipeOfFields
  <2>4. Cut(Seg(f, i, d), 1, m) = Seg(f, i + 1 - 1, i + m)
    <3>1. 1 \in Nat /\ 1 <= 1 /\ 1 <= m + 1 /\ i + m <= d
      BY <1>n, <1>9, <1>10, <1>11
    <3> QED
      BY <1>f, <1>n, <1>9, <3>1, SegSub
  <2>5. i + 1 - 1 = i
    BY <1>n
  <2>6. Cat(Seg(f, e, i), Seg(f, i, j)) = Seg(f, e, j)
    BY <1>f, <1>n, <1>2, <1>11, SegConcat
  <2>7. Cat(pipe.input, Cut(bytes, 1, m)) = Seg(f, e, j)
    BY <1>7, <1>10, <2>3, <2>4, <2>5, <2>6, Zenon
  <2>8. pipe' = Fed(pipe, Seg(f, e, j))
    BY <1>3, <2>7, Zenon DEF Fed, Cat, Cut
  <2>9. Fed(PipeOf(S, Seg(f, e, i), D), Seg(f, e, j)) = PipeOf(S, Seg(f, e, j), D)
    BY PipeFed
  <2> QED
    BY <1>c, <2>1, <2>2, <2>8, <2>9, Zenon DEF PipeNow
<1>15. Places(q, Total(q, sent), h, k, e, j, d)
  <2>1. d <= End(q, Total(q, sent))
    BY <1>8, <1>e
  <2> QED
    BY <1>2, <1>11, <2>1, Zenon DEF Places
<1>m. {q, z, h, k, e, j, d} \subseteq Nat
  BY <1>n
<1>16. Carried(q, z, sent', h, k, e, j, d, pipe', cbuf', wire', handed')
  BY <1>2, <1>3, <1>c, <1>e, <1>m, <1>12, <1>13, <1>14, <1>15, Zenon DEF Carried
<1>17. last' => fin /\ j = E
  <2> SUFFICES ASSUME last'
               PROVE  fin /\ j = E
    OBVIOUS
  <2>1. fin /\ wire' = <<>> /\ Len(bytes) < MaxReadLen
    BY <1>3
  <2>2. Len(wire') = E - d
    BY <1>8, <1>13, SegLen
  <2>3. Len(wire') = 0
    BY <2>1
  <2>4. j = d
    BY <1>n, <1>3, <1>8, <1>10, <2>1
  <2> QED
    BY <2>1, <2>2, <2>3, <2>4
<1>18. fin \in BOOLEAN
  BY <1>0 DEF Closing
<1>19. Closing(q, sent', h, j, fin', last', control')
  BY <1>3, <1>e, <1>17, <1>18 DEF Closing
<1> QED
  BY <1>16, <1>19, Zenon DEF PipeIInv

-----------------------------------------------------------------------------
\* The frame behind g items goes to its handler.
LEMMA DispatchGoes ==
    ASSUME NEW q, NEW z, NEW h, NEW g, NEW x, NEW i, NEW c, SentAs(q, z, sent),
           Ready(q, z, Total(q, sent), h, g, x, i, c)
    PROVE  Goes(q, z, Total(q, sent), g, i, c,
                Dispatched(Item(q, g + 1), PipeBefore(q, z, h, x, i)))
<1> DEFINE p == PipeBefore(q, z, h, x, i)
           t == Total(q, sent)
<1>0. /\ q \in Nat /\ z \in Nat /\ t \in Nat /\ h \in Nat /\ g \in Nat /\ x \in Nat
      /\ i \in Nat /\ c \in Nat /\ Order(q, z, t)
      /\ h <= g /\ g + 1 <= t /\ g # q
      /\ q > h => g = h
      /\ q <= h => q < g
  BY ReadyFields
<1>1. PICK n \in Nat : n = g + 1 /\ 1 <= n /\ n <= t /\ n # q + 1
  BY <1>0
<1> HIDE DEF t, p
<1>2. /\ n = z => Dispatched(Item(q, n), p) = Prepend(InflateStage, p)
      /\ n = q => Dispatched(Item(q, n), p) = InsertBeforeTerminal(CountedStage, p)
      /\ n # z /\ n # q => Dispatched(Item(q, n), p) = [pipe |-> p, stored |-> <<>>]
  BY <1>1, DispatchedIs DEF t
<1>3. CASE n = z
  <2>1. Goes(q, z, t, g, i, c, Prepend(InflateStage, p))
    BY <1>1, <1>3, AfterZon DEF p, t
  <2> QED
    BY <1>1, <1>2, <1>3, <2>1, Zenon DEF p, t
<1>4. CASE n = q
  <2>1. z > h \/ z <= h
    BY <1>0
  <2>2. Goes(q, z, t, g, i, c, InsertBeforeTerminal(CountedStage, p))
    BY <1>1, <1>4, <2>1, AfterHsnd1, AfterHsnd2, AfterHsnd3 DEF p, t
  <2> QED
    BY <1>1, <1>2, <1>4, <2>2, Zenon DEF p, t
<1>5. CASE n # z /\ n # q
  <2>1. Goes(q, z, t, g, i, c, Outcome(p, <<>>))
    BY <1>1, <1>5, AfterText DEF p, t
  <2> QED
    BY <1>1, <1>2, <1>5, <2>1, Zenon DEF p, t, Outcome
<1> QED
  BY <1>3, <1>4, <1>5

\* What was handed over only grows.
Grown(d, e) == Len(d) <= Len(e)

LEMMA GrownItems ==
    ASSUME NEW q \in Nat, NEW h \in Nat, NEW g \in Nat, h <= g
    PROVE  Grown(ItemsAfter(q, 0, h), ItemsAfter(q, 0, g))
<1>1. Len(ItemsAfter(q, 0, h)) = h /\ Len(ItemsAfter(q, 0, g)) = g
  BY ItemsType
<1> QED
  BY <1>1 DEF Grown

LEMMA HandDeferred ==
    ASSUME NEW q, NEW z, NEW h, NEW k, NEW e, NEW i, NEW c,
           Carried(q, z, sent, h, k, e, i, c, pipe, cbuf, wire, handed),
           Closing(q, sent, h, i, fin, last, control), h < k, HandFrame
    PROVE  PipeIInv' /\ Grown(handed, handed')
<1>n. q \in Nat /\ z \in Nat /\ h \in Nat /\ k \in Nat /\ e \in Nat /\ i \in Nat /\ c \in Nat
  BY CarriedFields
<1>2. /\ SentAs(q, z, sent) /\ Places(q, Total(q, sent), h, k, e, i, c)
      /\ Total(q, sent) \in Nat /\ Order(q, z, Total(q, sent))
      /\ k <= Total(q, sent)
      /\ handed = ItemsAfter(q, 0, h) /\ pipe = PipeNow(q, z, h, k, e, i)
      /\ cbuf = Seg(Wired(q, z), i, c) /\ wire = Seg(Wired(q, z), c, End(q, Total(q, sent)))
  BY CarriedFields
<1>p. /\ End(q, k) <= e /\ e <= i /\ i <= c /\ c <= End(q, Total(q, sent))
      /\ q <= h /\ Wanted(q, e) => k = q
      /\ q <= h /\ ~Wanted(q, e) => k > q
      /\ k > h => q < h
  BY <1>2, Zenon DEF Places
<1>3. PICK r, d :
        /\ r = NextFrame(pipe) /\ d = Dispatched(r.unit, r.pipe)
        /\ control = "reading" /\ pipe' = d.pipe
        /\ handed' = handed \o r.stored \o <<r.unit>> \o d.stored
        /\ sent' = sent /\ fin' = fin /\ wire' = wire /\ cbuf' = cbuf
        /\ control' = control /\ last' = last
  BY Zenon DEF HandFrame
<1>4. q < h /\ ~Wanted(q, e) /\ h + 1 <= k
  BY <1>n, <1>p
<1>5. PICK n \in Nat : n = h + 1
  BY <1>n
<1>6. PICK S : S = StagesAt(q, z, h, e, LineNow(q, z, h, k, e))
  OBVIOUS
<1>7. r = Gives(PipeOf(S, Seg(Wired(q, z), e, i), Between(q, n, k)), Item(q, n), <<>>)
  <2>1. /\ Between(q, h, k) # <<>> /\ Head(Between(q, h, k)) = Item(q, h + 1)
        /\ Tail(Between(q, h, k)) = Between(q, h + 1, k)
    BY <1>n, BetweenHead
  <2>2. pipe = PipeOf(S, Seg(Wired(q, z), e, i), Between(q, h, k))
    BY <1>2, <1>6, Zenon DEF PipeNow
  <2>3. NextFrame(PipeOf(S, Seg(Wired(q, z), e, i), Between(q, h, k)))
            = Gives(PipeOf(S, Seg(Wired(q, z), e, i), Tail(Between(q, h, k))), Head(Between(q, h, k)), <<>>)
    BY <2>1, NextDeferred, Zenon
  <2> QED
    BY <1>3, <1>5, <2>1, <2>2, <2>3, Zenon
<1>8. S = StagesAt(q, z, n, e, LineNow(q, z, n, k, e))
  <2>1. (z <= n <=> z <= h) /\ (q <= n <=> q <= h)
    BY <1>n, <1>2, <1>4, <1>5 DEF Order
  <2>2. LineIn(q, z, n, End(q, k), e) = LineIn(q, z, h, End(q, k), e)
    BY <2>1, Zenon DEF LineIn, LineStream
  <2>3. LineNow(q, z, n, k, e) = LineNow(q, z, h, k, e)
    BY <1>4, <2>2, Zenon DEF LineNow
  <2> QED
    BY <1>6, <2>1, <2>3, Zenon DEF StagesAt
<1>9. r.unit = Item(q, n) /\ r.stored = <<>> /\ r.pipe = PipeNow(q, z, n, k, e, i)
  <2>1. r = Gives(PipeNow(q, z, n, k, e, i), Item(q, n), <<>>)
    BY <1>7, <1>8, Zenon DEF PipeNow
  <2> QED
    BY <2>1, NextFields
<1>10. d = Outcome(PipeNow(q, z, n, k, e, i), <<>>)
  <2>0. PICK t \in Nat : t = Total(q, sent) /\ Order(q, z, t) /\ k <= t
    BY <1>2
  <2>3. z < q \/ t < z
    BY <2>0 DEF Order
  <2>4. 1 <= n /\ n <= t /\ n # q + 1 /\ n # z /\ n # q
    BY <1>n, <1>4, <1>5, <2>0, <2>3
  <2>1. 1 <= n /\ n <= Total(q, sent) /\ n # q + 1 /\ n # z /\ n # q
    BY <2>0, <2>4
  <2>2. \A p : Dispatched(Item(q, n), p) = [pipe |-> p, stored |-> <<>>]
    BY <1>2, <2>1, DispatchedIs
  <2> QED
    BY <1>3, <1>9, <2>2, Zenon DEF Outcome
<1>11. d.pipe = PipeNow(q, z, n, k, e, i) /\ d.stored = <<>>
  BY <1>10 DEF Outcome
<1>12. handed' = ItemsAfter(q, 0, n)
  <2>1. Between(q, h, h) = <<>> /\ Between(q, n, n) = <<>>
    BY <1>n, BetweenNone
  <2>2. h <= h /\ h + 1 <= n
    BY <1>n, <1>5
  <2>3. Handed(q, h, h, n) = ItemsAfter(q, 0, n)
    BY <1>n, <2>2, HandedIs
  <2> QED
    BY <1>2, <1>3, <1>5, <1>9, <1>11, <2>1, <2>3, Zenon DEF Handed
<1>13. Places(q, Total(q, sent), n, k, e, i, c)
  <2>1. n <= k /\ q <= n /\ k > q /\ q < n
    BY <1>n, <1>4, <1>5
  <2> QED
    BY <1>2, <1>p, <1>4, <2>1, Zenon DEF Places
<1>g. Grown(handed, handed')
  <2>1. h <= n
    BY <1>n, <1>5
  <2>2. Grown(ItemsAfter(q, 0, h), ItemsAfter(q, 0, n))
    BY <1>n, <2>1, GrownItems
  <2> QED
    BY <1>2, <1>12, <2>2, Zenon
<1>m. {q, z, n, k, e, i, c} \subseteq Nat
  BY <1>n
<1>14. Carried(q, z, sent', n, k, e, i, c, pipe', cbuf', wire', handed')
  BY <1>2, <1>3, <1>m, <1>11, <1>12, <1>13, Zenon DEF Carried
<1>15. Closing(q, sent', n, i, fin', last', control')
  BY <1>3 DEF Closing
<1> QED
  BY <1>g, <1>14, <1>15, Zenon DEF PipeIInv

\* A frame that is complete is the item behind those that came before it.
LEMMA UnitReady ==
    ASSUME NEW q \in Nat, NEW z \in Nat, NEW t \in Nat, NEW h \in Nat, NEW g \in Nat,
           NEW a \in Nat, NEW x \in Nat, NEW i \in Nat, NEW c \in Nat,
           Order(q, z, t), i <= c, c <= End(q, t),
           EndIs(q, g, a), g # q, h <= g, g <= t, a <= i,
           q <= h => ~Wanted(q, i) /\ q < g, q > h => g = h,
           i - a <= 1 => x = a, i - a > 1 => x = a + 2,
           Seg(Plain(q), a, x) # <<>>
    PROVE  Seg(Plain(q), a, x) = Item(q, g + 1) /\ Ready(q, z, t, h, g, x, i, c)
<1>1. i - a > 1 /\ x = a + 2
  <2>1. Seg(Plain(q), a, a) = <<>>
    BY SegEmpty
  <2>2. x # a
    BY <2>1
  <2> QED
    BY <2>2
<1>2. /\ End(q, g) \in Nat /\ End(q, g + 1) = End(q, g) + 2
      /\ Seg(Plain(q), End(q, g), End(q, g) + 2) = Item(q, g + 1)
  BY FrameAt
<1>3. a = End(q, g)
  BY DEF EndIs
<1>4. Seg(Plain(q), a, x) = Item(q, g + 1)
  BY <1>1, <1>2, <1>3
<1>5. x = End(q, g + 1) /\ x <= i
  BY <1>1, <1>2, <1>3
<1>6. g + 1 <= t
  <2> SUFFICES ASSUME ~(g + 1 <= t)
               PROVE  FALSE
    OBVIOUS
  <2>1. g = t
    OBVIOUS
  <2>2. End(q, t) = a
    BY <1>3, <2>1
  <2> QED
    BY <1>1, <2>2
<1>7. EndIs(q, g + 1, x)
  BY <1>5 DEF EndIs
<1> QED
  BY <1>4, <1>5, <1>6, <1>7, Zenon DEF Ready

\* What the pipeline gives next when no frame is deferred, g items going before it: the bytes
\* between the places a and x.
NextIs(q, z, t, h, i, r, g, a, x) ==
    /\ EndIs(q, g, a) /\ g # q /\ h <= g /\ g <= t /\ a <= i
    /\ q <= h => ~Wanted(q, i) /\ q < g
    /\ q > h => g = h
    /\ i - a <= 1 => x = a
    /\ i - a > 1 => x = a + 2
    /\ r = Gives(PipeBefore(q, z, h, x, i), Seg(Plain(q), a, x), Between(q, h, g))

LEMMA NextCases ==
    ASSUME NEW q \in Nat, NEW z \in Nat, NEW h \in Nat, NEW t \in Nat, Order(q, z, t),
           NEW e \in Nat, NEW i \in Nat, NEW c \in Nat, Places(q, t, h, h, e, i, c)
    PROVE  \/ /\ q <= h /\ Wanted(q, i) /\ h = q
              /\ NextFrame(Resting(q, z, h, e, i))
                    = Gives(PipeOf(StagesAt(q, z, h, i, LineNow(q, z, h, h, i)), <<>>, <<>>),
                           <<>>, <<>>)
           \/ \E g, a, x \in Nat :
                NextIs(q, z, t, h, i, NextFrame(Resting(q, z, h, e, i)), g, a, x)
<1>1. \/ /\ q <= h /\ Wanted(q, i) /\ h = q
         /\ NextFrame(Resting(q, z, h, e, i))
                = Gives(PipeOf(StagesAt(q, z, h, i, LineNow(q, z, h, h, i)), <<>>, <<>>),
                       <<>>, <<>>)
      \/ \E g, a, x \in Nat :
           /\ EndIs(q, g, a) /\ g # q /\ h <= g /\ g <= t /\ a <= i
           /\ q <= h => ~Wanted(q, i) /\ q < g
           /\ q > h => g = h
           /\ i - a <= 1 => x = a
           /\ i - a > 1 => x = a + 2
           /\ NextFrame(Resting(q, z, h, e, i))
                = Gives(PipeOf(StagesAt(q, z, h, i, LineIn(q, z, h, x, i)), <<>>, <<>>),
                       Seg(Plain(q), a, x), Between(q, h, g))
  BY NextUnit
<1> QED
  BY <1>1, Zenon DEF NextIs, PipeBefore

LEMMA HandPulled ==
    ASSUME NEW q, NEW z, NEW h, NEW e, NEW i, NEW c,
           Carried(q, z, sent, h, h, e, i, c, pipe, cbuf, wire, handed),
           Closing(q, sent, h, i, fin, last, control), HandFrame
    PROVE  PipeIInv' /\ Grown(handed, handed')
<1>n. q \in Nat /\ z \in Nat /\ h \in Nat /\ e \in Nat /\ i \in Nat /\ c \in Nat
  BY CarriedFields
<1>2. /\ SentAs(q, z, sent) /\ Places(q, Total(q, sent), h, h, e, i, c)
      /\ Total(q, sent) \in Nat /\ Order(q, z, Total(q, sent))
      /\ i <= c /\ c <= End(q, Total(q, sent))
      /\ handed = ItemsAfter(q, 0, h) /\ pipe = PipeNow(q, z, h, h, e, i)
      /\ cbuf = Seg(Wired(q, z), i, c) /\ wire = Seg(Wired(q, z), c, End(q, Total(q, sent)))
  BY CarriedFields
<1>3. PICK r, d :
        /\ r = NextFrame(pipe) /\ d = Dispatched(r.unit, r.pipe) /\ r.unit # <<>>
        /\ control = "reading" /\ pipe' = d.pipe
        /\ handed' = handed \o r.stored \o <<r.unit>> \o d.stored
        /\ sent' = sent /\ fin' = fin /\ wire' = wire /\ cbuf' = cbuf
        /\ control' = control /\ last' = last
  BY Zenon DEF HandFrame
<1>t. PICK t \in Nat : t = Total(q, sent)
  BY <1>2
<1>4. pipe = Resting(q, z, h, e, i)
  <2>1. Between(q, h, h) = <<>>
    BY <1>n, BetweenNone
  <2> QED
    BY <1>2, <2>1, Zenon DEF PipeNow, Resting
<1>5. PICK g \in Nat, a \in Nat, x \in Nat :
        /\ EndIs(q, g, a) /\ g # q /\ h <= g /\ g <= t /\ a <= i
        /\ q <= h => ~Wanted(q, i) /\ q < g
        /\ q > h => g = h
        /\ i - a <= 1 => x = a
        /\ i - a > 1 => x = a + 2
        /\ r = Gives(PipeBefore(q, z, h, x, i), Seg(Plain(q), a, x), Between(q, h, g))
  <2>1. Order(q, z, t) /\ Places(q, t, h, h, e, i, c)
    BY <1>2, <1>t
  <2>2. \A p : NextFrame(pipe) # Gives(p, <<>>, <<>>)
    BY <1>3, NextFields
  <2>3. \/ \E p : NextFrame(Resting(q, z, h, e, i)) = Gives(p, <<>>, <<>>)
        \/ \E g, a, x \in Nat :
             NextIs(q, z, t, h, i, NextFrame(Resting(q, z, h, e, i)), g, a, x)
    BY <1>n, <2>1, NextCases
  <2> QED
    BY <1>3, <1>4, <2>2, <2>3, Zenon DEF NextIs
<1>6. /\ r.unit = Seg(Plain(q), a, x) /\ r.stored = Between(q, h, g)
      /\ r.pipe = PipeBefore(q, z, h, x, i)
  BY <1>5, NextFields
<1>7. Seg(Plain(q), a, x) = Item(q, g + 1) /\ Ready(q, z, t, h, g, x, i, c)
  <2>1. Seg(Plain(q), a, x) # <<>>
    BY <1>3, <1>6
  <2>2. Order(q, z, t) /\ i <= c /\ c <= End(q, t)
    BY <1>2, <1>t
  <2> QED
    BY <1>n, <1>5, <2>1, <2>2, UnitReady, Zenon
<1>8. Goes(q, z, t, g, i, c, d)
  <2>1. Goes(q, z, t, g, i, c, Dispatched(Item(q, g + 1), PipeBefore(q, z, h, x, i)))
    BY <1>2, <1>t, <1>7, DispatchGoes
  <2> QED
    BY <1>3, <1>6, <1>7, <2>1, Zenon
<1>9. PICK h2 \in Nat, k2 \in Nat, e2 \in Nat :
        /\ g + 1 <= h2 /\ Places(q, t, h2, k2, e2, i, c)
        /\ d = Outcome(PipeNow(q, z, h2, k2, e2, i), Between(q, g + 1, h2))
  BY <1>8, Zenon DEF Goes
<1>10. d.pipe = PipeNow(q, z, h2, k2, e2, i) /\ d.stored = Between(q, g + 1, h2)
  BY <1>9 DEF Outcome
<1>11. handed' = ItemsAfter(q, 0, h2)
  <2>1. Handed(q, h, g, h2) = ItemsAfter(q, 0, h2)
    BY <1>n, <1>5, <1>9, HandedIs
  <2> QED
    BY <1>2, <1>3, <1>6, <1>7, <1>10, <2>1, Zenon DEF Handed
<1>g. Grown(handed, handed')
  <2>1. h <= h2
    BY <1>n, <1>5, <1>9
  <2>2. Grown(ItemsAfter(q, 0, h), ItemsAfter(q, 0, h2))
    BY <1>n, <2>1, GrownItems
  <2> QED
    BY <1>2, <1>11, <2>2, Zenon
<1>m. {q, z, h2, k2, e2, i, c} \subseteq Nat
  BY <1>n
<1>12. Carried(q, z, sent', h2, k2, e2, i, c, pipe', cbuf', wire', handed')
  BY <1>2, <1>3, <1>t, <1>m, <1>9, <1>10, <1>11, Zenon DEF Carried
<1>13. Closing(q, sent', h2, i, fin', last', control')
  BY <1>3 DEF Closing
<1> QED
  BY <1>g, <1>12, <1>13, Zenon DEF PipeIInv

LEMMA HandKeeps ==
    ASSUME PipeIInv, HandFrame
    PROVE  PipeIInv' /\ Grown(handed, handed')
<1>0. PICK q, z, h, k, e, i, c :
        /\ Carried(q, z, sent, h, k, e, i, c, pipe, cbuf, wire, handed)
        /\ Closing(q, sent, h, i, fin, last, control)
  BY Zenon DEF PipeIInv
<1>1. CASE h < k
  BY <1>0, <1>1, HandDeferred
<1>2. CASE ~(h < k)
  <2>1. h \in Nat /\ k \in Nat /\ h <= k
    BY <1>0, CarriedFields
  <2>2. k = h
    BY <1>2, <2>1
  <2>3. Carried(q, z, sent, h, h, e, i, c, pipe, cbuf, wire, handed)
    BY <1>0, <2>2
  <2> QED
    BY <1>0, <2>3, HandPulled
<1> QED
  BY <1>1, <1>2

\* The read handler returns: what is left is half a frame, or half a filter.
LEMMA EndDeferred ==
    ASSUME NEW q, NEW z, NEW h, NEW k, NEW e, NEW i, NEW c,
           Carried(q, z, sent, h, k, e, i, c, pipe, cbuf, wire, handed), h < k
    PROVE  ~EndRead
<1>n. q \in Nat /\ z \in Nat /\ h \in Nat /\ k \in Nat /\ e \in Nat /\ i \in Nat /\ c \in Nat
  BY CarriedFields
<1>1. PICK S : S = StagesAt(q, z, h, e, LineNow(q, z, h, k, e))
  OBVIOUS
<1>2. pipe = PipeOf(S, Seg(Wired(q, z), e, i), Between(q, h, k))
  <2>1. pipe = PipeNow(q, z, h, k, e, i)
    BY CarriedFields
  <2> QED
    BY <1>1, <2>1, Zenon DEF PipeNow
<1>3. Between(q, h, k) # <<>> /\ Head(Between(q, h, k)) = Item(q, h + 1)
  BY <1>n, BetweenHead
<1>4. NextFrame(PipeOf(S, Seg(Wired(q, z), e, i), Between(q, h, k)))
        = Gives(PipeOf(S, Seg(Wired(q, z), e, i), Tail(Between(q, h, k))), Head(Between(q, h, k)), <<>>)
  BY <1>3, NextDeferred, Zenon
<1>5. NextFrame(pipe).unit = Item(q, h + 1) /\ ~NextFrame(pipe).overflow
  <2>1. PICK p : NextFrame(pipe) = Gives(p, Item(q, h + 1), <<>>)
    BY <1>2, <1>3, <1>4, Zenon
  <2> QED
    BY <2>1, NextFields
<1>6. Item(q, h + 1) # <<>>
  <2>1. h + 1 \in Nat /\ h + 1 >= 1
    BY <1>n
  <2> QED
    BY <1>n, <2>1, ItemType
<1> QED
  BY <1>5, <1>6, Zenon DEF EndRead

LEMMA EndPartial ==
    ASSUME NEW q, NEW z, NEW h, NEW e, NEW i, NEW c,
           Carried(q, z, sent, h, h, e, i, c, pipe, cbuf, wire, handed),
           Closing(q, sent, h, i, fin, last, control), EndRead,
           q <= h, Wanted(q, i), h = q,
           NextFrame(pipe)
             = Gives(PipeOf(StagesAt(q, z, h, i, LineNow(q, z, h, h, i)), <<>>, <<>>), <<>>, <<>>)
    PROVE  PipeIInv' /\ Grown(handed, handed')
<1>n. q \in Nat /\ z \in Nat /\ h \in Nat /\ e \in Nat /\ i \in Nat /\ c \in Nat
  BY CarriedFields
<1>2. /\ SentAs(q, z, sent) /\ Places(q, Total(q, sent), h, h, e, i, c)
      /\ Total(q, sent) \in Nat /\ Order(q, z, Total(q, sent)) /\ h <= Total(q, sent)
      /\ End(q, h) <= e /\ e <= i /\ i <= c /\ c <= End(q, Total(q, sent))
      /\ handed = ItemsAfter(q, 0, h)
      /\ cbuf = Seg(Wired(q, z), i, c) /\ wire = Seg(Wired(q, z), c, End(q, Total(q, sent)))
  BY CarriedFields
<1>3. PICK r :
        /\ r = NextFrame(pipe) /\ pipe' = r.pipe /\ handed' = handed \o r.stored
        /\ control' = IF last \/ r.overflow THEN "closed" ELSE "idle"
        /\ sent' = sent /\ fin' = fin /\ wire' = wire /\ cbuf' = cbuf /\ last' = last
  BY Zenon DEF EndRead
<1>4. /\ r.pipe = PipeOf(StagesAt(q, z, h, i, LineNow(q, z, h, h, i)), <<>>, <<>>)
      /\ ~r.overflow /\ r.stored = <<>>
  <2>1. PICK p : p = PipeOf(StagesAt(q, z, h, i, LineNow(q, z, h, h, i)), <<>>, <<>>)
    OBVIOUS
  <2>2. r = Gives(p, <<>>, <<>>)
    BY <1>3, <2>1, Zenon
  <2>3. r.pipe = p /\ ~r.overflow /\ r.stored = <<>>
    BY <2>2, NextFields
  <2> QED
    BY <2>1, <2>3, Zenon
<1>5. pipe' = PipeNow(q, z, h, h, i, i)
  <2>1. Seg(Wired(q, z), i, i) = <<>> /\ Between(q, h, h) = <<>>
    BY <1>n, SegEmpty, BetweenNone
  <2> QED
    BY <1>3, <1>4, <2>1, Zenon DEF PipeNow
<1>6. handed' = ItemsAfter(q, 0, h)
  <2>1. ItemsAfter(q, 0, h) \in Seq(Seq(AnyByte))
    BY <1>n, ItemsType
  <2>2. ItemsAfter(q, 0, h) \o <<>> = ItemsAfter(q, 0, h)
    BY <2>1
  <2> QED
    BY <1>2, <1>3, <1>4, <2>2, Zenon
<1>t. PICK t \in Nat : t = Total(q, sent) /\ Order(q, z, t) /\ h <= t
  BY <1>2
<1>7. i < End(q, t)
  <2>1. q + 1 <= t
    BY <1>t DEF Order
  <2>2. /\ End(q, q + 1) \in Nat /\ End(q, t) \in Nat /\ End(q, q + 1) <= End(q, t)
    <3>1. q + 1 \in Nat
      BY <1>n
    <3> QED
      BY <1>n, <2>1, <3>1, EndMonotonic
  <2>3. BlobLen \in Nat
    BY Numbers
  <2>4. End(q, q + 1) = 2 * q + BlobLen
    BY <1>n, <2>3 DEF End
  <2> QED
    BY <1>n, <2>2, <2>3, <2>4 DEF Wanted
<1>8. ~last
  <2>1. End(q, t) \in Nat
    BY <1>n, EndMonotonic
  <2>2. i # End(q, t)
    BY <1>n, <1>7, <2>1
  <2> QED
    BY <1>t, <2>2, Zenon DEF Closing
<1>9. Places(q, Total(q, sent), h, h, i, i, c)
  <2>1. End(q, h) \in Nat
    BY <1>n, EndMonotonic
  <2>2. PICK a \in Nat : a = End(q, h)
    BY <2>1
  <2>3. a <= i /\ i <= i
    BY <1>n, <1>2, <2>2
  <2>4. End(q, h) <= i /\ i <= i
    BY <2>2, <2>3
  <2>5. h <= h /\ ~(h > h)
    BY <1>n
  <2> QED
    BY <1>2, <2>4, <2>5, Zenon DEF Places
<1>g. Grown(handed, handed')
  <2>1. h <= h
    BY <1>n
  <2>2. Grown(ItemsAfter(q, 0, h), ItemsAfter(q, 0, h))
    BY <1>n, <2>1, GrownItems
  <2> QED
    BY <1>2, <1>6, <2>2, Zenon
<1>m. {q, z, h, h, i, i, c} \subseteq Nat
  BY <1>n
<1>10. Carried(q, z, sent', h, h, i, i, c, pipe', cbuf', wire', handed')
  BY <1>2, <1>3, <1>m, <1>5, <1>6, <1>9, Zenon DEF Carried
<1>11. Closing(q, sent', h, i, fin', last', control')
  <2>1. control' = "idle"
    BY <1>3, <1>4, <1>8, Zenon
  <2> QED
    BY <1>3, <1>8, <2>1 DEF Closing
<1> QED
  BY <1>g, <1>10, <1>11, Zenon DEF PipeIInv

\* What comes through when less than a frame is left behind g items.
Missing(q, z, t, h, i, r, g, a, x) ==
    /\ {q, z, t, h, i, g, a, x} \subseteq Nat /\ Order(q, z, t)
    /\ NextIs(q, z, t, h, i, r, g, a, x) /\ r.unit = <<>>

LEMMA UnitMissing ==
    ASSUME NEW q, NEW z, NEW t, NEW h, NEW i, NEW r, NEW g, NEW a, NEW x,
           Missing(q, z, t, h, i, r, g, a, x)
    PROVE  /\ h <= g /\ g <= t /\ EndIs(q, g, a) /\ x = a /\ a <= i /\ i - a <= 1
           /\ q <= g => ~Wanted(q, i) /\ q < g
           /\ r = Gives(PipeBefore(q, z, h, a, i), <<>>, Between(q, h, g))
           /\ z <= g <=> z <= h
           /\ q <= g <=> q <= h
<1>n. /\ q \in Nat /\ z \in Nat /\ t \in Nat /\ h \in Nat /\ i \in Nat
      /\ g \in Nat /\ a \in Nat /\ x \in Nat
  BY DEF Missing
<1>1. /\ EndIs(q, g, a) /\ g # q /\ h <= g /\ g <= t /\ a <= i
      /\ q <= h => ~Wanted(q, i) /\ q < g
      /\ q > h => g = h
      /\ i - a <= 1 => x = a
      /\ i - a > 1 => x = a + 2
      /\ r = Gives(PipeBefore(q, z, h, x, i), Seg(Plain(q), a, x), Between(q, h, g))
      /\ Order(q, z, t) /\ r.unit = <<>>
  BY Zenon DEF NextIs, Missing
<1>2. Seg(Plain(q), a, x) = <<>>
  <2>1. r.unit = Seg(Plain(q), a, x)
    BY <1>1, NextFields
  <2> QED
    BY <1>1, <2>1, Zenon
<1>3. i - a <= 1
  <2>1. /\ End(q, g) \in Nat
        /\ Seg(Plain(q), End(q, g), End(q, g) + 2) = Item(q, g + 1)
    BY <1>n, <1>1, FrameAt
  <2>2. Item(q, g + 1) # <<>>
    <3>1. g + 1 \in Nat /\ g + 1 >= 1
      BY <1>n
    <3> QED
      BY <1>n, <3>1, ItemType
  <2>3. a = End(q, g)
    BY <1>1, Zenon DEF EndIs
  <2>4. Seg(Plain(q), a, a + 2) # <<>>
    BY <2>1, <2>2, <2>3, Zenon
  <2>5. x # a + 2
    BY <1>2, <2>4, Zenon
  <2> QED
    BY <1>n, <1>1, <2>5
<1>4. x = a
  BY <1>n, <1>1, <1>3
<1>5. r = Gives(PipeBefore(q, z, h, a, i), <<>>, Between(q, h, g))
  BY <1>1, <1>2, <1>4, Zenon
<1>6. (q > h <=> ~(q <= h)) /\ (z <= g <=> z <= h) /\ (q <= g <=> q <= h)
  BY <1>n, <1>1 DEF Order
<1> QED
  BY <1>1, <1>3, <1>4, <1>5, <1>6, Zenon

LEMMA EndPulled ==
    ASSUME NEW q, NEW z, NEW h, NEW e, NEW i, NEW c,
           Carried(q, z, sent, h, h, e, i, c, pipe, cbuf, wire, handed),
           Closing(q, sent, h, i, fin, last, control), EndRead,
           NEW g \in Nat, NEW a \in Nat, NEW x \in Nat,
           NextIs(q, z, Total(q, sent), h, i, NextFrame(pipe), g, a, x)
    PROVE  PipeIInv' /\ Grown(handed, handed')
<1>n. q \in Nat /\ z \in Nat /\ h \in Nat /\ e \in Nat /\ i \in Nat /\ c \in Nat
  BY CarriedFields
<1>2. /\ SentAs(q, z, sent) /\ Total(q, sent) \in Nat /\ Order(q, z, Total(q, sent))
      /\ i <= c /\ c <= End(q, Total(q, sent))
      /\ handed = ItemsAfter(q, 0, h)
      /\ cbuf = Seg(Wired(q, z), i, c) /\ wire = Seg(Wired(q, z), c, End(q, Total(q, sent)))
  BY CarriedFields
<1>3. PICK r :
        /\ r = NextFrame(pipe) /\ pipe' = r.pipe /\ handed' = handed \o r.stored
        /\ r.unit = <<>> \/ r.overflow
        /\ control' = IF last \/ r.overflow THEN "closed" ELSE "idle"
        /\ sent' = sent /\ fin' = fin /\ wire' = wire /\ cbuf' = cbuf /\ last' = last
  BY Zenon DEF EndRead
<1>t. PICK t \in Nat : t = Total(q, sent)
  BY <1>2
<1>4. NextIs(q, z, t, h, i, r, g, a, x)
  BY <1>3, <1>t, Zenon
<1>5. ~r.overflow
  <2>1. PICK p, u, st : r = Gives(p, u, st)
    BY <1>4, Zenon DEF NextIs
  <2> QED
    BY <2>1, NextFields
<1>6. /\ h <= g /\ g <= t /\ EndIs(q, g, a) /\ a <= i /\ i - a <= 1
      /\ q <= g => ~Wanted(q, i) /\ q < g
      /\ r = Gives(PipeBefore(q, z, h, a, i), <<>>, Between(q, h, g))
      /\ z <= g <=> z <= h
      /\ q <= g <=> q <= h
  <2>1. Order(q, z, t)
    BY <1>2, <1>t
  <2>2. r.unit = <<>>
    BY <1>3, <1>5, Zenon
  <2>3. {q, z, t, h, i, g, a, x} \subseteq Nat
    BY <1>n
  <2>4. Missing(q, z, t, h, i, r, g, a, x)
    BY <1>4, <2>1, <2>2, <2>3, Zenon DEF Missing
  <2> QED
    BY <2>4, UnitMissing
<1>7. r.pipe = PipeBefore(q, z, h, a, i) /\ r.stored = Between(q, h, g)
  <2>1. PICK p, st : p = PipeBefore(q, z, h, a, i) /\ st = Between(q, h, g)
    OBVIOUS
  <2>2. r = Gives(p, <<>>, st)
    BY <1>6, <2>1, Zenon
  <2>3. r.pipe = p /\ r.stored = st
    BY <2>2, NextFields
  <2> QED
    BY <2>1, <2>3, Zenon
<1>8. a = End(q, g)
  BY <1>6, Zenon DEF EndIs
<1>9. PipeBefore(q, z, h, a, i) = PipeNow(q, z, g, g, i, i)
  <2>1. /\ \A l : StagesAt(q, z, g, i, l) = StagesAt(q, z, h, i, l)
        /\ LineIn(q, z, g, a, i) = LineIn(q, z, h, a, i)
    BY <1>6, Zenon DEF StagesAt, LineIn, LineStream
  <2>2. LineNow(q, z, g, g, i) = LineIn(q, z, g, a, i)
    BY <1>6, <1>8, Zenon DEF LineNow
  <2>3. Seg(Wired(q, z), i, i) = <<>> /\ Between(q, g, g) = <<>>
    BY <1>n, SegEmpty, BetweenNone
  <2> QED
    BY <2>1, <2>2, <2>3, Zenon DEF PipeNow, PipeBefore
<1>10. handed' = ItemsAfter(q, 0, g)
  <2>1. Cat(ItemsAfter(q, 0, h), Between(q, h, g)) = ItemsAfter(q, 0, g)
    BY <1>n, <1>6, BetweenConcat
  <2> QED
    BY <1>2, <1>3, <1>7, <2>1, Zenon DEF Cat
<1>11. Places(q, t, g, g, i, i, c)
  <2>1. g <= g /\ i <= i /\ ~(g > g) /\ (q < g => g > q)
    BY <1>n
  <2>2. i <= c /\ c <= End(q, t)
    BY <1>2, <1>t, Zenon
  <2> QED
    BY <1>6, <1>8, <2>1, <2>2, Zenon DEF Places
<1>12. last => fin /\ i = End(q, t) /\ g = t
  <2> SUFFICES ASSUME last
               PROVE  fin /\ i = End(q, t) /\ g = t
    OBVIOUS
  <2>1. fin /\ i = End(q, t)
    BY <1>t, Zenon DEF Closing
  <2>2. g = t
    <3> SUFFICES ASSUME g # t
                 PROVE  FALSE
      OBVIOUS
    <3>1. PICK b \in Nat : b = g + 1
      OBVIOUS
    <3>2. b <= t
      BY <1>6, <3>1
    <3>3. End(q, b) <= End(q, t) /\ End(q, b) \in Nat /\ End(q, t) \in Nat
      BY <1>n, <3>2, EndMonotonic
    <3>4. g # q
      BY <1>4, Zenon DEF NextIs
    <3>5. End(q, b) = End(q, g) + 2
      BY <1>n, <3>1, <3>4, FrameAt
    <3>6. PICK m \in Nat : m = End(q, b) /\ m = a + 2 /\ m <= i
      BY <1>8, <2>1, <3>3, <3>5
    <3> QED
      BY <1>n, <1>6, <3>6
  <2> QED
    BY <2>1, <2>2
<1>g. Grown(handed, handed')
  <2>1. h <= g
    BY <1>6
  <2>2. Grown(ItemsAfter(q, 0, h), ItemsAfter(q, 0, g))
    BY <1>n, <2>1, GrownItems
  <2> QED
    BY <1>2, <1>10, <2>2, Zenon
<1>m. {q, z, g, g, i, i, c} \subseteq Nat
  BY <1>n
<1>13. Carried(q, z, sent', g, g, i, i, c, pipe', cbuf', wire', handed')
  BY <1>2, <1>3, <1>t, <1>m, <1>7, <1>9, <1>10, <1>11, Zenon DEF Carried
<1>14. Closing(q, sent', g, i, fin', last', control')
  <2>1. control' = IF last THEN "closed" ELSE "idle"
    BY <1>3, <1>5, Zenon
  <2>2. fin \in BOOLEAN /\ last \in BOOLEAN
    BY Zenon DEF Closing
  <2>3. PICK en : en = End(q, t)
    OBVIOUS
  <2>4. Total(q, sent') = t
    BY <1>3, <1>t, Zenon
  <2> QED
    BY <1>3, <1>12, <2>1, <2>2, <2>4 DEF Closing
<1> QED
  BY <1>g, <1>13, <1>14, Zenon DEF PipeIInv

LEMMA EndReadKeeps ==
    ASSUME PipeIInv, EndRead
    PROVE  PipeIInv' /\ Grown(handed, handed')
<1>0. PICK q, z, h, k, e, i, c :
        /\ Carried(q, z, sent, h, k, e, i, c, pipe, cbuf, wire, handed)
        /\ Closing(q, sent, h, i, fin, last, control)
  BY Zenon DEF PipeIInv
<1>1. ~(h < k)
  BY <1>0, EndDeferred, Zenon
<1>2. h \in Nat /\ k \in Nat /\ h <= k
  BY <1>0, CarriedFields
<1>3. k = h
  BY <1>1, <1>2
<1>4. Carried(q, z, sent, h, h, e, i, c, pipe, cbuf, wire, handed)
  BY <1>0, <1>3
<1>n. q \in Nat /\ z \in Nat /\ h \in Nat /\ e \in Nat /\ i \in Nat /\ c \in Nat
  BY <1>4, CarriedFields
<1>5. /\ Total(q, sent) \in Nat /\ Order(q, z, Total(q, sent))
      /\ Places(q, Total(q, sent), h, h, e, i, c)
      /\ pipe = PipeNow(q, z, h, h, e, i)
  BY <1>4, CarriedFields
<1>6. pipe = Resting(q, z, h, e, i)
  <2>1. Between(q, h, h) = <<>>
    BY <1>n, BetweenNone
  <2> QED
    BY <1>5, <2>1, Zenon DEF PipeNow, Resting
<1>7. \/ /\ q <= h /\ Wanted(q, i) /\ h = q
         /\ NextFrame(Resting(q, z, h, e, i))
                = Gives(PipeOf(StagesAt(q, z, h, i, LineNow(q, z, h, h, i)), <<>>, <<>>),
                       <<>>, <<>>)
      \/ \E g, a, x \in Nat :
            NextIs(q, z, Total(q, sent), h, i, NextFrame(Resting(q, z, h, e, i)), g, a, x)
  <2>1. /\ Total(q, sent) \in Nat /\ Order(q, z, Total(q, sent))
        /\ Places(q, Total(q, sent), h, h, e, i, c)
    BY <1>5
  <2> QED
    BY <1>n, <2>1, NextCases
<1>8. CASE /\ q <= h /\ Wanted(q, i) /\ h = q
           /\ NextFrame(Resting(q, z, h, e, i))
                = Gives(PipeOf(StagesAt(q, z, h, i, LineNow(q, z, h, h, i)), <<>>, <<>>),
                       <<>>, <<>>)
  BY <1>0, <1>4, <1>6, <1>8, EndPartial, Zenon
<1>9. CASE \E g, a, x \in Nat :
            NextIs(q, z, Total(q, sent), h, i, NextFrame(Resting(q, z, h, e, i)), g, a, x)
  BY <1>0, <1>4, <1>6, <1>9, EndPulled, Zenon
<1> QED
  BY <1>7, <1>8, <1>9

LEMMA PipeInductive ==
    ASSUME ~LateZon, PipeIInv, [PipeNext]_pipeVars
    PROVE  PipeIInv'
<1>1. CASE \E kind \in MessageKinds : Send(kind)
  BY <1>1, SendKeeps
<1>2. CASE Finish
  BY <1>2, FinishKeeps
<1>3. CASE \E n \in 0..Len(wire) : Receive(n)
  BY <1>3, ReceiveKeeps
<1>4. CASE HandFrame
  BY <1>4, HandKeeps
<1>5. CASE EndRead
  BY <1>5, EndReadKeeps
<1>6. CASE UNCHANGED pipeVars
  BY <1>6, StandKeeps
<1> QED
  BY <1>1, <1>2, <1>3, <1>4, <1>5, <1>6, Zenon DEF PipeNext

\* The inductive invariant, of every message, read and splice that PipeNext allows.
THEOREM PipeInvariant ==
    ASSUME ~LateZon
    PROVE  PipeSpec => []PipeIInv
<1>1. PipeInit => PipeIInv
  BY PipeInitial
<1>2. PipeIInv /\ [PipeNext]_pipeVars => PipeIInv'
  BY PipeInductive
<1> QED
  BY <1>1, <1>2, PTL DEF PipeSpec

-----------------------------------------------------------------------------
\* What the buffers of the stages hold, the terminal one first.
Buffer(stage) == stage.buf
Backward(ss) == [i \in DOMAIN ss |-> ss[Len(ss) + 1 - i].buf]

LEMMA Backwards ==
    ASSUME NEW a, NEW b, NEW c
    PROVE  /\ Backward(<<a>>) = <<Buffer(a)>>
           /\ Backward(<<a, b>>) = <<Buffer(b), Buffer(a)>>
           /\ Backward(<<a, b, c>>) = <<Buffer(c), Buffer(b), Buffer(a)>>
<1> DEFINE S == {Buffer(a), Buffer(b), Buffer(c)}
           s == Backward(<<a>>)
           t == Backward(<<a, b>>)
           u == Backward(<<a, b, c>>)
<1>1. s \in Seq(S) /\ Len(s) = 1 /\ s[1] = Buffer(a)
  BY DEF Backward, Buffer
<1>2. t \in Seq(S) /\ Len(t) = 2 /\ t[1] = Buffer(b) /\ t[2] = Buffer(a)
  BY DEF Backward, Buffer
<1>3. u \in Seq(S) /\ Len(u) = 3 /\ u[1] = Buffer(c) /\ u[2] = Buffer(b) /\ u[3] = Buffer(a)
  BY DEF Backward, Buffer
<1> HIDE DEF s, t, u
<1>4. s = <<s[1]>> /\ t = <<t[1], t[2]>> /\ u = <<u[1], u[2], u[3]>>
  BY <1>1, <1>2, <1>3, OneOf, TwoOf, ThreeOf
<1> QED
  BY <1>1, <1>2, <1>3, <1>4, Zenon DEF s, t, u

LEMMA JoinedShort ==
    ASSUME NEW a \in Seq(AnyByte), NEW b \in Seq(AnyByte), NEW c \in Seq(AnyByte)
    PROVE  /\ Joined(<<a>>) = a /\ Joined(<<a, b>>) = Cat(a, b)
           /\ Joined(<<a, b, c>>) = Cat(Cat(a, b), c)
<1> DEFINE S == Seq(AnyByte)
<1>1. Append(<<>>, a) = <<a>> /\ Append(<<a>>, b) = <<a, b>> /\ Append(<<a, b>>, c) = <<a, b, c>>
  BY Appends
<1>2. <<>> \in Seq(S) /\ <<a>> \in Seq(S) /\ <<a, b>> \in Seq(S)
  OBVIOUS
<1> HIDE DEF S
<1>3. a \in S /\ b \in S /\ c \in S
  BY DEF S
<1>4. /\ Joined(Append(<<>>, a)) = Joined(<<>>) \o a
      /\ Joined(Append(<<a>>, b)) = Joined(<<a>>) \o b
      /\ Joined(Append(<<a, b>>, c)) = Joined(<<a, b>>) \o c
  BY <1>2, <1>3, JoinedAppend, Zenon
<1>5. <<>> \o a = a
  OBVIOUS
<1> QED
  BY <1>1, <1>4, <1>5, JoinedNone, Zenon DEF Cat

LEMMA CatNone ==
    ASSUME NEW s \in Seq(AnyByte)
    PROVE  Cat(s, <<>>) = s /\ Cat(<<>>, s) = s
BY DEF Cat

LEMMA LineBuffer ==
    ASSUME NEW f, NEW a, NEW b
    PROVE  Buffer(LineAt(f, a, b)) = Seg(f, a, b)
BY DEF Buffer, LineAt

\* The stages hold the bytes between the items that left them and those in the input.
StagesKeep(q, z, ss, a, e) == \E f \in {Plain(q), Wired(q, z)} : Joined(Backward(ss)) = Seg(f, a, e)

LEMMA HoldsCounted ==
    ASSUME NEW q \in Nat, NEW z \in Nat, NEW f \in {Plain(q), Wired(q, z)},
           NEW a \in Nat, NEW e \in Nat, a <= e, NEW c, NEW l,
           \/ Buffer(l) = Seg(f, a, e) /\ Buffer(c) = <<>>
           \/ Buffer(l) = <<>> /\ Buffer(c) = Seg(f, a, e)
    PROVE  StagesKeep(q, z, <<c, l>>, a, e) /\ StagesKeep(q, z, <<InflateStage, c, l>>, a, e)
<1>1. Seg(f, a, e) \in Seq(AnyByte)
  BY PlainSeg, WiredSeg
<1>2. PICK s \in Seq(AnyByte) : s = Seg(f, a, e)
  BY <1>1
<1>3. <<>> \in Seq(AnyByte)
  OBVIOUS
<1>4. Buffer(InflateStage) = <<>>
  BY DEF Buffer, InflateStage
<1>5. /\ Backward(<<c, l>>) = <<Buffer(l), Buffer(c)>>
      /\ Backward(<<InflateStage, c, l>>) = <<Buffer(l), Buffer(c), Buffer(InflateStage)>>
  BY Backwards
<1>6. /\ Joined(<<s, <<>>>>) = Cat(s, <<>>) /\ Joined(<<s, <<>>, <<>>>>) = Cat(Cat(s, <<>>), <<>>)
      /\ Joined(<<<<>>, s>>) = Cat(<<>>, s) /\ Joined(<<<<>>, s, <<>>>>) = Cat(Cat(<<>>, s), <<>>)
  BY <1>3, JoinedShort, Zenon
<1>7. Cat(s, <<>>) = s /\ Cat(<<>>, s) = s
  BY CatNone
<1>8. Joined(Backward(<<c, l>>)) = s /\ Joined(Backward(<<InflateStage, c, l>>)) = s
  BY <1>2, <1>4, <1>5, <1>6, <1>7, Zenon
<1> QED
  BY <1>2, <1>8, Zenon DEF StagesKeep

LEMMA HoldsLine ==
    ASSUME NEW q \in Nat, NEW z \in Nat, NEW f \in {Plain(q), Wired(q, z)},
           NEW a \in Nat, NEW e \in Nat, a <= e, NEW l, Buffer(l) = Seg(f, a, e)
    PROVE  StagesKeep(q, z, <<l>>, a, e) /\ StagesKeep(q, z, <<InflateStage, l>>, a, e)
<1>1. Seg(f, a, e) \in Seq(AnyByte)
  BY PlainSeg, WiredSeg
<1>2. PICK s \in Seq(AnyByte) : s = Seg(f, a, e)
  BY <1>1
<1>3. <<>> \in Seq(AnyByte)
  OBVIOUS
<1>4. Buffer(InflateStage) = <<>>
  BY DEF Buffer, InflateStage
<1>5. /\ Backward(<<l>>) = <<Buffer(l)>>
      /\ Backward(<<InflateStage, l>>) = <<Buffer(l), Buffer(InflateStage)>>
  BY Backwards
<1>6. Joined(<<s>>) = s /\ Joined(<<s, <<>>>>) = Cat(s, <<>>)
  BY <1>3, JoinedShort, Zenon
<1>7. Cat(s, <<>>) = s
  BY CatNone
<1>8. Joined(Backward(<<l>>)) = s /\ Joined(Backward(<<InflateStage, l>>)) = s
  BY <1>2, <1>4, <1>5, <1>6, <1>7, Zenon
<1> QED
  BY <1>2, <1>8, Zenon DEF StagesKeep

LEMMA StagesHold ==
    ASSUME NEW q \in Nat, NEW z \in Nat, NEW h \in Nat, NEW k \in Nat, NEW e \in Nat,
           End(q, k) <= e, End(q, k) \in Nat,
           q <= h /\ Wanted(q, e) => k = q
    PROVE  StagesKeep(q, z, StagesAt(q, z, h, e, LineNow(q, z, h, k, e)), End(q, k), e)
<1> DEFINE f == LineStream(q, z, h)
           l == LineNow(q, z, h, k, e)
           c == CountedAt(q, e)
<1>1. f \in {Plain(q), Wired(q, z)}
  BY Zenon DEF LineStream
<1>2. CASE q <= h /\ Wanted(q, e)
  <2>1. q + 1 \in Nat /\ End(q, q + 1) \in Nat
    <3>1. q + 1 \in Nat
      OBVIOUS
    <3> QED
      BY <3>1, EndMonotonic
  <2>2. l = LineAt(f, End(q, q + 1), End(q, q + 1))
    BY <1>2, Zenon DEF LineNow, LineIn
  <2>3. Buffer(l) = <<>>
    <3>1. Seg(f, End(q, q + 1), End(q, q + 1)) = <<>>
      BY <2>1, SegEmpty
    <3>2. Buffer(LineAt(f, End(q, q + 1), End(q, q + 1))) = Seg(f, End(q, q + 1), End(q, q + 1))
      BY LineBuffer
    <3> QED
      BY <2>2, <3>1, <3>2, Zenon
  <2>4. Buffer(c) = Seg(Plain(q), End(q, k), e)
    <3>1. Buffer(c) = Held(q, e)
      BY CountedFields DEF Buffer
    <3>2. End(q, k) = 2 * q
      BY <1>2 DEF End
    <3> QED
      BY <1>2, <3>1, <3>2, Zenon DEF Held
  <2>5. Plain(q) \in {Plain(q), Wired(q, z)}
    OBVIOUS
  <2> HIDE DEF l, c
  <2>6. StagesKeep(q, z, <<c, l>>, End(q, k), e) /\ StagesKeep(q, z, <<InflateStage, c, l>>, End(q, k), e)
    BY <2>3, <2>4, <2>5, HoldsCounted
  <2> QED
    BY <1>2, <2>6, Zenon DEF StagesAt, l, c
<1>3. CASE ~(q <= h /\ Wanted(q, e))
  <2>1. l = LineAt(f, End(q, k), e)
    BY <1>3, Zenon DEF LineNow, LineIn
  <2>2. Buffer(l) = Seg(f, End(q, k), e)
    <3>1. Buffer(LineAt(f, End(q, k), e)) = Seg(f, End(q, k), e)
      BY LineBuffer
    <3> QED
      BY <2>1, <3>1, Zenon
  <2>3. q <= h => Buffer(c) = <<>>
    <3>1. Buffer(c) = Held(q, e)
      BY CountedFields DEF Buffer
    <3> QED
      BY <1>3, <3>1, Zenon DEF Held
  <2> HIDE DEF f, l, c
  <2>4. StagesKeep(q, z, <<l>>, End(q, k), e) /\ StagesKeep(q, z, <<InflateStage, l>>, End(q, k), e)
    BY <1>1, <2>2, HoldsLine
  <2>5. q <= h => /\ StagesKeep(q, z, <<c, l>>, End(q, k), e)
                  /\ StagesKeep(q, z, <<InflateStage, c, l>>, End(q, k), e)
    BY <1>1, <2>2, <2>3, HoldsCounted
  <2> QED
    BY <2>4, <2>5, Zenon DEF StagesAt, l, c
<1> QED
  BY <1>2, <1>3

LEMMA CatAt ==
    ASSUME NEW s \in Seq(AnyByte), NEW t \in Seq(AnyByte)
    PROVE  /\ Cat(s, t) \in Seq(AnyByte) /\ Len(Cat(s, t)) = Len(s) + Len(t)
           /\ \A j \in 1..Len(s) + Len(t) :
                Cat(s, t)[j] = IF j <= Len(s) THEN s[j] ELSE t[j - Len(s)]
<1>1. /\ s \o t \in Seq(AnyByte) /\ Len(s \o t) = Len(s) + Len(t)
      /\ \A j \in 1..Len(s) + Len(t) :
            (s \o t)[j] = IF j <= Len(s) THEN s[j] ELSE t[j - Len(s)]
  BY ConcatProperties
<1> QED
  BY <1>1, Zenon DEF Cat

LEMMA CatAssociative ==
    ASSUME NEW s \in Seq(AnyByte), NEW t \in Seq(AnyByte), NEW u \in Seq(AnyByte)
    PROVE  Cat(Cat(s, t), u) = Cat(s, Cat(t, u))
<1>1. (s \o t) \o u = s \o (t \o u)
  BY ConcatAssociative
<1> QED
  BY <1>1, Zenon DEF Cat

\* Deflating is undone byte by byte.
Unzipped(b) == [b EXCEPT !.zip = FALSE]

LEMMA InflatedAt ==
    ASSUME NEW s \in Seq(AnyByte)
    PROVE  /\ Inflated(s) \in Seq(AnyByte) /\ Len(Inflated(s)) = Len(s)
           /\ \A j \in 1..Len(s) : Inflated(s)[j] = Unzipped(s[j])
<1>1. \A b \in AnyByte : Unzipped(b) \in AnyByte
  BY DEF Unzipped, AnyByte
<1>2. DOMAIN s = 1..Len(s) /\ Len(s) \in Nat /\ \A j \in 1..Len(s) : s[j] \in AnyByte
  OBVIOUS
<1>3. Inflated(s) = [j \in 1..Len(s) |-> Unzipped(s[j])]
  BY <1>2, Zenon DEF Inflated, Unzipped
<1> QED
  BY <1>1, <1>2, <1>3

LEMMA InflatedCat ==
    ASSUME NEW s \in Seq(AnyByte), NEW t \in Seq(AnyByte)
    PROVE  Inflated(Cat(s, t)) = Cat(Inflated(s), Inflated(t))
<1>0. PICK u : u = Cat(s, t)
  OBVIOUS
<1>1. /\ u \in Seq(AnyByte) /\ Len(u) = Len(s) + Len(t)
      /\ \A j \in 1..Len(s) + Len(t) : u[j] = IF j <= Len(s) THEN s[j] ELSE t[j - Len(s)]
  BY <1>0, CatAt, Zenon
<1>2. PICK x, y, v, w : /\ x = Inflated(u) /\ v = Inflated(s) /\ w = Inflated(t)
                        /\ y = Cat(v, w)
  OBVIOUS
<1>3. /\ v \in Seq(AnyByte) /\ Len(v) = Len(s)
      /\ \A j \in 1..Len(s) : v[j] = Unzipped(s[j])
  BY <1>2, InflatedAt, Zenon
<1>4. /\ w \in Seq(AnyByte) /\ Len(w) = Len(t)
      /\ \A j \in 1..Len(t) : w[j] = Unzipped(t[j])
  BY <1>2, InflatedAt, Zenon
<1>5. /\ x \in Seq(AnyByte) /\ Len(x) = Len(u)
      /\ \A j \in 1..Len(u) : x[j] = Unzipped(u[j])
  BY <1>1, <1>2, InflatedAt, Zenon
<1>6. /\ y \in Seq(AnyByte) /\ Len(y) = Len(v) + Len(w)
      /\ \A j \in 1..Len(v) + Len(w) : y[j] = IF j <= Len(v) THEN v[j] ELSE w[j - Len(v)]
  <2>1. v \in Seq(AnyByte) /\ w \in Seq(AnyByte)
    BY <1>3, <1>4
  <2>2. /\ Cat(v, w) \in Seq(AnyByte) /\ Len(Cat(v, w)) = Len(v) + Len(w)
        /\ \A j \in 1..Len(v) + Len(w) :
                Cat(v, w)[j] = IF j <= Len(v) THEN v[j] ELSE w[j - Len(v)]
    BY <2>1, CatAt, Zenon
  <2> QED
    BY <1>2, <2>2, Zenon
<1>7. Len(s) \in Nat /\ Len(t) \in Nat
  OBVIOUS
<1>8. ASSUME NEW j \in 1..Len(x)
      PROVE  x[j] = y[j]
  <2>0. j \in 1..Len(s) + Len(t) /\ j \in 1..Len(u) /\ j \in 1..Len(v) + Len(w)
    BY <1>1, <1>3, <1>4, <1>5
  <2>1. CASE j <= Len(s)
    <3>1. j \in 1..Len(s)
      BY <2>1
    <3>2. u[j] = s[j] /\ y[j] = v[j]
      BY <1>1, <1>3, <1>6, <2>0, <2>1, Zenon
    <3> QED
      BY <1>3, <1>5, <2>0, <3>1, <3>2, Zenon
  <2>2. CASE ~(j <= Len(s))
    <3>1. j - Len(s) \in 1..Len(t)
      BY <1>7, <2>0, <2>2
    <3>2. u[j] = t[j - Len(s)] /\ y[j] = w[j - Len(s)]
      BY <1>1, <1>3, <1>6, <2>0, <2>2, Zenon
    <3> QED
      BY <1>4, <1>5, <2>0, <3>1, <3>2, Zenon
  <2> QED
    BY <2>1, <2>2
<1>9. Len(x) = Len(y)
  BY <1>1, <1>3, <1>4, <1>5, <1>6
<1>10. x = y
  BY <1>5, <1>6, <1>8, <1>9, SeqEqual
<1> QED
  BY <1>0, <1>2, <1>10, Zenon

LEMMA CarriedKept ==
    ASSUME NEW q, NEW z, NEW h, NEW k, NEW e, NEW i, NEW c,
           Carried(q, z, sent, h, k, e, i, c, pipe, cbuf, wire, handed)
    PROVE  BytesKept
<1>n. q \in Nat /\ z \in Nat /\ h \in Nat /\ k \in Nat /\ e \in Nat /\ i \in Nat /\ c \in Nat
  BY CarriedFields
<1>0. /\ SentAs(q, z, sent) /\ Places(q, Total(q, sent), h, k, e, i, c) /\ Total(q, sent) \in Nat
      /\ h <= k /\ k <= Total(q, sent)
      /\ End(q, k) <= e /\ e <= i /\ i <= c /\ c <= End(q, Total(q, sent))
      /\ End(q, k) \in Nat /\ End(q, Total(q, sent)) \in Nat
      /\ handed = ItemsAfter(q, 0, h) /\ pipe = PipeNow(q, z, h, k, e, i)
      /\ cbuf = Seg(Wired(q, z), i, c) /\ wire = Seg(Wired(q, z), c, End(q, Total(q, sent)))
  BY CarriedFields
<1>1. PICK t \in Nat, b \in Nat, y \in Nat, x \in Nat :
        t = Total(q, sent) /\ b = End(q, k) /\ y = End(q, t) /\ x = End(q, h)
  BY <1>n, <1>0, EndMonotonic
<1>2. x <= b /\ b <= e /\ e <= i /\ i <= c /\ c <= y
  <2>1. End(q, h) <= End(q, k)
    BY <1>n, <1>0, EndMonotonic
  <2> QED
    BY <1>0, <1>1, <2>1, Zenon
<1>3. /\ pipe.stages = StagesAt(q, z, h, e, LineNow(q, z, h, k, e))
      /\ pipe.input = Seg(Wired(q, z), e, i) /\ pipe.deferred = Between(q, h, k)
  <2>1. PICK S, I, D : /\ S = StagesAt(q, z, h, e, LineNow(q, z, h, k, e))
                       /\ I = Seg(Wired(q, z), e, i) /\ D = Between(q, h, k)
    OBVIOUS
  <2>2. pipe = PipeOf(S, I, D)
    BY <1>0, <2>1, Zenon DEF PipeNow
  <2>3. pipe.stages = S /\ pipe.input = I /\ pipe.deferred = D
    BY <2>2, PipeOfFields
  <2> QED
    BY <2>1, <2>3, Zenon
<1>4. Joined(handed) = Seg(Plain(q), 0, x)
  <2>1. End(q, 0) = 0 /\ 0 + h = h
    BY <1>n DEF End
  <2>2. Joined(ItemsAfter(q, 0, h)) = Seg(Plain(q), End(q, 0), End(q, 0 + h))
    BY <1>n, JoinedItems
  <2> QED
    BY <1>0, <1>1, <2>1, <2>2, Zenon
<1>5. Joined(pipe.deferred) = Seg(Plain(q), x, b)
  <2>1. k - h \in Nat /\ h + (k - h) = k
    BY <1>n, <1>0
  <2>2. Joined(ItemsAfter(q, h, k - h)) = Seg(Plain(q), End(q, h), End(q, h + (k - h)))
    BY <1>n, <2>1, JoinedItems
  <2> QED
    BY <1>1, <1>3, <2>1, <2>2, Zenon DEF Between
<1>6. Joined(SentItems) = Seg(Plain(q), 0, y)
  <2>1. End(q, 0) = 0 /\ 0 + t = t
    BY <1>n DEF End
  <2>2. Joined(ItemsAfter(q, 0, t)) = Seg(Plain(q), End(q, 0), End(q, 0 + t))
    BY <1>n, JoinedItems
  <2>3. SentItems = ItemsAfter(q, 0, t)
    BY <1>0, <1>1, Zenon DEF SentAs, SentItems, ItemsOf
  <2> QED
    BY <1>1, <2>1, <2>2, <2>3, Zenon
<1>7. PICK f \in {Plain(q), Wired(q, z)} : Joined(Backward(pipe.stages)) = Seg(f, b, e)
  <2>1. /\ End(q, k) <= e /\ End(q, k) \in Nat
        /\ q <= h /\ Wanted(q, e) => k = q
    BY <1>0, Zenon DEF Places
  <2>2. StagesKeep(q, z, StagesAt(q, z, h, e, LineNow(q, z, h, k, e)), End(q, k), e)
    BY <1>n, <2>1, StagesHold
  <2> QED
    BY <1>1, <1>3, <2>2, Zenon DEF StagesKeep
<1>8. PICK s : s = Seg(f, b, e)
  OBVIOUS
<1>9. s \in Seq(AnyByte) /\ Inflated(s) = Seg(Plain(q), b, e)
  <2>1. /\ Seg(Plain(q), b, e) \in Seq(AnyByte) /\ Seg(Wired(q, z), b, e) \in Seq(AnyByte)
        /\ Inflated(Seg(Wired(q, z), b, e)) = Seg(Plain(q), b, e)
        /\ Inflated(Seg(Plain(q), b, e)) = Seg(Plain(q), b, e)
    <3>1. b <= e
      BY <1>2
    <3>2. Seg(Plain(q), b, e) \in Seq(AnyByte) /\ Seg(Wired(q, z), b, e) \in Seq(AnyByte)
      BY <1>n, <3>1, PlainSeg, WiredSeg
    <3>3. /\ Inflated(Seg(Wired(q, z), b, e)) = Seg(Plain(q), b, e)
          /\ Inflated(Seg(Plain(q), b, e)) = Seg(Plain(q), b, e)
      BY <1>n, <3>1, InflatedSeg
    <3> QED
      BY <3>2, <3>3
  <2>2. f = Plain(q) \/ f = Wired(q, z)
    BY <1>7
  <2> QED
    BY <1>8, <2>1, <2>2, Zenon
<1>10. Cat(Cat(Cat(s, pipe.input), cbuf), wire) = Cat(s, Seg(Wired(q, z), e, y))
  <2>1. PICK u, v, w : /\ u = Seg(Wired(q, z), e, i) /\ v = Seg(Wired(q, z), i, c)
                       /\ w = Seg(Wired(q, z), c, y)
    OBVIOUS
  <2>2. u \in Seq(AnyByte) /\ v \in Seq(AnyByte) /\ w \in Seq(AnyByte)
    <3>1. /\ Seg(Wired(q, z), e, i) \in Seq(AnyByte) /\ Seg(Wired(q, z), i, c) \in Seq(AnyByte)
          /\ Seg(Wired(q, z), c, y) \in Seq(AnyByte)
      BY <1>n, <1>2, WiredSeg
    <3> QED
      BY <2>1, <3>1, Zenon
  <2>3. Cat(Cat(u, v), w) = Seg(Wired(q, z), e, y)
    <3>1. i <= y
      BY <1>n, <1>2
    <3>2. e <= c
      BY <1>n, <1>2
    <3>3. /\ Cat(Seg(Wired(q, z), e, i), Seg(Wired(q, z), i, c)) = Seg(Wired(q, z), e, c)
          /\ Cat(Seg(Wired(q, z), e, c), Seg(Wired(q, z), c, y)) = Seg(Wired(q, z), e, y)
      BY <1>n, <1>2, <3>2, WiredConcat
    <3> QED
      BY <2>1, <3>3, Zenon
  <2>4. Cat(Cat(Cat(s, u), v), w) = Cat(s, Cat(Cat(u, v), w))
    <3>1. Cat(s, u) \in Seq(AnyByte)
      BY <1>9, <2>2, CatAt
    <3>2. Cat(Cat(Cat(s, u), v), w) = Cat(Cat(s, u), Cat(v, w))
      BY <2>2, <3>1, CatAssociative
    <3>3. Cat(v, w) \in Seq(AnyByte)
      BY <2>2, CatAt
    <3>4. Cat(Cat(s, u), Cat(v, w)) = Cat(s, Cat(u, Cat(v, w)))
      BY <1>9, <2>2, <3>3, CatAssociative
    <3>5. Cat(Cat(u, v), w) = Cat(u, Cat(v, w))
      BY <2>2, CatAssociative
    <3> QED
      BY <3>2, <3>4, <3>5, Zenon
  <2> QED
    BY <1>0, <1>1, <1>3, <2>1, <2>3, <2>4, Zenon
<1>11. Inflated(Cat(s, Seg(Wired(q, z), e, y))) = Seg(Plain(q), b, y)
  <2>1. e <= y /\ b <= y
    BY <1>n, <1>2
  <2>2. Seg(Wired(q, z), e, y) \in Seq(AnyByte)
    BY <1>n, <2>1, WiredSeg
  <2>3. Inflated(Seg(Wired(q, z), e, y)) = Seg(Plain(q), e, y)
    BY <1>n, <2>1, InflatedSeg
  <2>4. Cat(Seg(Plain(q), b, e), Seg(Plain(q), e, y)) = Seg(Plain(q), b, y)
    BY <1>n, <1>2, <2>1, PlainConcat
  <2>5. PICK u \in Seq(AnyByte) : u = Seg(Wired(q, z), e, y)
    BY <2>2
  <2>6. Inflated(Cat(s, u)) = Cat(Inflated(s), Inflated(u))
    <3>1. s \in Seq(AnyByte) /\ u \in Seq(AnyByte)
      BY <1>9, <2>5
    <3> QED
      BY <3>1, InflatedCat
  <2> QED
    BY <1>9, <2>3, <2>4, <2>5, <2>6, Zenon
<1>12. Cat(Cat(Joined(handed), Joined(pipe.deferred)), Seg(Plain(q), b, y)) = Joined(SentItems)
  <2>1. b <= y
    BY <1>n, <1>2
  <2>2. /\ Cat(Seg(Plain(q), 0, x), Seg(Plain(q), x, b)) = Seg(Plain(q), 0, b)
        /\ Cat(Seg(Plain(q), 0, b), Seg(Plain(q), b, y)) = Seg(Plain(q), 0, y)
    BY <1>n, <1>2, <2>1, PlainConcat
  <2> QED
    BY <1>4, <1>5, <1>6, <2>2, Zenon
<1>13. Joined(Backward(pipe.stages)) = s
  BY <1>7, <1>8, Zenon
<1> QED
  BY <1>10, <1>11, <1>12, <1>13, Zenon DEF BytesKept, Backward, Cat

LEMMA ItemsSent ==
    ASSUME NEW q, NEW z, NEW h, NEW k, NEW e, NEW i, NEW c,
           Carried(q, z, sent, h, k, e, i, c, pipe, cbuf, wire, handed)
    PROVE  SentItems = ItemsAfter(q, 0, Total(q, sent)) /\ handed = ItemsAfter(q, 0, h)
BY Zenon DEF Carried, SentAs, SentItems, ItemsOf

LEMMA CarriedClosed ==
    ASSUME PipeIInv
    PROVE  ClosedAfterAll
<1> SUFFICES ASSUME control = "closed"
             PROVE  fin /\ handed = SentItems
  BY DEF ClosedAfterAll
<1>1. PICK q, z, h, k, e, i, c :
        /\ Carried(q, z, sent, h, k, e, i, c, pipe, cbuf, wire, handed)
        /\ Closing(q, sent, h, i, fin, last, control)
  BY Zenon DEF PipeIInv
<1>2. fin /\ h = Total(q, sent)
  BY <1>1, Zenon DEF Closing
<1>3. SentItems = ItemsAfter(q, 0, Total(q, sent)) /\ handed = ItemsAfter(q, 0, h)
  BY <1>1, ItemsSent
<1> QED
  BY <1>2, <1>3, Zenon

\* The splices of ZON and HSND (prepend and insert_before_terminal of iostream.lua) and
\* the reads lose no byte, and double, change or reorder none, for any number of messages
\* and wherever a read cuts them, of a peer that sends no ZON after its filter; and
\* _readbuffer of server.lua closes no connection of such a peer for a frame that is too
\* long or garbage, and at the end of the stream only when the hub has had all of it.
THEOREM ConservedCorrect ==
    ASSUME ~LateZon
    PROVE  PipeSpec => []Conserved
<1>1. PipeIInv => BytesKept
  BY CarriedKept, Zenon DEF PipeIInv
<1>2. PipeIInv => Conserved
  BY <1>1, CarriedClosed, Zenon DEF Conserved
<1> QED
  BY <1>2, PipeInvariant, PTL

-----------------------------------------------------------------------------
\* The refinement of FrameStream.
\* What was handed over is what was sent, as far as it goes.
HandedFirst ==
    /\ SentItems \in Seq(Seq(AnyByte))
    /\ Len(handed) \in Nat /\ Len(handed) <= Len(SentItems)
    /\ handed = SubSeq(SentItems, 1, Len(handed))

LEMMA SentType ==
    ASSUME PipeIInv
    PROVE  HandedFirst /\ sent \in Seq(MessageKinds)
<1>1. PICK q, z, h, k, e, i, c :
        Carried(q, z, sent, h, k, e, i, c, pipe, cbuf, wire, handed)
  BY Zenon DEF PipeIInv
<1>n. q \in Nat /\ h \in Nat /\ Total(q, sent) \in Nat /\ h <= Total(q, sent) /\ SentAs(q, z, sent)
  BY <1>1, CarriedFields
<1>t. PICK t \in Nat : t = Total(q, sent) /\ h <= t
  BY <1>n
<1>2. SentItems = ItemsAfter(q, 0, t) /\ handed = ItemsAfter(q, 0, h)
  BY <1>1, <1>t, ItemsSent, Zenon
<1>3. PICK x, y : x = ItemsAfter(q, 0, t) /\ y = ItemsAfter(q, 0, h)
  OBVIOUS
<1>4. x \in Seq(Seq(AnyByte)) /\ Len(x) = t /\ y \in Seq(Seq(AnyByte)) /\ Len(y) = h
  <2>1. /\ ItemsAfter(q, 0, t) \in Seq(Seq(AnyByte)) /\ Len(ItemsAfter(q, 0, t)) = t
        /\ ItemsAfter(q, 0, h) \in Seq(Seq(AnyByte)) /\ Len(ItemsAfter(q, 0, h)) = h
    BY <1>n, ItemsType
  <2> QED
    BY <1>3, <2>1, Zenon
<1>5. /\ \A j \in 1..t : x[j] = Item(q, 0 + j)
      /\ \A j \in 1..h : y[j] = Item(q, 0 + j)
  BY <1>3 DEF ItemsAfter
<1>6. y = SubSeq(x, 1, h)
  <2>1. /\ SubSeq(x, 1, h) \in Seq(Seq(AnyByte)) /\ Len(SubSeq(x, 1, h)) = h
        /\ \A j \in 1..h : SubSeq(x, 1, h)[j] = x[j]
    BY <1>n, <1>t, <1>4
  <2>2. \A j \in 1..h : y[j] = SubSeq(x, 1, h)[j]
    BY <1>n, <1>t, <1>5, <2>1
  <2> QED
    BY <1>4, <2>1, <2>2, SeqEqual
<1>7. sent \in Seq(MessageKinds)
  BY <1>n DEF SentAs
<1> QED
  BY <1>n, <1>t, <1>2, <1>3, <1>4, <1>6, <1>7, Zenon DEF HandedFirst

LEMMA StreamSend ==
    ASSUME PipeIInv, NEW kind \in MessageKinds, Send(kind)
    PROVE  Stream!Send
<1>1. sent \in Seq(MessageKinds) /\ SentItems \in Seq(Seq(AnyByte))
  BY SentType DEF HandedFirst
<1>2. sent' = Append(sent, kind) /\ handed' = handed
  BY DEF Send
<1>3. ItemsOf(Append(sent, kind)) = Cat(ItemsOf(sent), Items(Len(sent) + 1, kind))
  BY <1>1, ItemsOfAppend
<1>4. PICK x, y, u : /\ x = SentItems /\ y = Items(Len(sent) + 1, kind) /\ u = x \o y
  OBVIOUS
<1>5. SentItems' = u
  BY <1>2, <1>3, <1>4, Zenon DEF SentItems, ItemsOf, Cat
<1>6. y \in Seq(Seq(AnyByte))
  BY <1>1, <1>4, ItemsMade
<1>7. x = SubSeq(u, 1, Len(x))
  <2>1. x \in Seq(Seq(AnyByte)) /\ Len(x) \in Nat
    BY <1>1, <1>4
  <2>2. /\ u \in Seq(Seq(AnyByte)) /\ Len(u) = Len(x) + Len(y)
        /\ \A j \in 1..Len(x) : u[j] = x[j]
    BY <1>4, <1>6, <2>1
  <2>3. /\ SubSeq(u, 1, Len(x)) \in Seq(Seq(AnyByte)) /\ Len(SubSeq(u, 1, Len(x))) = Len(x)
        /\ \A j \in 1..Len(x) : SubSeq(u, 1, Len(x))[j] = u[j]
    BY <1>6, <2>1, <2>2
  <2> QED
    BY <2>1, <2>2, <2>3, SeqEqual
<1> QED
  BY <1>2, <1>4, <1>5, <1>7, Zenon DEF Stream!Send

\* A step of the hub that leaves the invariant, and takes nothing back of what was handed over.
LEMMA StreamDeliver ==
    ASSUME HandedFirst, HandedFirst', sent' = sent, Grown(handed, handed')
    PROVE  [Stream!Next]_<<SentItems, handed>>
<1>1. SentItems' = SentItems
  BY Zenon DEF SentItems
<1>2. /\ Len(handed) \in Nat /\ Len(handed) <= Len(SentItems)
      /\ handed = SubSeq(SentItems, 1, Len(handed))
      /\ SentItems \in Seq(Seq(AnyByte))
  BY DEF HandedFirst
<1>3. /\ Len(handed') \in Nat /\ Len(handed') <= Len(SentItems')
      /\ handed' = SubSeq(SentItems', 1, Len(handed'))
  BY DEF HandedFirst
<1>0. PICK x : x = SentItems
  OBVIOUS
<1>m. PICK y \in Nat, n \in Nat : y = Len(handed) /\ n = Len(handed')
  BY <1>2, <1>3, Zenon
<1>4. x = SentItems /\ y = Len(handed) /\ n = Len(handed')
  BY <1>0, <1>m
<1>5. handed = SubSeq(x, 1, y) /\ handed' = SubSeq(x, 1, n) /\ y <= n /\ n <= Len(x)
  BY <1>1, <1>2, <1>3, <1>4, Zenon DEF Grown
<1>6. Len(x) \in Nat
  BY <1>2, <1>4
<1>7. CASE n = y
  BY <1>1, <1>5, <1>7, Zenon
<1>8. CASE n # y
  <2>1. n \in y + 1 .. Len(x)
    BY <1>5, <1>6, <1>8
  <2>2. n \in Len(handed) + 1 .. Len(SentItems)
    BY <1>4, <2>1, Zenon
  <2>3. handed' = SubSeq(SentItems, 1, n)
    BY <1>4, <1>5, Zenon
  <2> QED
    BY <1>1, <2>2, <2>3, Zenon DEF Stream!Next, Stream!Deliver
<1> QED
  BY <1>7, <1>8

\* What the stages hand to dispatch are the items the peer sent, cut where it ended them,
\* in its order, none twice and none taken for another: the safety part of ImplementsStream.
THEOREM StreamImplemented ==
    ASSUME ~LateZon
    PROVE  PipeSpec => Stream!Init /\ [][Stream!Next]_<<SentItems, handed>>
<1>1. PipeInit => Stream!Init
  <2> SUFFICES ASSUME PipeInit
               PROVE  Stream!Init
    OBVIOUS
  <2>1. sent = <<>> /\ handed = <<>>
    BY DEF PipeInit
  <2>2. [m \in DOMAIN <<>> |-> Items(m, <<>>[m])] = <<>>
    OBVIOUS
  <2>3. SentItems = <<>>
    BY <2>1, <2>2, JoinedNone, Zenon DEF SentItems
  <2> QED
    BY <2>1, <2>3 DEF Stream!Init
<1>2. PipeIInv => HandedFirst
  BY SentType
<1>3. PipeIInv /\ HandedFirst /\ HandedFirst' /\ [PipeNext]_pipeVars
        => [Stream!Next]_<<SentItems, handed>>
  <2> SUFFICES ASSUME PipeIInv, HandedFirst, HandedFirst', [PipeNext]_pipeVars
               PROVE  [Stream!Next]_<<SentItems, handed>>
    OBVIOUS
  <2>1. CASE \E kind \in MessageKinds : Send(kind)
    BY <2>1, StreamSend, Zenon DEF Stream!Next
  <2>2. CASE Finish \/ \E n \in 0..Len(wire) : Receive(n)
    <3>1. sent' = sent /\ handed' = handed
      BY <2>2 DEF Finish, Receive
    <3> QED
      BY <3>1, Zenon DEF SentItems
  <2>3. CASE HandFrame
    <3>1. PipeIInv' /\ Grown(handed, handed')
      BY <2>3, HandKeeps
    <3>2. sent' = sent
      BY <2>3, Zenon DEF HandFrame
    <3> QED
      BY <3>1, <3>2, StreamDeliver
  <2>4. CASE EndRead
    <3>1. PipeIInv' /\ Grown(handed, handed')
      BY <2>4, EndReadKeeps
    <3>2. sent' = sent
      BY <2>4, Zenon DEF EndRead
    <3> QED
      BY <3>1, <3>2, StreamDeliver
  <2>5. CASE UNCHANGED pipeVars
    <3>1. sent' = sent /\ handed' = handed
      BY <2>5 DEF pipeVars
    <3> QED
      BY <3>1, Zenon DEF SentItems
  <2> QED
    BY <2>1, <2>2, <2>3, <2>4, <2>5, Zenon DEF PipeNext
<1> QED
  BY <1>1, <1>2, <1>3, PipeInvariant, PTL DEF PipeSpec

-----------------------------------------------------------------------------
\* Types: the bytes on the way are bytes of messages that were sent.
LEMMA FrameByteTyped ==
    ASSUME NEW p \in Nat, NEW m \in Nat, 1 <= p, p <= 2 * m, m <= MaxMessages
    PROVE  FrameByte(p) \in Byte
<1>0. BlobLen \in Nat /\ MaxMessages \in Nat
  BY Numbers
<1>1. (p + 1) \div 2 \in 1..MaxMessages
  BY <1>0
<1>2. 2 - (p % 2) \in 1..2 + BlobLen
  BY <1>0
<1>3. FALSE \in BOOLEAN
  OBVIOUS
<1> QED
  BY <1>1, <1>2, <1>3 DEF FrameByte, Byte

LEMMA BlobByteTyped ==
    ASSUME NEW q \in 1..MaxMessages, NEW i \in 1..BlobLen
    PROVE  BlobByte(q, i) \in Byte
<1>0. BlobLen \in Nat /\ MaxMessages \in Nat
  BY Numbers
<1>1. 2 + i \in 1..2 + BlobLen
  BY <1>0
<1> QED
  BY <1>1 DEF BlobByte, Byte

LEMMA StreamByteTyped ==
    ASSUME NEW q, NEW z, NEW s, SentAs(q, z, s), NEW p \in Nat, 1 <= p,
           p <= End(q, Total(q, s))
    PROVE  Plain(q)[p] \in Byte /\ Wired(q, z)[p] \in Byte
<1>n. /\ BlobLen \in Nat /\ BlobLen >= 1 /\ MaxMessages \in Nat
      /\ NoMessage = MaxMessages + BlobLen + 1
  BY Numbers DEF NoMessage
<1>1. PICK m \in Nat : m = Len(s) /\ m <= MaxMessages
  BY DEF SentAs
<1>2. q \in Nat /\ z \in Nat /\ (q \in 1..m \/ q = NoMessage)
  BY <1>n, <1>1 DEF SentAs
<1>3. \/ q \in 1..m /\ p <= 2 * m + BlobLen
      \/ q = NoMessage /\ p <= 2 * m
  <2>1. CASE q \in 1..m
    <3>1. Total(q, s) = m + 1
      BY <1>1, <2>1 DEF Total
    <3>2. End(q, m + 1) = 2 * m + BlobLen
      BY <1>n, <2>1 DEF End
    <3> QED
      BY <2>1, <3>1, <3>2
  <2>2. CASE q = NoMessage
    <3>1. ~(q <= m) /\ m <= q
      BY <1>n, <1>1, <2>2
    <3>2. Total(q, s) = m
      BY <1>1, <3>1 DEF Total
    <3>3. End(q, m) = 2 * m
      BY <3>1 DEF End
    <3> QED
      BY <2>2, <3>2, <3>3
  <2> QED
    BY <1>2, <2>1, <2>2
<1>4. ByteAt(q, p) \in Byte
  <2>1. CASE p <= 2 * q
    <3>1. FrameByte(p) \in Byte
      <4>1. CASE q \in 1..m
        <5>1. q \in Nat /\ q <= MaxMessages
          BY <1>n, <1>1, <4>1
        <5> QED
          BY <2>1, <5>1, FrameByteTyped
      <4>2. CASE q = NoMessage /\ p <= 2 * m
        BY <1>1, <4>2, FrameByteTyped
      <4> QED
        BY <1>3, <4>1, <4>2
    <3> QED
      BY <2>1, <3>1, Zenon DEF ByteAt
  <2>2. CASE ~(p <= 2 * q) /\ p <= 2 * q + BlobLen
    <3>1. q \in 1..MaxMessages /\ p - 2 * q \in 1..BlobLen
      BY <1>n, <1>1, <1>2, <1>3, <2>2
    <3>2. BlobByte(q, p - 2 * q) \in Byte
      BY <3>1, BlobByteTyped
    <3> QED
      BY <2>2, <3>2, Zenon DEF ByteAt
  <2>3. CASE ~(p <= 2 * q) /\ ~(p <= 2 * q + BlobLen)
    <3>1. p - BlobLen \in Nat /\ 1 <= p - BlobLen /\ p - BlobLen <= 2 * m
      BY <1>n, <1>1, <1>2, <1>3, <2>3
    <3>2. FrameByte(p - BlobLen) \in Byte
      BY <1>1, <3>1, FrameByteTyped
    <3> QED
      BY <2>3, <3>2, Zenon DEF ByteAt
  <2> QED
    BY <2>1, <2>2, <2>3
<1>5. Plain(q)[p] \in Byte
  BY <1>2, <1>4, PlainAt
<1>6. Zipped(Plain(q)[p]) \in Byte
  BY <1>5 DEF Zipped, Byte
<1>7. p <= 2 * z \/ p > 2 * z
  BY <1>2
<1> QED
  BY <1>2, <1>5, <1>6, <1>7, WiredIs

LEMMA SegTyped ==
    ASSUME NEW q, NEW z, NEW s, SentAs(q, z, s), NEW a \in Nat, NEW b \in Nat,
           b <= End(q, Total(q, s))
    PROVE  Seg(Plain(q), a, b) \in Seq(Byte) /\ Seg(Wired(q, z), a, b) \in Seq(Byte)
<1>1. PICK n \in Nat : IF a <= b THEN n = b - a ELSE n = 0
  <2>1. CASE a <= b
    <3>1. b - a \in Nat
      BY <2>1
    <3> QED
      BY <2>1, <3>1
  <2>2. CASE ~(a <= b)
    <3>1. 0 \in Nat
      OBVIOUS
    <3> QED
      BY <2>2, <3>1
  <2> QED
    BY <2>1, <2>2
<1>e. End(q, Total(q, s)) \in Nat
  <2>1. q \in Nat /\ Total(q, s) \in Nat
    BY SentOrder DEF Order
  <2> QED
    BY <2>1, EndMonotonic
<1>2. \A j \in 1..(b - a) : a + j \in Nat /\ 1 <= a + j /\ a + j <= End(q, Total(q, s))
  BY <1>e
<1>3. \A j \in 1..(b - a) : Plain(q)[a + j] \in Byte /\ Wired(q, z)[a + j] \in Byte
  BY <1>2, StreamByteTyped
<1>4. 1..(b - a) = 1..n
  BY <1>1
<1> QED
  BY <1>3, <1>4 DEF Seg

LEMMA ItemsTyped ==
    ASSUME NEW q, NEW z, NEW s, SentAs(q, z, s), NEW a \in Nat, NEW n \in Nat,
           a + n <= Total(q, s)
    PROVE  ItemsAfter(q, a, n) \in Seq(Seq(Byte))
<1>1. q \in Nat /\ Total(q, s) \in Nat
  BY SentOrder DEF Order
<1>2. ASSUME NEW j \in 1..n
      PROVE  Item(q, a + j) \in Seq(Byte)
  <2>1. PICK m \in Nat : m = a + j /\ m >= 1 /\ m <= Total(q, s)
    BY <1>1
  <2>2. PICK l \in Nat : l = m - 1 /\ l + 1 = m
    BY <2>1
  <2>3. /\ End(q, l) \in Nat /\ End(q, m) \in Nat
        /\ Seg(Plain(q), End(q, l), End(q, m)) = Item(q, m)
    <3>1. Seg(Plain(q), End(q, l), End(q, l + 1)) = Item(q, l + 1)
      BY <1>1, ItemAt
    <3>2. End(q, l) \in Nat /\ End(q, m) \in Nat
      BY <1>1, EndMonotonic
    <3> QED
      BY <2>2, <3>1, <3>2, Zenon
  <2>4. End(q, m) <= End(q, Total(q, s))
    BY <1>1, <2>1, EndMonotonic
  <2>5. Seg(Plain(q), End(q, l), End(q, m)) \in Seq(Byte)
    BY <2>3, <2>4, SegTyped
  <2> QED
    BY <2>1, <2>3, <2>5, Zenon
<1> QED
  BY <1>2 DEF ItemsAfter

LEMMA LineTyped ==
    ASSUME NEW f, NEW a, NEW b, Seg(f, a, b) \in Seq(Byte)
    PROVE  LineAt(f, a, b) \in Stage
<1>1. 0 \in 0..BlobLen
  BY Numbers
<1> QED
  BY <1>1 DEF LineAt, Stage

LEMMA CountedTyped ==
    ASSUME NEW b \in Seq(Byte), NEW l \in 0..BlobLen
    PROVE  Counted(b, l) \in Stage
BY DEF Counted, Stage

LEMMA StagesTyped ==
    ASSUME NEW q, NEW z, NEW s, SentAs(q, z, s), NEW h \in Nat, NEW k \in Nat, NEW e \in Nat,
           h <= k, End(q, k) <= e, e <= End(q, Total(q, s))
    PROVE  /\ StagesAt(q, z, h, e, LineNow(q, z, h, k, e)) \in Seq(Stage)
           /\ StagesAt(q, z, h, e, LineNow(q, z, h, k, e)) # <<>>
<1> DEFINE l == LineNow(q, z, h, k, e)
           c == CountedAt(q, e)
           f == LineStream(q, z, h)
<1>1. q \in Nat /\ z \in Nat /\ BlobLen \in Nat
  BY SentOrder, Numbers DEF Order
<1>2. f = Plain(q) \/ f = Wired(q, z)
  BY Zenon DEF LineStream
<1>3. l \in Stage
  <2>1. CASE q <= h /\ Wanted(q, e)
    <3>1. l = LineAt(f, End(q, q + 1), End(q, q + 1))
      BY <2>1, Zenon DEF LineNow, LineIn
    <3>2. End(q, q + 1) \in Nat
      <4>1. q + 1 \in Nat
        BY <1>1
      <4> QED
        BY <1>1, <4>1, EndMonotonic
    <3>3. Seg(f, End(q, q + 1), End(q, q + 1)) \in Seq(Byte)
      <4>1. Seg(f, End(q, q + 1), End(q, q + 1)) = <<>>
        BY <3>2, SegEmpty
      <4>2. <<>> \in Seq(Byte)
        OBVIOUS
      <4> QED
        BY <4>1, <4>2, Zenon
    <3> HIDE DEF f, l
    <3> QED
      BY <3>1, <3>3, LineTyped, Zenon
  <2>2. CASE ~(q <= h /\ Wanted(q, e))
    <3>1. l = LineAt(f, End(q, k), e)
      BY <2>2, Zenon DEF LineNow, LineIn
    <3>2. End(q, k) \in Nat
      BY <1>1, EndMonotonic
    <3>3. Seg(Plain(q), End(q, k), e) \in Seq(Byte) /\ Seg(Wired(q, z), End(q, k), e) \in Seq(Byte)
      BY <3>2, SegTyped
    <3> HIDE DEF f, l
    <3>4. Seg(f, End(q, k), e) \in Seq(Byte)
      BY <1>2, <3>3, Zenon
    <3> QED
      BY <3>1, <3>4, LineTyped, Zenon
  <2> QED
    BY <2>1, <2>2
<1>4. q <= h => c \in Stage
  <2> SUFFICES ASSUME q <= h
               PROVE  c \in Stage
    OBVIOUS
  <2>1. 2 * q <= e
    <3>1. q <= k
      BY <1>1
    <3>2. End(q, q) <= End(q, k) /\ End(q, q) \in Nat /\ End(q, k) \in Nat
      BY <1>1, <3>1, EndMonotonic
    <3>3. End(q, q) = 2 * q
      BY <1>1 DEF End
    <3> QED
      BY <3>2, <3>3
  <2>2. Held(q, e) \in Seq(Byte)
    <3>1. 2 * q \in Nat
      BY <1>1
    <3>2. Seg(Plain(q), 2 * q, e) \in Seq(Byte)
      BY <3>1, SegTyped
    <3>3. <<>> \in Seq(Byte)
      OBVIOUS
    <3> QED
      BY <3>2, <3>3, Zenon DEF Held
  <2>3. Left(q, e) \in 0..BlobLen
    BY <1>1, <2>1 DEF Left, Wanted
  <2>4. Counted(Held(q, e), Left(q, e)) \in Stage
    BY <2>2, <2>3, CountedTyped
  <2> QED
    BY <2>4, Zenon DEF CountedAt
<1>5. InflateStage \in Stage
  <2>1. 0 \in 0..BlobLen
    BY <1>1
  <2> QED
    BY <2>1 DEF InflateStage, Stage
<1> HIDE DEF l, c, f
<1>6. /\ <<l>> \in Seq(Stage) /\ <<InflateStage, l>> \in Seq(Stage)
      /\ q <= h => <<c, l>> \in Seq(Stage) /\ <<InflateStage, c, l>> \in Seq(Stage)
  BY <1>3, <1>4, <1>5
<1>7. <<l>> # <<>> /\ <<c, l>> # <<>> /\ <<InflateStage, l>> # <<>> /\ <<InflateStage, c, l>> # <<>>
  OBVIOUS
<1> QED
  BY <1>6, <1>7, Zenon DEF StagesAt, l, c

LEMMA CarriedTyped ==
    ASSUME NEW q, NEW z, NEW h, NEW k, NEW e, NEW i, NEW c,
           Carried(q, z, sent, h, k, e, i, c, pipe, cbuf, wire, handed),
           Closing(q, sent, h, i, fin, last, control)
    PROVE  PipeTypeOK
<1>n. q \in Nat /\ z \in Nat /\ h \in Nat /\ k \in Nat /\ e \in Nat /\ i \in Nat /\ c \in Nat
  BY CarriedFields
<1>0. /\ SentAs(q, z, sent) /\ Total(q, sent) \in Nat
      /\ h <= k /\ k <= Total(q, sent) /\ h <= Total(q, sent)
      /\ End(q, k) <= e /\ e <= i /\ i <= c /\ c <= End(q, Total(q, sent))
      /\ End(q, k) \in Nat /\ End(q, Total(q, sent)) \in Nat
      /\ handed = ItemsAfter(q, 0, h) /\ pipe = PipeNow(q, z, h, k, e, i)
      /\ cbuf = Seg(Wired(q, z), i, c) /\ wire = Seg(Wired(q, z), c, End(q, Total(q, sent)))
  BY CarriedFields
<1>1. PICK y \in Nat : y = End(q, Total(q, sent)) /\ e <= y /\ i <= y /\ c <= y
  BY <1>n, <1>0
<1>2. /\ e <= End(q, Total(q, sent)) /\ i <= End(q, Total(q, sent)) /\ c <= End(q, Total(q, sent))
      /\ y <= End(q, Total(q, sent))
  BY <1>1
<1>3. /\ pipe.stages = StagesAt(q, z, h, e, LineNow(q, z, h, k, e))
      /\ pipe.input = Seg(Wired(q, z), e, i) /\ pipe.deferred = Between(q, h, k)
      /\ pipe.sticky = Off
  <2>1. PICK S, I, D : /\ S = StagesAt(q, z, h, e, LineNow(q, z, h, k, e))
                       /\ I = Seg(Wired(q, z), e, i) /\ D = Between(q, h, k)
    OBVIOUS
  <2>2. pipe = PipeOf(S, I, D)
    BY <1>0, <2>1, Zenon DEF PipeNow
  <2>3. pipe.stages = S /\ pipe.input = I /\ pipe.deferred = D /\ pipe.sticky = Off
    BY <2>2, PipeOfFields
  <2> QED
    BY <2>1, <2>3, Zenon
<1>4. pipe.stages \in Seq(Stage) /\ pipe.stages # <<>>
  <2>1. /\ SentAs(q, z, sent) /\ h <= k /\ End(q, k) <= e
    BY <1>0
  <2>2. /\ StagesAt(q, z, h, e, LineNow(q, z, h, k, e)) \in Seq(Stage)
        /\ StagesAt(q, z, h, e, LineNow(q, z, h, k, e)) # <<>>
    BY <1>n, <1>2, <2>1, StagesTyped
  <2> QED
    BY <1>3, <2>2, Zenon
<1>5. wire \in Seq(Byte) /\ cbuf \in Seq(Byte) /\ pipe.input \in Seq(Byte)
  <2>1. SentAs(q, z, sent)
    BY <1>0
  <2>2. /\ Seg(Wired(q, z), e, i) \in Seq(Byte) /\ Seg(Wired(q, z), i, c) \in Seq(Byte)
        /\ Seg(Wired(q, z), c, y) \in Seq(Byte)
    BY <1>n, <1>2, <2>1, SegTyped
  <2> QED
    BY <1>0, <1>1, <1>3, <2>2, Zenon
<1>6. pipe.deferred \in Seq(Seq(Byte)) /\ handed \in Seq(Seq(Byte))
  <2>1. k - h \in Nat /\ h + (k - h) <= Total(q, sent) /\ 0 + h <= Total(q, sent)
    BY <1>n, <1>0
  <2>2. SentAs(q, z, sent)
    BY <1>0
  <2>3. ItemsAfter(q, h, k - h) \in Seq(Seq(Byte)) /\ ItemsAfter(q, 0, h) \in Seq(Seq(Byte))
    BY <1>n, <2>1, <2>2, ItemsTyped
  <2> QED
    BY <1>0, <1>3, <2>3, Zenon DEF Between
<1>7. sent \in Seq(MessageKinds) /\ Len(sent) <= MaxMessages
  BY <1>0, Zenon DEF SentAs
<1>8. fin \in BOOLEAN /\ last \in BOOLEAN /\ control \in {"idle", "reading", "closed"}
  BY Zenon DEF Closing
<1>9. pipe.sticky \in BOOLEAN
  BY <1>3 DEF Off
<1>10. {fin, last} \subseteq BOOLEAN /\ {wire, cbuf, pipe.input} \subseteq Seq(Byte)
  BY <1>5, <1>8
<1> QED
  BY <1>4, <1>6, <1>7, <1>8, <1>9, <1>10, Zenon DEF PipeTypeOK

\* The types of the buffers, of the stages and of what was handed over.
THEOREM PipeTypeCorrect ==
    ASSUME ~LateZon
    PROVE  PipeSpec => []PipeTypeOK
<1>1. PipeIInv => PipeTypeOK
  BY CarriedTyped, Zenon DEF PipeIInv
<1> QED
  BY <1>1, PipeInvariant, PTL
=============================================================================
