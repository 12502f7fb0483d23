------------------------- MODULE IdempotencyProofs -------------------------
(***************************************************************************)
(* Proofs about Idempotency, for any keys, any caps and any TTL.           *)
(*                                                                         *)
(* The books of the store (Book: entries, slots and count agree) survive   *)
(* every step.  By them the loop of idem_store drops an answer only when   *)
(* the cap less one younger ones are live, all of keys answered since: so  *)
(* what is dropped was not owed any more.                                  *)
(***************************************************************************)
EXTENDS Idempotency, FiniteSetTheorems, SequenceTheorems, TLAPS

LiveIn(m) == {k \in Keys : m[k] # None}

Younger(m, j) == {k \in LiveIn(m) : m[k].ord > m[j].ord}

SlotOf(m, k) == [key |-> k, ord |-> m[k].ord]

\* A map, a count, an order and the next ordinal that agree.
Book(m, s, o, next) ==
    /\ m \in [Keys -> Entry \cup {None}] /\ o \in Seq(Slot) /\ next \in Nat \ {0}
    /\ s = Cardinality(LiveIn(m))
    /\ \A k \in LiveIn(m) : \E i \in 1..Len(o) : o[i] = SlotOf(m, k)
    /\ \A i, j \in 1..Len(o) : i < j => o[i].ord < o[j].ord
    /\ \A i \in 1..Len(o) : o[i].ord < next

\* An entry is its key's last answer.  It was stored when the clock was set back
\* no more than it is now.
Dated ==
    \A k \in Live :
        /\ answered[k] # None /\ map[k].run = answered[k].run
        /\ answered[k].at <= uptime
        /\ map[k].ts - answered[k].at <= MaxBack
        /\ map[k].ts - answered[k].at >= MaxBack - Back

\* An answer that is owed and not too old is there, and every younger one is of
\* a key that was answered since.
Owes ==
    \A k \in owed :
        /\ answered[k] # None
        /\ uptime - answered[k].at < Ttl => k \in Live
        /\ k \in Live => \A j \in Live : map[j].ord > map[k].ord => j \in newer[k]

IInv == TypeOK /\ Book(map, size, order, ordNext) /\ Dated /\ Owes

-----------------------------------------------------------------------------
\* An entry has its type, and none is taken for one.
LEMMA EntryType ==
    ASSUME NEW m, m \in [Keys -> Entry \cup {None}], NEW k \in Keys
    PROVE  /\ m[k] # None => /\ m[k] \in Entry /\ m[k].run \in Nat
                             /\ m[k].ts \in Nat /\ m[k].ord \in Nat \ {0}
           /\ LiveIn(m) \subseteq Keys /\ IsFiniteSet(LiveIn(m))
           /\ Cardinality(LiveIn(m)) \in Nat
<1>1. LiveIn(m) \subseteq Keys
    BY DEF LiveIn
<1>2. IsFiniteSet(LiveIn(m)) /\ Cardinality(LiveIn(m)) \in Nat
    BY <1>1, FS_Subset, FS_CardinalityType, IdempotencyAssumption
<1>3. m[k] # None => m[k] \in Entry
    OBVIOUS
<1> QED
    BY <1>1, <1>2, <1>3 DEF Entry

\* A union is no larger than its parts together.
LEMMA Union ==
    ASSUME NEW S, NEW T, IsFiniteSet(S), IsFiniteSet(T)
    PROVE  /\ IsFiniteSet(S \cup T) /\ Cardinality(S \cup T) \in Nat
           /\ Cardinality(S \cup T) <= Cardinality(S) + Cardinality(T)
<1>1. /\ IsFiniteSet(S \cup T)
      /\ Cardinality(S \cup T) = Cardinality(S) + Cardinality(T) - Cardinality(S \cap T)
    BY FS_Union
<1>2. /\ Cardinality(S) \in Nat /\ Cardinality(T) \in Nat
      /\ Cardinality(S \cap T) \in Nat /\ Cardinality(S \cup T) \in Nat
    BY <1>1, FS_CardinalityType, FS_Intersection
<1> QED
    BY <1>1, <1>2

LEMMA NoneIsNoEntry ==
    /\ None \notin Entry /\ \A r, t \in Nat : [run |-> r, at |-> t] # None
    /\ \A r, t, n \in Nat : [run |-> r, ts |-> t, ord |-> n] # None
<1>1. None \notin [run : Int, ts : Int, ord : Int] /\ None \notin [run : Int, at : Int]
    BY IdempotencyAssumption
<1>2. Entry \subseteq [run : Int, ts : Int, ord : Int]
    BY DEF Entry
<1>3. \A r, t \in Nat : [run |-> r, at |-> t] \in [run : Int, at : Int]
    OBVIOUS
<1>4. \A r, t, n \in Nat : [run |-> r, ts |-> t, ord |-> n] \in [run : Int, ts : Int, ord : Int]
    OBVIOUS
<1> QED
    BY <1>1, <1>2, <1>3, <1>4

\* Two slots of the order are different.
LEMMA SlotsDiffer ==
    ASSUME NEW m, NEW s, NEW o, NEW next, Book(m, s, o, next),
           NEW i \in 1..Len(o), NEW j \in 1..Len(o), o[i].ord = o[j].ord
    PROVE  i = j
<1>1. /\ i \in Int /\ j \in Int /\ o[i].ord \in Nat /\ o[j].ord \in Nat
      /\ i < j => o[i].ord < o[j].ord
      /\ j < i => o[j].ord < o[i].ord
    <2>1. o \in Seq(Slot)
        BY DEF Book
    <2>2. Len(o) \in Nat /\ o[i] \in Slot /\ o[j] \in Slot
        BY <2>1, LenProperties, ElementOfSeq
    <2> QED
        BY <2>2 DEF Book, Slot
<1> QED
    BY <1>1

\* Which entries go with the first n slots: those whose slot is one of them.
LEMMA GoneIs ==
    ASSUME NEW m, NEW s, NEW o, NEW next, Book(m, s, o, next),
           NEW n \in 0..Len(o), NEW k \in LiveIn(m), NEW i \in 1..Len(o),
           o[i] = SlotOf(m, k)
    PROVE  k \in Gone(m, o, n) <=> i <= n
<1>0. Len(o) \in Nat /\ n \in Int /\ i \in Int /\ k \in Keys /\ m[k] # None
    BY LenProperties DEF Book, LiveIn
<1>1. ASSUME k \in Gone(m, o, n) PROVE i <= n
    <2>1. PICK j \in 1..n : o[j] = SlotOf(m, k)
        BY <1>1 DEF Gone, SlotOf
    <2>2. j \in 1..Len(o)
        BY <1>0
    <2>3. i = j
        BY <2>1, <2>2, SlotsDiffer
    <2> QED
        BY <1>0, <2>3
<1>2. ASSUME i <= n PROVE k \in Gone(m, o, n)
    BY <1>0, <1>2 DEF Gone, SlotOf
<1> QED
    BY <1>1, <1>2

LEMMA GoneBounds ==
    ASSUME NEW m, NEW s, NEW o, NEW next, Book(m, s, o, next), NEW n \in 0..Len(o)
    PROVE  /\ Gone(m, o, n) \subseteq LiveIn(m) /\ IsFiniteSet(Gone(m, o, n))
           /\ Cardinality(Gone(m, o, n)) \in Nat
           /\ n = 0 => Gone(m, o, n) = {}
           /\ n = Len(o) => Gone(m, o, n) = LiveIn(m)
           /\ n > 0 => Cardinality(Gone(m, o, n)) <= Cardinality(Gone(m, o, n - 1)) + 1
<1>0. Len(o) \in Nat /\ n \in Int /\ IsFiniteSet(LiveIn(m))
    <2>1. IsFiniteSet(Keys) /\ LiveIn(m) \subseteq Keys
        BY IdempotencyAssumption DEF LiveIn
    <2> QED
        BY <2>1, FS_Subset, LenProperties DEF Book
<1>1. \A l \in 0..Len(o) : Gone(m, o, l) \subseteq LiveIn(m)
    BY DEF Gone, LiveIn
<1>2. \A l \in 0..Len(o) : IsFiniteSet(Gone(m, o, l)) /\ Cardinality(Gone(m, o, l)) \in Nat
    BY <1>0, <1>1, FS_Subset, FS_CardinalityType
<1>3. n = 0 => Gone(m, o, n) = {}
    BY <1>0 DEF Gone
<1>4. ASSUME n = Len(o) PROVE Gone(m, o, n) = LiveIn(m)
    <2>1. ASSUME NEW k \in LiveIn(m) PROVE k \in Gone(m, o, n)
        <3>1. PICK i \in 1..Len(o) : o[i] = SlotOf(m, k)
            BY DEF Book
        <3> QED
            BY <3>1, <1>0, <1>4, GoneIs
    <2> QED
        BY <2>1, <1>1
<1>5. ASSUME n > 0
      PROVE Cardinality(Gone(m, o, n)) <= Cardinality(Gone(m, o, n - 1)) + 1
    <2> DEFINE T == Gone(m, o, n - 1) \cup {o[n].key}
    <2>1. n - 1 \in 0..Len(o)
        BY <1>0, <1>5
    <2>2. Gone(m, o, n) \subseteq T
        <3>1. SUFFICES ASSUME NEW k \in Gone(m, o, n) PROVE k \in T
            OBVIOUS
        <3>2. PICK i \in 1..n : o[i] = [key |-> k, ord |-> m[k].ord]
            BY DEF Gone
        <3>3. CASE i = n
            BY <3>2, <3>3
        <3>4. CASE i \in 1..(n - 1)
            BY <3>2, <3>4 DEF Gone
        <3> QED
            BY <1>0, <3>3, <3>4
    <2>3. /\ IsFiniteSet(T) /\ Cardinality(T) \in Nat
          /\ Cardinality(T) <= Cardinality(Gone(m, o, n - 1)) + 1
        <3>1. /\ IsFiniteSet(Gone(m, o, n - 1))
              /\ Cardinality(Gone(m, o, n - 1)) \in Nat
            BY <1>2, <2>1
        <3>2. /\ IsFiniteSet(T)
              /\ Cardinality(T) = IF o[n].key \in Gone(m, o, n - 1)
                                   THEN Cardinality(Gone(m, o, n - 1))
                                   ELSE Cardinality(Gone(m, o, n - 1)) + 1
            BY <3>1, FS_AddElement
        <3> HIDE DEF T
        <3> QED
            BY <3>1, <3>2
    <2> HIDE DEF T
    <2>4. Cardinality(Gone(m, o, n)) <= Cardinality(T)
        BY <2>2, <2>3, FS_Subset
    <2> QED
        BY <1>2, <2>1, <2>3, <2>4
<1>6. /\ Gone(m, o, n) \subseteq LiveIn(m) /\ IsFiniteSet(Gone(m, o, n))
      /\ Cardinality(Gone(m, o, n)) \in Nat
    BY <1>1, <1>2
<1> QED
    BY <1>3, <1>4, <1>5, <1>6

\* The entry of a slot is older than every entry of a later slot.
LEMMA SlotOrder ==
    ASSUME NEW m, NEW s, NEW o, NEW next, Book(m, s, o, next),
           NEW j \in LiveIn(m), NEW k \in LiveIn(m),
           NEW a \in 1..Len(o), NEW b \in 1..Len(o),
           o[a] = SlotOf(m, j), o[b] = SlotOf(m, k)
    PROVE  /\ m[j].ord \in Nat /\ m[k].ord \in Nat /\ m[j].ord < next
           /\ a < b <=> m[j].ord < m[k].ord
<1>1. /\ o[a].ord = m[j].ord /\ o[b].ord = m[k].ord
    BY DEF SlotOf
<1>2. /\ a \in Int /\ b \in Int
      /\ o[a].ord \in Nat /\ o[b].ord \in Nat
      /\ a < b => o[a].ord < o[b].ord
      /\ b < a => o[b].ord < o[a].ord
      /\ o[a].ord < next
    <2>1. o \in Seq(Slot)
        BY DEF Book
    <2>2. o[a] \in Slot /\ o[b] \in Slot
        BY <2>1, ElementOfSeq
    <2> QED
        BY <2>2 DEF Book, Slot
<1> QED
    BY <1>1, <1>2

\* What the loop of idem_store drops: entries older than all it leaves, and for
\* each of them there are as many younger ones as the cap less one.
LEMMA LoopDrops ==
    ASSUME NEW m, NEW s, NEW o, NEW next, Book(m, s, o, next), cap \in Nat \ {0},
           NEW n \in 0..Len(o), Drops(m, s, o, n)
    PROVE  /\ s - Cardinality(Gone(m, o, n)) < cap
           /\ Gone(m, o, n) # {} => s - Cardinality(Gone(m, o, n)) + 1 = cap
           /\ \A j \in Gone(m, o, n) :
                /\ \A k \in LiveIn(m) \ Gone(m, o, n) : m[j].ord < m[k].ord
                /\ Cardinality(Younger(m, j)) >= cap - 1
<1>0. /\ Len(o) \in Nat /\ n \in Nat /\ n <= Len(o) /\ cap \in Nat /\ cap >= 1
      /\ IsFiniteSet(LiveIn(m)) /\ s = Cardinality(LiveIn(m)) /\ s \in Nat
    <2>1. IsFiniteSet(Keys) /\ LiveIn(m) \subseteq Keys
        BY IdempotencyAssumption DEF LiveIn
    <2> QED
        BY <2>1, FS_Subset, FS_CardinalityType, LenProperties DEF Book
<1>1. /\ Cardinality(Gone(m, o, n)) \in Nat /\ Gone(m, o, n) \subseteq LiveIn(m)
      /\ n = 0 => Gone(m, o, n) = {}
      /\ n = Len(o) => Gone(m, o, n) = LiveIn(m)
      /\ n > 0 => Cardinality(Gone(m, o, n)) <= Cardinality(Gone(m, o, n - 1)) + 1
    BY GoneBounds
<1>2. s - Cardinality(Gone(m, o, n)) < cap
    <2>1. CASE n = Len(o)
        <3>1. Cardinality(Gone(m, o, n)) = s
            BY <1>0, <1>1, <2>1
        <3> QED
            BY <1>0, <3>1
    <2>2. CASE n < Len(o)
        BY <2>2 DEF Drops
    <2> QED
        BY <1>0, <2>1, <2>2
<1>3. ASSUME Gone(m, o, n) # {} PROVE s - Cardinality(Gone(m, o, n)) + 1 = cap
    <2>1. n > 0 /\ n - 1 \in 0..(n - 1) /\ n - 1 \in 0..Len(o)
        BY <1>0, <1>1, <1>3
    <2>2. s - Cardinality(Gone(m, o, n - 1)) >= cap
        BY <2>1 DEF Drops
    <2>3. Cardinality(Gone(m, o, n - 1)) \in Nat
        BY <2>1, GoneBounds
    <2>4. Cardinality(Gone(m, o, n)) <= Cardinality(Gone(m, o, n - 1)) + 1
        BY <1>1, <2>1
    <2> HIDE DEF Gone
    <2> QED
        BY <1>0, <1>1, <1>2, <2>2, <2>3, <2>4
<1>4. ASSUME NEW j \in Gone(m, o, n)
      PROVE  /\ \A k \in LiveIn(m) \ Gone(m, o, n) : m[j].ord < m[k].ord
             /\ Cardinality(Younger(m, j)) >= cap - 1
    <2>0. j \in LiveIn(m)
        BY <1>1
    <2>1. PICK a \in 1..Len(o) : o[a] = SlotOf(m, j)
        BY <2>0 DEF Book
    <2>2. a \in Nat /\ a >= 1 /\ a <= n
        BY <1>0, <2>0, <2>1, GoneIs
    <2>3. ASSUME NEW k \in LiveIn(m) \ Gone(m, o, n) PROVE m[j].ord < m[k].ord
        <3>1. PICK b \in 1..Len(o) : o[b] = SlotOf(m, k)
            BY DEF Book
        <3>2. ~(b <= n) /\ b \in Nat
            BY <1>0, <3>1, GoneIs
        <3>3. a < b
            BY <1>0, <2>2, <3>2
        <3> QED
            BY <2>0, <2>1, <3>1, <3>3, SlotOrder
    <2> DEFINE Y == Younger(m, j)
    <2>4. a - 1 \in 0..(n - 1) /\ a - 1 \in 0..Len(o)
        BY <1>0, <2>2
    <2>5. s - Cardinality(Gone(m, o, a - 1)) >= cap
        BY <2>4 DEF Drops
    <2>6. /\ Cardinality(Gone(m, o, a - 1)) \in Nat /\ IsFiniteSet(Gone(m, o, a - 1))
        BY <2>4, GoneBounds
    <2>7. LiveIn(m) \subseteq Gone(m, o, a - 1) \cup (Y \cup {j})
        <3>1. SUFFICES ASSUME NEW k \in LiveIn(m), k # j, k \notin Gone(m, o, a - 1)
                       PROVE  m[k].ord > m[j].ord
            BY DEF Younger
        <3>2. PICK b \in 1..Len(o) : o[b] = SlotOf(m, k)
            BY DEF Book
        <3>3. ~(b <= a - 1) /\ b \in Nat
            BY <1>0, <2>4, <3>1, <3>2, GoneIs
        <3>4. b # a
            BY <2>1, <3>1, <3>2 DEF SlotOf
        <3>5. a < b
            BY <2>2, <3>3, <3>4
        <3>6. m[j].ord \in Nat /\ m[k].ord \in Nat /\ m[j].ord < m[k].ord
            BY <2>0, <2>1, <3>2, <3>5, SlotOrder
        <3> QED
            BY <3>6
    <2>8. IsFiniteSet(Y) /\ Cardinality(Y) \in Nat
        BY <1>0, FS_Subset, FS_CardinalityType DEF Younger
    <2> HIDE DEF Y
    <2>9. /\ IsFiniteSet(Y \cup {j}) /\ Cardinality(Y \cup {j}) \in Nat
          /\ Cardinality(Y \cup {j}) <= Cardinality(Y) + 1
        <3>1. /\ IsFiniteSet(Y \cup {j})
              /\ Cardinality(Y \cup {j}) =
                   IF j \in Y THEN Cardinality(Y) ELSE Cardinality(Y) + 1
            BY <2>8, FS_AddElement
        <3> QED
            BY <2>8, <3>1
    <2>10. /\ IsFiniteSet(Gone(m, o, a - 1) \cup (Y \cup {j}))
           /\ Cardinality(Gone(m, o, a - 1) \cup (Y \cup {j}))
                <= Cardinality(Gone(m, o, a - 1)) + Cardinality(Y \cup {j})
           /\ Cardinality(Gone(m, o, a - 1) \cup (Y \cup {j})) \in Nat
        BY <2>6, <2>9, Union
    <2>11. s <= Cardinality(Gone(m, o, a - 1) \cup (Y \cup {j}))
        BY <1>0, <2>7, <2>10, FS_Subset
    <2>12. Cardinality(Y) >= cap - 1
        BY <1>0, <2>5, <2>6, <2>8, <2>9, <2>10, <2>11
    <2> QED
        BY <2>3, <2>12 DEF Y
<1> QED
    BY <1>2, <1>3, <1>4

\* The order after n slots were dropped and one was added.
LEMMA OrderAfter ==
    ASSUME NEW o, o \in Seq(Slot), NEW n \in 0..Len(o), NEW e \in Slot,
           NEW t, t = Append(SubSeq(o, n + 1, Len(o)), e)
    PROVE  /\ t \in Seq(Slot) /\ Len(t) = Len(o) - n + 1 /\ Len(t) \in Nat
           /\ \A i \in 1..(Len(o) - n) : t[i] = o[n + i]
           /\ t[Len(o) - n + 1] = e
<1> DEFINE r == SubSeq(o, n + 1, Len(o))
<1>1. Len(o) \in Nat /\ n \in Nat /\ n <= Len(o) /\ \A i \in 1..Len(o) : o[i] \in Slot
    BY LenProperties, ElementOfSeq
<1>2. /\ r \in Seq(Slot)
      /\ Len(r) = IF n + 1 <= Len(o) THEN Len(o) - (n + 1) + 1 ELSE 0
      /\ \A i \in 1..(Len(o) - (n + 1) + 1) : r[i] = o[(n + 1) + i - 1]
    <2>1. n + 1 \in Int /\ Len(o) \in Int /\ \A i \in (n + 1)..Len(o) : o[i] \in Slot
        BY <1>1
    <2> HIDE DEF r
    <2> QED
        BY <2>1, SubSeqProperties DEF r
<1> HIDE DEF r
<1>3. Len(r) = Len(o) - n
    BY <1>1, <1>2
<1>4. \A i \in 1..(Len(o) - n) : r[i] = o[n + i]
    BY <1>1, <1>2
<1>5. /\ t \in Seq(Slot) /\ Len(t) = Len(r) + 1
      /\ \A i \in 1..Len(r) : t[i] = r[i]
      /\ t[Len(r) + 1] = e
    BY <1>2, AppendProperties DEF r
<1> QED
    BY <1>1, <1>3, <1>4, <1>5

\* The books after an answer was stored.
LEMMA StoreBook ==
    ASSUME NEW m, NEW s, NEW o, NEW next, Book(m, s, o, next),
           NEW k \in Keys, m[k] = None, NEW e \in Entry, e.ord = next,
           NEW n \in 0..Len(o), NEW q, NEW t,
           q = [j \in Keys |-> IF j = k THEN e ELSE IF j \in Gone(m, o, n) THEN None ELSE m[j]],
           t = Append(SubSeq(o, n + 1, Len(o)), [key |-> k, ord |-> next])
    PROVE  Book(q, s - Cardinality(Gone(m, o, n)) + 1, t, next + 1)
<1> DEFINE G == Gone(m, o, n)
<1>1. /\ m \in [Keys -> Entry \cup {None}] /\ o \in Seq(Slot) /\ next \in Nat
      /\ s = Cardinality(LiveIn(m))
    BY DEF Book
<1>2. /\ G \subseteq LiveIn(m) /\ IsFiniteSet(G) /\ Cardinality(G) \in Nat
    BY GoneBounds
<1>3. /\ t \in Seq(Slot) /\ Len(t) = Len(o) - n + 1 /\ Len(t) \in Nat
      /\ \A i \in 1..(Len(o) - n) : t[i] = o[n + i]
      /\ t[Len(o) - n + 1] = [key |-> k, ord |-> next]
    <2>1. [key |-> k, ord |-> next] \in Slot
        BY <1>1 DEF Slot
    <2> QED
        BY <1>1, <2>1, OrderAfter
<1>4. Len(o) \in Nat /\ n \in Nat /\ n <= Len(o)
    BY <1>1, LenProperties
<1> HIDE DEF G
<1>5. q \in [Keys -> Entry \cup {None}]
    BY <1>1 DEF G
<1>6. LiveIn(q) = (LiveIn(m) \ G) \cup {k} /\ k \notin LiveIn(m)
    BY NoneIsNoEntry DEF G, LiveIn
<1>7. s - Cardinality(G) + 1 = Cardinality(LiveIn(q))
    <2>1. IsFiniteSet(LiveIn(m)) /\ Cardinality(LiveIn(m)) \in Nat
        BY <1>1, EntryType
    <2>2. /\ IsFiniteSet(LiveIn(m) \ G)
          /\ Cardinality(LiveIn(m) \ G)
               = Cardinality(LiveIn(m)) - Cardinality(LiveIn(m) \cap G)
        BY <2>1, FS_Difference
    <2>3. LiveIn(m) \cap G = G
        BY <1>2
    <2>4. Cardinality(LiveIn(m) \ G) = s - Cardinality(G)
        BY <1>1, <2>2, <2>3
    <2>5. k \notin LiveIn(m) \ G
        BY <1>6
    <2>6. Cardinality((LiveIn(m) \ G) \cup {k}) = Cardinality(LiveIn(m) \ G) + 1
        BY <2>2, <2>5, FS_AddElement
    <2> QED
        BY <1>6, <2>4, <2>6
<1>8. ASSUME NEW j \in LiveIn(q) PROVE \E i \in 1..Len(t) : t[i] = SlotOf(q, j)
    <2>1. CASE j = k
        <3>1. SlotOf(q, j) = [key |-> k, ord |-> next]
            BY <2>1 DEF SlotOf
        <3>2. Len(o) - n + 1 \in 1..Len(t)
            BY <1>3, <1>4
        <3> QED
            BY <1>3, <3>1, <3>2
    <2>2. CASE j # k
        <3>1. j \in LiveIn(m) /\ j \notin G /\ q[j] = m[j]
            BY <1>6, <2>2 DEF LiveIn, G
        <3>2. PICK i \in 1..Len(o) : o[i] = SlotOf(m, j)
            BY <3>1 DEF Book
        <3>3. i \in Nat /\ i <= Len(o) /\ ~(i <= n)
            BY <1>4, <3>1, <3>2, GoneIs DEF G
        <3>4. i - n \in 1..(Len(o) - n) /\ i - n \in 1..Len(t) /\ n + (i - n) = i
            BY <1>3, <1>4, <3>3
        <3>5. t[i - n] = o[n + (i - n)]
            BY <1>3, <3>4
        <3>6. t[i - n] = SlotOf(m, j)
            BY <3>2, <3>4, <3>5
        <3> QED
            BY <3>1, <3>4, <3>6 DEF SlotOf
    <2> QED
        BY <2>1, <2>2
<1>9. next \in Nat /\ next + 1 \in Nat \ {0}
    BY <1>1
<1>10. ASSUME NEW i \in 1..Len(t) PROVE t[i].ord \in Nat /\ t[i].ord < next + 1
    <2>1. t[i] \in Slot
        BY <1>3, ElementOfSeq
    <2>2. CASE i \in 1..(Len(o) - n)
        <3>1. n + i \in 1..Len(o)
            BY <1>4, <2>2
        <3>2. t[i].ord < next
            BY <1>3, <2>2, <3>1 DEF Book
        <3>3. t[i].ord \in Nat /\ next \in Nat
            BY <1>9, <2>1 DEF Slot
        <3> QED
            BY <3>2, <3>3
    <2>3. CASE i = Len(o) - n + 1
        <3>1. t[i].ord = next /\ next \in Nat
            BY <1>3, <1>9, <2>3
        <3>2. next < next + 1
            BY <1>9
        <3> QED
            BY <3>1, <3>2, Zenon
    <2> QED
        BY <1>3, <1>4, <2>2, <2>3
<1>11. ASSUME NEW i \in 1..Len(t), NEW j \in 1..Len(t), i < j
       PROVE  t[i].ord < t[j].ord
    <2>1. i \in 1..(Len(o) - n) /\ n + i \in 1..Len(o)
        BY <1>3, <1>4, <1>11
    <2>2. t[i] = o[n + i]
        BY <1>3, <2>1
    <2>3. CASE j \in 1..(Len(o) - n)
        <3>1. n + j \in 1..Len(o) /\ n + i < n + j
            BY <1>4, <1>11, <2>3
        <3>2. o[n + i].ord < o[n + j].ord
            BY <2>1, <3>1 DEF Book
        <3> QED
            BY <1>3, <2>2, <2>3, <3>2
    <2>4. CASE j = Len(o) - n + 1
        <3>1. t[j].ord = next
            BY <1>3, <2>4
        <3>2. o[n + i].ord < next
            BY <2>1 DEF Book
        <3> QED
            BY <2>2, <3>1, <3>2
    <2>5. j \in 1..(Len(o) - n) \/ j = Len(o) - n + 1
        BY <1>3, <1>4
    <2> QED
        BY <2>3, <2>4, <2>5, Zenon
<1> QED
    BY <1>3, <1>5, <1>7, <1>8, <1>10, <1>11, <1>9 DEF Book, G

LEMMA EmptyBook == Book(EmptyMap, 0, <<>>, 1) /\ \A k \in Keys : EmptyMap[k] = None
<1>1. LiveIn(EmptyMap) = {} /\ EmptyMap \in [Keys -> Entry \cup {None}]
    BY DEF LiveIn, EmptyMap
<1>2. <<>> \in Seq(Slot) /\ Len(<<>>) = 0 /\ 1..0 = {}
    BY EmptySeq
<1>3. Cardinality(LiveIn(EmptyMap)) = 0
    BY <1>1, FS_EmptySet
<1> QED
    BY <1>1, <1>2, <1>3 DEF Book, EmptyMap

\* The books after an answer that is too old was dropped.
LEMMA MissBook ==
    ASSUME Book(map, size, order, ordNext), NEW k \in Keys
    PROVE  /\ Book(Missed(k), MissedSize(k), order, ordNext)
           /\ Missed(k)[k] = None
           /\ \A j \in Keys \ {k} : Missed(k)[j] = map[j]
<1>1. /\ map \in [Keys -> Entry \cup {None}] /\ Missed(k) \in [Keys -> Entry \cup {None}]
      /\ Missed(k)[k] = None /\ \A j \in Keys \ {k} : Missed(k)[j] = map[j]
    BY DEF Book, Missed
<1>2. LiveIn(Missed(k)) = LiveIn(map) \ {k} /\ (k \in LiveIn(map) <=> map[k] # None)
    BY <1>1 DEF LiveIn
<1>3. IsFiniteSet(LiveIn(map)) /\ size = Cardinality(LiveIn(map))
    BY <1>1, EntryType DEF Book
<1>4. MissedSize(k) = Cardinality(LiveIn(Missed(k)))
    <2>1. Cardinality(LiveIn(map) \ {k}) =
            IF k \in LiveIn(map) THEN Cardinality(LiveIn(map)) - 1
            ELSE Cardinality(LiveIn(map))
        BY <1>3, FS_RemoveElement
    <2> QED
        BY <1>2, <1>3, <2>1 DEF MissedSize
<1>5. \A j \in LiveIn(Missed(k)) : j \in LiveIn(map) /\ SlotOf(Missed(k), j) = SlotOf(map, j)
    BY <1>1, <1>2 DEF SlotOf, LiveIn
<1> QED
    BY <1>1, <1>4, <1>5 DEF Book

\* What idem_store does to the store.
LEMMA StoreEffect ==
    ASSUME NEW m, NEW s, NEW o, NEW next, Book(m, s, o, next),
           NEW k \in Keys, m[k] = None, cap \in Nat \ {0},
           runs'[k] \in Nat, clock \in Nat, Store(m, s, o, next, k)
    PROVE  /\ Book(map', size', order', ordNext') /\ ordNext' = next + 1
           /\ map'[k] = [run |-> runs'[k], ts |-> clock, ord |-> next] /\ map'[k] # None
           /\ \A j \in Keys \ {k} : map'[j] # None => map'[j] = m[j]
           /\ \A j \in LiveIn(m) : m[j].ord \in Nat /\ m[j].ord < next
           /\ \A j \in LiveIn(m) : map'[j] = None =>
                /\ Cardinality(Younger(m, j)) >= cap - 1
                /\ \A i \in LiveIn(m) : map'[i] # None => m[j].ord < m[i].ord
           /\ size' <= cap
           /\ (\E j \in LiveIn(m) : map'[j] = None) => size' = cap
<1> DEFINE e == [run |-> runs'[k], ts |-> clock, ord |-> next]
<1>1. PICK n \in 0..Len(o) :
        /\ Drops(m, s, o, n)
        /\ map' = [j \in Keys |->
                     IF j = k THEN e ELSE IF j \in Gone(m, o, n) THEN None ELSE m[j]]
        /\ size' = s - Cardinality(Gone(m, o, n)) + 1
        /\ order' = Append(SubSeq(o, n + 1, Len(o)), [key |-> k, ord |-> next])
        /\ ordNext' = next + 1
    BY DEF Store
<1>2. next \in Nat \ {0} /\ e \in Entry /\ e.ord = next /\ e # None
    <2>1. next \in Nat \ {0}
        BY DEF Book
    <2>2. e \in Entry /\ e.ord = next
        BY <2>1 DEF Entry
    <2> QED
        BY <2>1, <2>2, NoneIsNoEntry
<1>3. map'[k] = e
    BY <1>1
<1> HIDE DEF e
<1>4. Book(map', size', order', ordNext')
    BY <1>1, <1>2, StoreBook
<1>5. /\ Gone(m, o, n) \subseteq LiveIn(m) /\ LiveIn(m) \subseteq Keys /\ k \notin LiveIn(m)
      /\ Cardinality(Gone(m, o, n)) \in Nat /\ s \in Nat
    <2>1. LiveIn(m) \subseteq Keys /\ k \notin LiveIn(m)
        BY DEF LiveIn
    <2>2. s \in Nat
        <3>1. IsFiniteSet(LiveIn(m))
            BY <2>1, FS_Subset, IdempotencyAssumption
        <3> QED
            BY <3>1, FS_CardinalityType DEF Book
    <2> QED
        BY <2>1, <2>2, GoneBounds
<1>6. \A j \in Keys \ {k} : map'[j] # None => map'[j] = m[j]
    BY <1>1
<1>7. \A j \in LiveIn(m) : map'[j] = None <=> j \in Gone(m, o, n)
    BY <1>1, <1>5 DEF LiveIn
<1>8. ASSUME NEW j \in LiveIn(m) PROVE m[j].ord \in Nat /\ m[j].ord < next
    <2>1. PICK i \in 1..Len(o) : o[i] = SlotOf(m, j)
        BY DEF Book
    <2> QED
        BY <2>1, SlotOrder
<1>9. /\ s - Cardinality(Gone(m, o, n)) < cap
      /\ Gone(m, o, n) # {} => s - Cardinality(Gone(m, o, n)) + 1 = cap
      /\ \A j \in Gone(m, o, n) :
           /\ \A i \in LiveIn(m) \ Gone(m, o, n) : m[j].ord < m[i].ord
           /\ Cardinality(Younger(m, j)) >= cap - 1
    BY <1>1, LoopDrops
<1>10. \A j \in LiveIn(m) : map'[j] = None =>
         /\ Cardinality(Younger(m, j)) >= cap - 1
         /\ \A i \in LiveIn(m) : map'[i] # None => m[j].ord < m[i].ord
    BY <1>7, <1>9
<1>11. size' <= cap /\ ((\E j \in LiveIn(m) : map'[j] = None) => size' = cap)
    <2>1. size' <= cap
        BY <1>1, <1>5, <1>9
    <2>2. ASSUME NEW j \in LiveIn(m), map'[j] = None PROVE size' = cap
        BY <1>1, <1>7, <1>9, <2>2
    <2> QED
        BY <2>1, <2>2
<1> QED
    BY <1>1, <1>2, <1>3, <1>4, <1>6, <1>8, <1>10, <1>11 DEF e

\* What is known of the numbers.
LEMMA Numbers ==
    ASSUME TypeOK
    PROVE  /\ cap \in Nat \ {0} /\ Ttl \in Nat /\ Ttl >= 1 /\ MaxBack \in Nat /\ MaxTime \in Nat
           /\ uptime \in Nat /\ uptime <= MaxTime /\ clock \in Nat
           /\ Back = uptime + MaxBack - clock /\ Back >= 0 /\ Back <= MaxBack
           /\ \A k \in Keys : answered[k] # None =>
                answered[k].run \in Nat /\ answered[k].at \in Nat
<1>1. cap \in Nat \ {0} /\ Ttl \in Nat /\ Ttl >= 1 /\ MaxBack \in Nat /\ MaxTime \in Nat
    BY IdempotencyAssumption DEF TypeOK
<1>2. /\ uptime \in Nat /\ uptime <= MaxTime /\ clock \in Nat
      /\ Back \in Int /\ Back >= 0 /\ Back <= MaxBack
    BY <1>1 DEF TypeOK
<1>3. ASSUME NEW k \in Keys, answered[k] # None
      PROVE  answered[k].run \in Nat /\ answered[k].at \in Nat
    <2>1. answered[k] \in [run : Nat, at : 0..MaxTime]
        BY <1>3 DEF TypeOK
    <2> QED
        BY <1>1, <2>1
<1> QED
    BY <1>1, <1>2, <1>3 DEF Back

\* An answer that is stored keeps the invariant: what the loop drops has too many
\* younger answers to be owed.
LEMMA StoreKeeps ==
    ASSUME IInv, NEW m, NEW s, NEW o, NEW next, Book(m, s, o, next),
           NEW k \in Keys, m[k] = None,
           \A j \in Keys \ {k} : m[j] # None => m[j] = map[j],
           NEW kept \in SUBSET owed,
           \A j \in kept \ {k} : uptime - answered[j].at < Ttl => m[j] # None,
           Run(k), Store(m, s, o, next, k), Remember(k, kept),
           UNCHANGED <<cap, clock, uptime>>
    PROVE  IInv'
<1> USE DEF IInv
<1>1. /\ runs \in [Keys -> Nat] /\ runs' \in [Keys -> Nat] /\ runs'[k] \in Nat
    BY DEF TypeOK, Run
<1>2. /\ cap \in Nat \ {0} /\ Ttl \in Nat /\ MaxBack \in Nat
      /\ uptime \in Nat /\ uptime \in 0..MaxTime /\ clock \in Nat
      /\ Back = uptime + MaxBack - clock /\ Back >= 0
      /\ Back' = Back /\ uptime' = uptime /\ clock' = clock /\ cap' = cap
      /\ \A j \in Keys : answered[j] # None => answered[j].at \in Nat
    BY Numbers DEF TypeOK, Back
<1>3. /\ Book(map', size', order', ordNext') /\ ordNext' = next + 1
      /\ map'[k] = [run |-> runs'[k], ts |-> clock, ord |-> next] /\ map'[k] # None
      /\ \A j \in Keys \ {k} : map'[j] # None => map'[j] = m[j]
      /\ \A j \in LiveIn(m) : m[j].ord \in Nat /\ m[j].ord < next
      /\ \A j \in LiveIn(m) : map'[j] = None =>
           Cardinality(Younger(m, j)) >= cap - 1
    <2>1. runs'[k] \in Nat /\ clock \in Nat /\ cap \in Nat \ {0}
        BY <1>1, <1>2
    <2> QED
        BY <2>1, StoreEffect
<1>4. /\ answered' = [answered EXCEPT ![k] = [run |-> runs'[k], at |-> uptime]]
      /\ newer' = [j \in Keys |-> IF j = k THEN {} ELSE newer[j] \cup {k}]
      /\ owed' = {j \in kept \cup {k} : Cardinality(newer'[j]) < cap}
    BY DEF Remember
<1>5. /\ answered \in [Keys -> [run : Nat, at : 0..MaxTime] \cup {None}]
      /\ newer \in [Keys -> SUBSET Keys] /\ owed \subseteq Keys
    BY DEF TypeOK
<1>6. /\ answered'[k] = [run |-> runs'[k], at |-> uptime] /\ answered'[k] # None
      /\ answered'[k].run = runs'[k] /\ answered'[k].at = uptime
      /\ \A j \in Keys \ {k} : answered'[j] = answered[j]
    BY <1>1, <1>2, <1>4, <1>5, NoneIsNoEntry
<1>7. \A j \in Keys \ {k} : map'[j] # None => map'[j] = map[j]
    BY <1>3
<1>8. TypeOK'
    <2>1. answered' \in [Keys -> [run : Nat, at : 0..MaxTime] \cup {None}]
        BY <1>1, <1>2, <1>4, <1>5
    <2>2. newer' \in [Keys -> SUBSET Keys] /\ owed' \in SUBSET Keys
        BY <1>4, <1>5
    <2>3. map' \in [Keys -> Entry \cup {None}] /\ order' \in Seq(Slot) /\ ordNext' \in Nat \ {0}
        BY <1>3 DEF Book
    <2>4. size' \in 0..Cardinality(Keys)
        <3>1. LiveIn(map') \subseteq Keys
            BY DEF LiveIn
        <3>2. /\ Cardinality(LiveIn(map')) <= Cardinality(Keys) /\ Cardinality(Keys) \in Nat
              /\ Cardinality(LiveIn(map')) \in Nat
            BY <3>1, FS_Subset, FS_CardinalityType, IdempotencyAssumption
        <3>3. size' = Cardinality(LiveIn(map'))
            BY <1>3 DEF Book
        <3> QED
            BY <3>2, <3>3
    <2>5. cap' \in Caps /\ uptime' \in 0..MaxTime /\ clock' \in Nat /\ Back' \in 0..MaxBack
        BY <1>2 DEF TypeOK
    <2> QED
        BY <1>1, <2>1, <2>2, <2>3, <2>4, <2>5 DEF TypeOK
<1>9. Dated'
    <2>1. SUFFICES ASSUME NEW j \in Keys, map'[j] # None
                   PROVE  /\ answered'[j] # None /\ map'[j].run = answered'[j].run
                          /\ answered'[j].at <= uptime
                          /\ map'[j].ts - answered'[j].at <= MaxBack
                          /\ map'[j].ts - answered'[j].at >= MaxBack - Back
        BY <1>2 DEF Dated, Live
    <2>2. CASE j = k
        <3>1. map'[j].run = runs'[k] /\ map'[j].ts = clock
            BY <1>3, <2>2
        <3> QED
            BY <1>2, <1>6, <2>2, <3>1
    <2>3. CASE j # k
        <3>1. j \in Live /\ map'[j] = map[j] /\ answered'[j] = answered[j]
            BY <1>6, <1>7, <2>1, <2>3 DEF Live
        <3> QED
            BY <3>1 DEF Dated
    <2> QED
        BY <2>2, <2>3
<1>10. ASSUME NEW j \in owed'
       PROVE  /\ answered'[j] # None
              /\ uptime - answered'[j].at < Ttl => map'[j] # None
              /\ map'[j] # None =>
                   \A i \in Keys : (map'[i] # None /\ map'[i].ord > map'[j].ord) => i \in newer'[j]
    <2>0. j \in Keys /\ Cardinality(newer'[j]) < cap /\ (j = k \/ j \in kept)
        BY <1>4, <1>5
    <2>1. CASE j = k
        <3>1. ASSUME NEW i \in Keys, map'[i] # None, map'[i].ord > map'[k].ord PROVE FALSE
            <4>1. map'[k].ord = next /\ next \in Nat
                BY <1>3 DEF Book
            <4>2. CASE i = k
                BY <3>1, <4>1, <4>2
            <4>3. CASE i # k
                <5>1. i \in LiveIn(m) /\ map'[i] = m[i]
                    BY <1>3, <3>1, <4>3 DEF LiveIn
                <5> QED
                    BY <1>3, <3>1, <4>1, <5>1
            <4> QED
                BY <4>2, <4>3
        <3> QED
            BY <1>3, <1>6, <2>1, <3>1
    <2>2. CASE j # k
        <3>1. /\ j \in owed /\ j \in kept \ {k} /\ answered[j] # None
              /\ answered'[j] = answered[j]
            BY <1>6, <2>0, <2>2 DEF Owes
        <3>2. newer'[j] = newer[j] \cup {k}
            BY <1>4, <2>0, <2>2
        <3>3. ASSUME map[j] # None, NEW i \in Keys, map[i] # None, map[i].ord > map[j].ord
              PROVE  i \in newer[j]
            BY <2>0, <3>1, <3>3 DEF Owes, Live
        <3>4. ASSUME uptime - answered[j].at < Ttl, map'[j] = None PROVE FALSE
            <4>1. j \in LiveIn(m) /\ m[j] = map[j] /\ map[j] # None
                BY <2>0, <2>2, <3>1, <3>4 DEF LiveIn
            <4> DEFINE Y == Younger(m, j)
            <4>2. Y \subseteq newer[j] /\ k \notin Y
                <5>1. k \notin Y
                    BY DEF LiveIn, Younger
                <5>2. ASSUME NEW i \in Y PROVE i \in newer[j]
                    <6>1. i \in Keys /\ i # k /\ m[i] # None /\ m[i] = map[i]
                             /\ m[i].ord > m[j].ord
                        BY <5>1 DEF LiveIn, Younger
                    <6> QED
                        BY <3>3, <4>1, <6>1
                <5> QED
                    BY <5>1, <5>2
            <4>3. Cardinality(Y) >= cap - 1
                BY <1>3, <3>4, <4>1
            <4> HIDE DEF Y
            <4>4. IsFiniteSet(newer'[j]) /\ Cardinality(newer'[j]) \in Nat
                <5>1. newer'[j] \subseteq Keys
                    BY <1>5, <2>0, <3>2
                <5> QED
                    BY <5>1, FS_Subset, FS_CardinalityType, IdempotencyAssumption
            <4>5. Y \cup {k} \subseteq newer'[j]
                BY <3>2, <4>2
            <4>6. /\ IsFiniteSet(Y) /\ Cardinality(Y) \in Nat
                  /\ Cardinality(Y \cup {k}) <= Cardinality(newer'[j])
                <5>1. Y \subseteq newer'[j]
                    BY <4>5
                <5> QED
                    BY <4>4, <4>5, <5>1, FS_Subset, FS_CardinalityType
            <4>7. Cardinality(Y \cup {k}) = Cardinality(Y) + 1
                BY <4>2, <4>6, FS_AddElement
            <4> QED
                BY <1>2, <2>0, <4>3, <4>4, <4>6, <4>7
        <3>5. ASSUME map'[j] # None, NEW i \in Keys, map'[i] # None, map'[i].ord > map'[j].ord
              PROVE  i \in newer'[j]
            <4>1. CASE i = k
                BY <3>2, <4>1
            <4>2. CASE i # k
                <5>1. map'[i] = map[i] /\ map'[j] = map[j]
                    BY <1>7, <2>0, <2>2, <3>5, <4>2
                <5> QED
                    BY <3>2, <3>3, <3>5, <5>1
            <4> QED
                BY <4>1, <4>2
        <3> QED
            BY <3>1, <3>4, <3>5
    <2> QED
        BY <2>0, <2>1, <2>2
<1>11. Owes'
    <2>1. \A j \in Keys : j \in Live' <=> map'[j] # None
        BY DEF Live
    <2>2. owed' \subseteq Keys /\ Live' \subseteq Keys
        BY <1>8 DEF TypeOK, Live
    <2> QED
        BY <1>2, <1>10, <2>1, <2>2 DEF Owes
<1> QED
    BY <1>3, <1>8, <1>9, <1>11

-----------------------------------------------------------------------------
LEMMA InitHolds == Init => IInv
<1> SUFFICES ASSUME Init PROVE IInv
    OBVIOUS
<1>1. Book(map, size, order, ordNext) /\ \A k \in Keys : map[k] = None
    BY EmptyBook DEF Init
<1>2. TypeOK
    <2>1. Cardinality(Keys) \in Nat
        BY FS_CardinalityType, IdempotencyAssumption
    <2>2. /\ map \in [Keys -> Entry \cup {None}] /\ order \in Seq(Slot)
          /\ ordNext \in Nat \ {0} /\ size \in 0..Cardinality(Keys)
        BY <1>1, <2>1 DEF Book, Init
    <2>3. cap \in Caps /\ uptime \in 0..MaxTime /\ clock \in Nat /\ Back \in 0..MaxBack
        BY IdempotencyAssumption DEF Init, Back
    <2>4. /\ runs \in [Keys -> Nat] /\ newer \in [Keys -> SUBSET Keys]
          /\ answered \in [Keys -> [run : Nat, at : 0..MaxTime] \cup {None}]
          /\ owed \in SUBSET Keys
        BY DEF Init, EmptyMap
    <2> QED
        BY <2>2, <2>3, <2>4 DEF TypeOK
<1>3. Dated /\ Owes
    BY <1>1 DEF Dated, Owes, Live, Init
<1> QED
    BY <1>1, <1>2, <1>3 DEF IInv

\* A key that is looked up in vain has nothing it is owed in the store.
LEMMA NotFresh ==
    ASSUME IInv, NEW k \in Keys, ~Fresh(k)
    PROVE  ~Owed(k)
<1> SUFFICES ASSUME k \in owed, uptime - answered[k].at < Ttl PROVE FALSE
    BY DEF Owed
<1>1. k \in Live /\ answered[k] # None
    BY DEF IInv, Owes
<1>2. map[k] # None /\ map[k].ts - answered[k].at >= MaxBack - Back
    BY <1>1 DEF IInv, Dated, Live
<1>3. map[k].ts \in Nat
    <2>1. map \in [Keys -> Entry \cup {None}]
        BY DEF IInv, TypeOK
    <2> QED
        BY <1>2, <2>1, EntryType
<1>4. /\ Ttl \in Nat /\ MaxBack \in Nat /\ uptime \in Nat /\ clock \in Nat
      /\ Back = uptime + MaxBack - clock /\ answered[k].at \in Nat
    BY <1>1, Numbers DEF IInv
<1>5. clock - map[k].ts >= Ttl
    BY <1>2, <1>3, <1>4 DEF Fresh
<1> QED
    BY <1>2, <1>3, <1>4, <1>5

LEMMA AnswerKeeps ==
    ASSUME IInv, NEW k \in Keys, Answer(k)
    PROVE  IInv'
<1>1. /\ Book(Missed(k), MissedSize(k), order, ordNext) /\ Missed(k)[k] = None
      /\ \A j \in Keys \ {k} : Missed(k)[j] = map[j]
    BY MissBook DEF IInv
<1>2. \A j \in owed \ {k} : uptime - answered[j].at < Ttl => Missed(k)[j] # None
    BY <1>1 DEF IInv, Owes, Live
<1>3. /\ Run(k) /\ Store(Missed(k), MissedSize(k), order, ordNext, k)
      /\ Remember(k, owed) /\ UNCHANGED <<cap, clock, uptime>>
    BY DEF Answer
<1> QED
    BY <1>1, <1>2, <1>3, StoreKeeps

LEMMA AnswerReloadKeeps ==
    ASSUME IInv, NEW k \in Keys, AnswerReload(k)
    PROVE  IInv'
<1>1. /\ Run(k) /\ Store(EmptyMap, 0, <<>>, 1, k)
      /\ Remember(k, {}) /\ UNCHANGED <<cap, clock, uptime>>
    BY DEF AnswerReload
<1>2. /\ Book(EmptyMap, 0, <<>>, 1) /\ EmptyMap[k] = None
      /\ \A j \in Keys \ {k} : EmptyMap[j] # None => EmptyMap[j] = map[j]
    BY EmptyBook
<1> QED
    BY <1>1, <1>2, StoreKeeps

\* A look-up in vain, whatever becomes of the request.
LEMMA MissKeeps ==
    ASSUME IInv, NEW k \in Keys, Miss(k), runs' \in [Keys -> Nat]
    PROVE  IInv'
<1>1. /\ Book(map', size', order', ordNext') /\ map'[k] = None
      /\ \A j \in Keys \ {k} : map'[j] = map[j]
    BY MissBook DEF IInv, Miss
<1>2. /\ UNCHANGED <<order, ordNext, cap, clock, uptime, answered, newer, owed>> /\ ~Fresh(k)
    BY DEF Miss
<1>3. TypeOK'
    <2>1. LiveIn(map') \subseteq Keys
        BY DEF LiveIn
    <2>2. /\ Cardinality(LiveIn(map')) <= Cardinality(Keys) /\ Cardinality(Keys) \in Nat
          /\ Cardinality(LiveIn(map')) \in Nat
        BY <2>1, FS_Subset, FS_CardinalityType, IdempotencyAssumption
    <2>3. size' \in 0..Cardinality(Keys)
        BY <1>1, <2>2 DEF Book
    <2> QED
        BY <1>1, <1>2, <2>3 DEF TypeOK, Book, IInv, Back
<1>4. Dated'
    BY <1>1, <1>2 DEF IInv, Dated, Live, Back
<1>5. Owes'
    <2>1. ~Owed(k)
        BY <1>2, NotFresh
    <2> QED
        BY <1>1, <1>2, <2>1 DEF IInv, Owes, Owed, Live
<1> QED
    BY <1>1, <1>3, <1>4, <1>5 DEF IInv

LEMMA ReloadKeeps ==
    ASSUME IInv, Reload
    PROVE  IInv'
<1>1. Book(map', size', order', ordNext') /\ \A k \in Keys : map'[k] = None
    BY EmptyBook DEF Reload
<1>2. Cardinality(Keys) \in Nat
    BY FS_CardinalityType, IdempotencyAssumption
<1>3. TypeOK'
    BY <1>1, <1>2 DEF TypeOK, Book, IInv, Reload, Back
<1>4. Dated' /\ Owes'
    BY <1>1 DEF Dated, Owes, Live, Reload
<1> QED
    BY <1>1, <1>3, <1>4 DEF IInv

\* The cap or the time changes, the store does not.
LEMMA RestKeeps ==
    ASSUME IInv, SetCap \/ Advance \/ SetBack \/ UNCHANGED vars
    PROVE  IInv'
<1>1. UNCHANGED <<store, history>>
    BY DEF SetCap, Advance, SetBack, vars
<1>2. Book(map', size', order', ordNext')
    BY <1>1 DEF IInv, store
<1>3. /\ MaxBack \in Nat /\ MaxTime \in Nat /\ uptime \in Nat /\ clock \in Nat
      /\ Back = uptime + MaxBack - clock /\ Back' = uptime' + MaxBack - clock'
      /\ Back \in 0..MaxBack /\ uptime \in 0..MaxTime /\ cap \in Caps /\ Ttl \in Nat
    BY Numbers, IdempotencyAssumption DEF IInv, TypeOK, Back
<1>4. /\ cap' \in Caps /\ uptime' \in 0..MaxTime /\ clock' \in Nat
      /\ Back' \in 0..MaxBack /\ Back' >= Back /\ uptime' >= uptime
    BY <1>3 DEF SetCap, Advance, SetBack, vars
<1>5. TypeOK'
    BY <1>1, <1>4 DEF IInv, TypeOK, store, history
<1>6. ASSUME NEW k \in Live
      PROVE  /\ answered[k] # None /\ map[k].run = answered[k].run
             /\ answered[k].at <= uptime'
             /\ map[k].ts - answered[k].at <= MaxBack
             /\ map[k].ts - answered[k].at >= MaxBack - Back'
    <2>1. /\ answered[k] # None /\ map[k].run = answered[k].run
          /\ answered[k].at <= uptime
          /\ map[k].ts - answered[k].at <= MaxBack
          /\ map[k].ts - answered[k].at >= MaxBack - Back
        BY DEF IInv, Dated
    <2>2. answered[k].at \in Nat /\ map[k].ts \in Nat
        <3>1. k \in Keys /\ map[k] # None /\ map \in [Keys -> Entry \cup {None}]
            BY DEF Live, IInv, TypeOK
        <3> QED
            BY <2>1, <3>1, EntryType, Numbers DEF IInv
    <2> QED
        BY <1>3, <1>4, <2>1, <2>2
<1>7. Dated'
    BY <1>1, <1>6 DEF Dated, Live, store, history
<1>8. ASSUME NEW k \in owed, uptime' - answered[k].at < Ttl
      PROVE  uptime - answered[k].at < Ttl
    <2>1. k \in Keys /\ answered[k] # None
        BY DEF IInv, Owes, TypeOK
    <2>2. answered[k].at \in Nat
        BY <2>1, Numbers DEF IInv
    <2> QED
        BY <1>3, <1>4, <1>8, <2>2
<1>9. Owes'
    BY <1>1, <1>8 DEF IInv, Owes, Live, store, history
<1> QED
    BY <1>2, <1>5, <1>7, <1>9 DEF IInv

LEMMA StepKeeps == IInv /\ [Next]_vars => IInv'
<1> SUFFICES ASSUME IInv, [Next]_vars PROVE IInv'
    OBVIOUS
<1>1. ASSUME NEW k \in Keys, Answer(k) PROVE IInv'
    BY <1>1, AnswerKeeps
<1>2. ASSUME NEW k \in Keys, AnswerReload(k) PROVE IInv'
    BY <1>2, AnswerReloadKeeps
<1>3. ASSUME NEW k \in Keys, Refuse(k) PROVE IInv'
    <2>1. Miss(k) /\ runs' \in [Keys -> Nat]
        BY <1>3 DEF Refuse, IInv, TypeOK
    <2> QED
        BY <2>1, MissKeeps
<1>4. ASSUME NEW k \in Keys, Raise(k) PROVE IInv'
    <2>1. Miss(k) /\ runs' \in [Keys -> Nat]
        BY <1>4 DEF Raise, Run, IInv, TypeOK
    <2> QED
        BY <2>1, MissKeeps
<1>5. CASE Reload
    BY <1>5, ReloadKeeps
<1>6. CASE SetCap \/ Advance \/ SetBack \/ UNCHANGED vars
    BY <1>6, RestKeeps
<1> QED
    BY <1>1, <1>2, <1>3, <1>4, <1>5, <1>6 DEF Next

LEMMA Invariant == Spec => []IInv
<1> QED
    BY InitHolds, StepKeeps, PTL DEF Spec

-----------------------------------------------------------------------------
\* The store's variables have their types (module state of http_router.lua).
THEOREM TypeCorrect == Spec => []TypeOK
<1>1. IInv => TypeOK
    BY DEF IInv
<1> QED
    BY <1>1, Invariant, PTL

\* The count is that of the entries, and every entry has one slot in the order,
\* behind those of the older ones (idem_lookup, idem_store, idem_clear).
THEOREM BooksAgree == Spec => []Accounted
<1>1. IInv => Accounted
    <2> SUFFICES ASSUME IInv PROVE Accounted
        OBVIOUS
    <2>1. Book(map, size, order, ordNext) /\ LiveIn(map) = Live
        BY DEF IInv, LiveIn, Live
    <2>2. ASSUME NEW k \in Live
          PROVE  \E i \in 1..Len(order) :
                    /\ order[i] = [key |-> k, ord |-> map[k].ord]
                    /\ \A j \in 1..Len(order) : order[j] = order[i] => j = i
        <3>1. PICK i \in 1..Len(order) : order[i] = [key |-> k, ord |-> map[k].ord]
            BY <2>1 DEF Book, SlotOf
        <3>2. \A j \in 1..Len(order) : order[j] = order[i] => j = i
            BY <2>1, SlotsDiffer
        <3> QED
            BY <3>1, <3>2
    <2> QED
        BY <2>1, <2>2 DEF Accounted, Book
<1> QED
    BY <1>1, Invariant, PTL

\* What a look-up finds is the last answer of its key, younger than the TTL and
\* what the clock was set back (idem_lookup).
THEOREM ReplaysAreLatest == Spec => []ReplaysLatest
<1>1. IInv => ReplaysLatest
    <2> SUFFICES ASSUME IInv, NEW k \in Keys, Fresh(k)
                 PROVE  /\ answered[k] # None /\ map[k].run = answered[k].run
                        /\ uptime - answered[k].at < Ttl + Back
        BY DEF ReplaysLatest
    <2>1. map[k] # None /\ clock - map[k].ts < Ttl
        BY DEF Fresh
    <2>2. /\ answered[k] # None /\ map[k].run = answered[k].run
          /\ map[k].ts - answered[k].at <= MaxBack
        BY <2>1 DEF IInv, Dated, Live
    <2>3. map[k].ts \in Nat
        <3>1. map \in [Keys -> Entry \cup {None}]
            BY DEF IInv, TypeOK
        <3> QED
            BY <2>1, <3>1, EntryType
    <2>4. /\ Ttl \in Nat /\ MaxBack \in Nat /\ uptime \in Nat /\ clock \in Nat
          /\ Back = uptime + MaxBack - clock /\ answered[k].at \in Nat
        BY <2>2, Numbers DEF IInv
    <2> QED
        BY <2>1, <2>2, <2>3, <2>4
<1> QED
    BY <1>1, Invariant, PTL

\* A handler is not run again while its answer is owed (dispatch).
THEOREM HandlersRunOnce == Spec => AtMostOnce
<1>1. IInv /\ [Next]_vars => [\A k \in Keys : runs'[k] # runs[k] => ~Owed(k)]_vars
    <2> SUFFICES ASSUME IInv, [Next]_vars, NEW k \in Keys, runs'[k] # runs[k]
                 PROVE  ~Owed(k)
        OBVIOUS
    <2>0. runs \in [Keys -> Nat]
        BY DEF IInv, TypeOK
    <2>1. PICK j \in Keys : Answer(j) \/ AnswerReload(j) \/ Raise(j)
        BY DEF Next, Refuse, Reload, SetCap, Advance, SetBack, history, vars
    <2>2. Run(j) /\ ~Fresh(j)
        BY <2>1 DEF Answer, AnswerReload, Raise, Miss
    <2>3. j = k
        BY <2>0, <2>2 DEF Run
    <2> QED
        BY <2>2, <2>3, NotFresh
<1> QED
    BY <1>1, Invariant, PTL DEF Spec, AtMostOnce

\* What storing an answer drops, and what it leaves.
Evicts ==
    ordNext' > ordNext =>
        LET dropped == {k \in Live : map'[k] = None}
            kept == {k \in Live : map'[k] = map[k]} IN
        /\ size' <= cap /\ (dropped # {} => size' = cap)
        /\ \A j \in dropped, k \in kept : map[j].ord < map[k].ord

\* An answer that is stored makes room by dropping the oldest answers, no more than
\* it must, and the store stays within the cap (the loop of idem_store).
THEOREM OldestGoFirst == Spec => EvictsOldest
<1>1. IInv /\ [Next]_vars => [Evicts]_vars
    <2> SUFFICES ASSUME IInv, [Next]_vars, ordNext' > ordNext
                 PROVE  Evicts
        BY DEF Evicts
    <2>0. /\ ordNext \in Nat \ {0} /\ cap \in Nat \ {0} /\ clock \in Nat
          /\ map \in [Keys -> Entry \cup {None}] /\ runs \in [Keys -> Nat]
          /\ Book(map, size, order, ordNext)
        BY Numbers DEF IInv, TypeOK
    <2>1. PICK k \in Keys : Answer(k) \/ AnswerReload(k)
        <3>1. ordNext' # ordNext /\ ordNext' # 1
            BY <2>0
        <3> QED
            BY <3>1 DEF Next, Refuse, Raise, Miss, Reload, SetCap, Advance, SetBack, store, vars
    <2>2. runs'[k] \in Nat
        <3>1. Run(k)
            BY <2>1 DEF Answer, AnswerReload
        <3> QED
            BY <2>0, <3>1 DEF Run
    <2>3. CASE Answer(k)
        <3> DEFINE m == Missed(k)
        <3>1. /\ Book(m, MissedSize(k), order, ordNext) /\ m[k] = None
              /\ \A j \in Keys \ {k} : m[j] = map[j]
            BY <2>0, MissBook
        <3>2. Store(m, MissedSize(k), order, ordNext, k)
            BY <2>3 DEF Answer
        <3> HIDE DEF m
        <3>3. /\ map'[k] = [run |-> runs'[k], ts |-> clock, ord |-> ordNext] /\ map'[k] # None
              /\ \A j \in LiveIn(m) : m[j].ord \in Nat /\ m[j].ord < ordNext
              /\ \A j \in LiveIn(m) : map'[j] = None =>
                   \A i \in LiveIn(m) : map'[i] # None => m[j].ord < m[i].ord
              /\ size' <= cap
              /\ (\E j \in LiveIn(m) : map'[j] = None) => size' = cap
            BY <2>0, <2>2, <3>1, <3>2, StoreEffect
        <3>4. \A j \in Live \ {k} : j \in LiveIn(m) /\ m[j] = map[j] /\ j \in Keys
            BY <3>1 DEF Live, LiveIn
        <3>5. ASSUME NEW j \in Live, map'[j] = None PROVE j \in LiveIn(m) /\ m[j] = map[j]
            BY <3>3, <3>4, <3>5
        <3>6. ASSUME NEW j \in Live, map'[j] = None, NEW i \in Live, map'[i] = map[i]
              PROVE  map[j].ord < map[i].ord
            <4>1. CASE i = k
                <5>1. map[i].ord = ordNext
                    BY <3>3, <3>6, <4>1
                <5> QED
                    BY <3>3, <3>5, <3>6, <5>1
            <4>2. CASE i # k
                <5>1. i \in LiveIn(m) /\ m[i] = map[i] /\ map'[i] # None
                    BY <3>4, <3>6, <4>2 DEF Live
                <5> QED
                    BY <3>3, <3>5, <3>6, <5>1
            <4> QED
                BY <4>1, <4>2
        <3> QED
            BY <3>3, <3>5, <3>6 DEF Evicts
    <2>4. CASE AnswerReload(k)
        <3>1. Book(EmptyMap, 0, <<>>, 1) /\ EmptyMap[k] = None /\ Store(EmptyMap, 0, <<>>, 1, k)
            BY <2>4, EmptyBook DEF AnswerReload
        <3>2. size' <= cap /\ ordNext' = 1 + 1
            BY <2>0, <2>2, <3>1, StoreEffect
        <3>3. ordNext = 1
            BY <2>0, <3>2
        <3>4. ASSUME NEW j \in Live PROVE FALSE
            <4>1. j \in LiveIn(map) /\ map[j] # None /\ j \in Keys
                BY DEF Live, LiveIn
            <4>2. PICK i \in 1..Len(order) : order[i] = SlotOf(map, j)
                BY <2>0, <4>1 DEF Book
            <4>3. map[j].ord < ordNext
                BY <2>0, <4>1, <4>2, SlotOrder
            <4>4. map[j].ord \in Nat \ {0}
                BY <2>0, <4>1, EntryType
            <4> QED
                BY <3>3, <4>3, <4>4
        <3> QED
            BY <3>2, <3>4 DEF Evicts
    <2> QED
        BY <2>1, <2>3, <2>4
<1> QED
    BY <1>1, Invariant, PTL DEF Spec, EvictsOldest, Evicts
=============================================================================
