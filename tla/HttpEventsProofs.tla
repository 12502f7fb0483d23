-------------------------- MODULE HttpEventsProofs --------------------------
(***************************************************************************)
(* HttpEvents implements EventFeed, for any clients, filters and ring      *)
(* sizes, if nobody combines since=latest with wait.                       *)
(***************************************************************************)
EXTENDS HttpEvents, TLAPS

(***************************************************************************)
(* The inductive invariant.                                                *)
(***************************************************************************)
RingShape ==
    /\ evicted < Len(history) \/ (evicted = 0 /\ history = <<>>)
    /\ \A c \in Clients : cursor[c] <= Len(history)

\* A client has one request open at a time; it resumes at the client's cursor.
OpenShape ==
    \A r \in Requests : request[r] # None /\ request[r].open =>
        /\ \A s \in Requests :
              request[s] # None /\ request[s].open
                /\ request[s].client = request[r].client => s = r
        /\ ~request[r].latest => request[r].since = cursor[request[r].client]

\* A response on its way carries what lies between the two cursors.
Between(q) == {id \in (cursor[q.client] + 1)..q.cursor :
                  history[id] \in Wanted[q.client]}

ReplyShape ==
    \A r \in Requests : request[r] # None /\ request[r].stage = "answered" =>
        LET q == request[r] IN
        /\ q.open
        /\ q.cursor <= Len(history) /\ cursor[q.client] <= q.cursor
        /\ q.rows \subseteq Between(q)
        /\ ~q.lost /\ ~q.latest => Between(q) \subseteq q.rows

NoLatestWaiter == \A r \in Requests : Waits(r) => ~request[r].latest

IInv == TypeOK /\ RingShape /\ OpenShape /\ ReplyShape /\ NoLatestWaiter
        /\ NoSleeper /\ NothingMissed

(***************************************************************************)
(* What a reply contains.                                                  *)
(***************************************************************************)
LEMMA AnswerShape ==
    ASSUME NEW q \in Waiting, NEW h \in Seq(Types), NEW e \in Nat,
           Len(h) <= MaxEvents, e < Len(h) \/ h = <<>>, MaxEvents \in Nat
    PROVE  /\ Answer(q, h, e) \in Answered
           /\ Answer(q, h, e).client = q.client
           /\ Answer(q, h, e).open /\ Answer(q, h, e).latest = q.latest
           /\ Answer(q, h, e).since = q.since
           /\ Answer(q, h, e).stage = "answered"
           /\ Answer(q, h, e).cursor = Len(h)
           /\ Answer(q, h, e).rows =
                {id \in (e + 1)..Len(h) : id > q.since /\ h[id] \in Wanted[q.client]}
           /\ ~Answer(q, h, e).lost =>
                Answer(q, h, e).rows = {id \in (q.since + 1)..Len(h) :
                                            h[id] \in Wanted[q.client]}
<1>1. Rows(q.client, q.since, h, e) \subseteq Ids
  BY DEF Rows, Ring, Ids, Waiting
<1>2. ~Lost(q.since, h, e) =>
        Rows(q.client, q.since, h, e) =
            {id \in (q.since + 1)..Len(h) : h[id] \in Wanted[q.client]}
  <2>1. q.since \in Nat /\ Len(h) \in Nat
    BY DEF Waiting
  <2>2. CASE h = <<>>
    <3>1. Len(h) = 0
      BY <2>2
    <3> QED
      BY <2>1, <3>1 DEF Rows, Ring
  <2>3. CASE e < Len(h)
    <3>1. e + 1 \in Ring(h, e)
      BY <2>1, <2>3 DEF Ring
    <3>2. SUFFICES ASSUME ~(q.since < e)
                   PROVE  Rows(q.client, q.since, h, e) =
                            {id \in (q.since + 1)..Len(h) : h[id] \in Wanted[q.client]}
      BY <3>1 DEF Lost
    <3> QED
      BY <2>1, <3>2 DEF Rows, Ring
  <2> QED
    BY <2>2, <2>3
<1>3. Len(h) \in 0..MaxEvents /\ Lost(q.since, h, e) \in BOOLEAN
  BY DEF Lost
<1> QED
  BY <1>1, <1>2, <1>3 DEF Answer, Reply, CursorOf, Answered, Waiting, Rows, Ring

\* The events before the new one are what they were.
LEMMA AppendKeeps ==
    ASSUME NEW h \in Seq(Types), NEW t \in Types
    PROVE  /\ Append(h, t) \in Seq(Types) /\ Len(Append(h, t)) = Len(h) + 1
           /\ Append(h, t) # <<>>
           /\ \A i \in 1..Len(h) : Append(h, t)[i] = h[i]
           /\ Append(h, t)[Len(h) + 1] = t
  OBVIOUS

\* An id of the ring that is not new was in the ring before.
LEMMA IdBefore ==
    ASSUME NEW e \in Nat, NEW f \in Nat, e <= f, NEW n \in Nat, NEW m \in Nat,
           NEW id \in (f + 1)..m, id <= n
    PROVE  id \in (e + 1)..n /\ id \in 1..n
  OBVIOUS

(***************************************************************************)
(* The invariant holds initially.                                          *)
(***************************************************************************)
LEMMA InitIInv == Init => IInv
<1> SUFFICES ASSUME Init PROVE IInv
  OBVIOUS
<1> USE EventsAssumption DEF Init
<1>1. TypeOK
  BY DEF TypeOK
<1>2. RingShape /\ NothingMissed
  BY DEF RingShape, NothingMissed
<1>3. OpenShape /\ ReplyShape /\ NoLatestWaiter /\ NoSleeper
  BY DEF OpenShape, ReplyShape, NoLatestWaiter, NoSleeper, Waits
<1> QED
  BY <1>1, <1>2, <1>3 DEF IInv

(***************************************************************************)
(* Steps of the hub: some waiters are resolved, an event may be new.       *)
(***************************************************************************)
Extends(h) ==
    /\ h \in Seq(Types) /\ Len(h) <= MaxEvents
    /\ Len(history) <= Len(h)
    /\ \A i \in 1..Len(history) : h[i] = history[i]

\* A waiter that stays sees nothing new.
StillNothing(r, h) ==
    Waits(r) => \A i \in (Len(history) + 1)..Len(h) :
                    h[i] \notin Wanted[request[r].client]

LEMMA HubKeeps ==
    ASSUME IInv, NEW h, h = history', Extends(h),
           evicted' \in Nat, evicted <= evicted',
           evicted' < Len(h) \/ (evicted' = 0 /\ h = <<>>),
           cap' \in Caps, UNCHANGED <<cursor, got, told>>,
           request' \in [Requests -> Waiting \cup Answered \cup {None}],
           \A r \in Requests :
              \/ request'[r] = request[r] /\ StillNothing(r, h)
              \/ Waits(r) /\ request'[r] = Resolve(request[r], h, evicted')
    PROVE  IInv'
<1> USE EventsAssumption
<1> DEFINE W(r) == request[r] # None /\ request[r].stage = "waiting"
<1>t. TypeOK
  BY DEF IInv
<1>1. TypeOK'
  <2>1. evicted' \in 0..MaxEvents
    BY DEF Extends
  <2> QED
    BY <1>t, <2>1 DEF TypeOK, Extends
<1>2. RingShape'
  BY <1>t DEF IInv, RingShape, Extends, TypeOK
<1>h. /\ Len(history) \in Nat /\ Len(h) \in Nat /\ Len(history) <= Len(h)
      /\ \A i \in 1..Len(history) : h[i] = history[i]
      /\ \A c \in Clients : cursor[c] \in Nat /\ cursor[c] <= Len(history)
  BY <1>t DEF IInv, TypeOK, RingShape, Extends
<1>w. \A c : Wanted'[c] = Wanted[c]
  BY DEF Wanted, Shown
<1>3. NothingMissed'
  <2> SUFFICES ASSUME NEW c \in Clients, NEW id \in 1..cursor[c],
                      h[id] \in Wanted[c]
               PROVE  id \in got[c] \/ id <= told[c]
    BY <1>w DEF NothingMissed
  <2>1. history[id] \in Wanted[c]
    BY <1>h
  <2> QED
    BY <2>1 DEF IInv, NothingMissed
<1>r. ASSUME NEW r \in Requests, request'[r] # None
      PROVE  /\ request[r] # None
             /\ request'[r].client = request[r].client
             /\ request'[r].latest = request[r].latest
             /\ request'[r].since = request[r].since
             /\ request'[r].open = request[r].open
             /\ \/ request'[r] = request[r] /\ StillNothing(r, h)
                \/ /\ Waits(r) /\ request[r] \in Waiting /\ request[r].open
                   /\ request'[r] = Answer(request[r], h, evicted')
  <2>1. CASE request'[r] = request[r] /\ StillNothing(r, h)
    BY <1>r, <2>1
  <2>2. CASE Waits(r) /\ request'[r] = Resolve(request[r], h, evicted')
    <3>1. request[r] # None /\ request[r] \in Waiting
      BY <1>t, <2>2 DEF Waits, TypeOK, Answered
    <3>2. request[r].open /\ request'[r] = Answer(request[r], h, evicted')
      BY <1>r, <2>2 DEF Resolve
    <3>3. /\ Answer(request[r], h, evicted').client = request[r].client
          /\ Answer(request[r], h, evicted').latest = request[r].latest
          /\ Answer(request[r], h, evicted').since = request[r].since
          /\ Answer(request[r], h, evicted').open
      BY <3>1, AnswerShape DEF Extends
    <3> QED
      BY <2>2, <3>1, <3>2, <3>3
  <2> QED
    BY <2>1, <2>2
<1>4. OpenShape'
  <2> SUFFICES ASSUME NEW r \in Requests, request'[r] # None, request'[r].open
               PROVE  /\ \A s \in Requests :
                            request'[s] # None /\ request'[s].open
                              /\ request'[s].client = request'[r].client => s = r
                      /\ ~request'[r].latest =>
                            request'[r].since = cursor[request'[r].client]
    BY DEF OpenShape
  <2>1. /\ request[r] # None /\ request[r].open
        /\ request'[r].client = request[r].client
        /\ request'[r].latest = request[r].latest
        /\ request'[r].since = request[r].since
    BY <1>r
  <2>2. \A s \in Requests :
            request'[s] # None /\ request'[s].open
              /\ request'[s].client = request'[r].client => s = r
    <3> SUFFICES ASSUME NEW s \in Requests, request'[s] # None, request'[s].open,
                        request'[s].client = request'[r].client
                 PROVE  s = r
      OBVIOUS
    <3>1. request[s] # None /\ request[s].open
          /\ request[s].client = request[r].client
      BY <2>1, <1>r
    <3> QED
      BY <2>1, <3>1 DEF IInv, OpenShape
  <2>3. ~request[r].latest => request[r].since = cursor[request[r].client]
    BY <2>1 DEF IInv, OpenShape
  <2>4. ~request'[r].latest => request'[r].since = cursor[request'[r].client]
    BY <2>1, <2>3
  <2> QED
    BY <2>2, <2>4
<1> DEFINE Gap(c, n) == {id \in (cursor[c] + 1)..n : h[id] \in Wanted[c]}
<1>b. \A r : Between(request[r])' = Gap(request'[r].client, request'[r].cursor)
  BY <1>w DEF Between
<1> HIDE DEF Gap
<1>5. ReplyShape'
  <2> SUFFICES ASSUME NEW r \in Requests,
                      request'[r] # None, request'[r].stage = "answered"
               PROVE  LET q == request'[r] IN
                      /\ q.open
                      /\ q.cursor <= Len(h) /\ cursor[q.client] <= q.cursor
                      /\ q.rows \subseteq Gap(q.client, q.cursor)
                      /\ ~q.lost /\ ~q.latest => Gap(q.client, q.cursor) \subseteq q.rows
    BY <1>b DEF ReplyShape
  <2>1. CASE request'[r] = request[r]
    <3> DEFINE q == request[r]
    <3>1. /\ q.open
          /\ q.cursor <= Len(history) /\ cursor[q.client] <= q.cursor
          /\ q.rows \subseteq Between(q)
          /\ ~q.lost /\ ~q.latest => Between(q) \subseteq q.rows
      BY <2>1, <1>r DEF IInv, ReplyShape
    <3>2. q \in Answered
      BY <1>t, <2>1 DEF TypeOK, Waiting
    <3>3. q.client \in Clients /\ q.cursor \in Nat
      BY <3>2 DEF Answered
    <3>4. Gap(q.client, q.cursor) = Between(q)
      <4>1. \A id \in (cursor[q.client] + 1)..q.cursor : h[id] = history[id]
        BY <1>h, <3>1, <3>3
      <4> QED
        BY <4>1 DEF Between, Gap
    <3>5. q.cursor <= Len(h)
      BY <3>1, <3>3, <1>h
    <3> QED
      BY <2>1, <3>1, <3>4, <3>5
  <2>2. CASE Waits(r) /\ request[r] \in Waiting /\ request[r].open
             /\ request'[r] = Answer(request[r], h, evicted')
    <3> DEFINE q == request[r]
               a == Answer(q, h, evicted')
    <3>1. ~q.latest /\ q.since = cursor[q.client] /\ q.client \in Clients
      BY <2>2, <1>r DEF IInv, NoLatestWaiter, OpenShape, Waiting
    <3>2. /\ a.client = q.client /\ a.open /\ a.cursor = Len(h)
          /\ a.latest = q.latest
          /\ a.rows = {id \in (evicted' + 1)..Len(h) :
                            id > q.since /\ h[id] \in Wanted[q.client]}
          /\ ~a.lost => a.rows = {id \in (q.since + 1)..Len(h) :
                                    h[id] \in Wanted[q.client]}
      BY <2>2, AnswerShape DEF Extends
    <3> HIDE DEF a
    <3>3. cursor[q.client] <= Len(h)
      BY <1>h, <3>1
    <3>4. a.rows \subseteq Gap(q.client, Len(h))
      BY <3>1, <3>2, <1>h DEF Gap
    <3>5. ~a.lost => a.rows = Gap(q.client, Len(h))
      BY <3>1, <3>2 DEF Gap
    <3>6. request'[r] = a
      BY <2>2 DEF a
    <3> QED
      BY <3>1, <3>2, <3>3, <3>4, <3>5, <3>6
  <2> QED
    BY <2>1, <2>2, <1>r
<1>6. NoLatestWaiter'
  <2> SUFFICES ASSUME NEW r \in Requests, request'[r] # None,
                      request'[r].stage = "waiting"
               PROVE  ~request'[r].latest
    BY DEF NoLatestWaiter, Waits
  <2>1. request'[r] = request[r]
    BY <1>r, AnswerShape DEF Extends
  <2> QED
    BY <2>1 DEF IInv, NoLatestWaiter, Waits
<1>7. NoSleeper'
  <2> SUFFICES ASSUME NEW r \in Requests, request'[r] # None,
                      request'[r].stage = "waiting", ~request'[r].latest
               PROVE  Rows(request'[r].client, request'[r].since, h, evicted') = {}
    BY DEF NoSleeper, Waits, Rows, Ring, Wanted, Shown
  <2>1. request'[r] = request[r] /\ StillNothing(r, h) /\ Waits(r)
    BY <1>r, AnswerShape DEF Extends, Waits
  <2>2. Rows(request[r].client, request[r].since, history, evicted) = {}
    BY <2>1 DEF IInv, NoSleeper
  <2>3. \A id \in (evicted + 1)..Len(history) :
            id > request[r].since => history[id] \notin Wanted[request[r].client]
    BY <2>2 DEF Rows, Ring
  <2>4. evicted \in Nat
    BY <1>t DEF TypeOK
  <2>5. ASSUME NEW id \in (evicted' + 1)..Len(h), id > request[r].since
        PROVE  h[id] \notin Wanted[request[r].client]
    <3>1. CASE id <= Len(history)
      <4>1. id \in (evicted + 1)..Len(history) /\ id \in 1..Len(history)
        BY <2>4, <3>1, <1>h, IdBefore
      <4> QED
        BY <2>3, <2>5, <4>1, <1>h
    <3>2. CASE id > Len(history)
      BY <2>1, <2>4, <3>2, <1>h DEF StillNothing
    <3> QED
      BY <3>1, <3>2, <2>4, <1>h
  <2> QED
    BY <2>1, <2>5 DEF Rows, Ring
<1> QED
  BY <1>1, <1>2, <1>3, <1>4, <1>5, <1>6, <1>7 DEF IInv

(***************************************************************************)
(* Steps of a client: one request changes, the ring does not.              *)
(***************************************************************************)
\* A new request, or a waiter or a response whose client leaves.
LEMMA SlotKeeps ==
    ASSUME IInv, NEW r \in Requests, NEW q \in Waiting \cup Answered \cup {None},
           request' = [request EXCEPT ![r] = q],
           UNCHANGED <<history, cursor, got, told, evicted, cap>>,
           q # None =>
              /\ q.open =>
                  /\ \A s \in Requests : request[s] # None /\ request[s].open
                                         => request[s].client # q.client
                  /\ ~q.latest => q.since = cursor[q.client]
              /\ q.stage = "answered" =>
                  /\ q.open
                  /\ q.cursor <= Len(history) /\ cursor[q.client] <= q.cursor
                  /\ q.rows \subseteq Between(q)
                  /\ ~q.lost /\ ~q.latest => Between(q) \subseteq q.rows
              /\ q.stage = "waiting" =>
                  /\ ~q.latest
                  /\ Rows(q.client, q.since, history, evicted) = {}
    PROVE  IInv'
<1> USE EventsAssumption
<1>t. TypeOK
  BY DEF IInv
<1>r. /\ request'[r] = q
      /\ \A s \in Requests : s # r => request'[s] = request[s]
  BY <1>t DEF TypeOK
<1>w. /\ \A c : Wanted'[c] = Wanted[c]
      /\ \A s : Between(request[s])' = Between(request'[s])
      /\ \A c, n : Rows(c, n, history, evicted)' = Rows(c, n, history, evicted)
  BY DEF Wanted, Shown, Between, Rows, Ring
<1>1. TypeOK'
  BY <1>t DEF TypeOK
<1>2. RingShape'
  BY DEF IInv, RingShape
<1>3. NothingMissed'
  BY <1>w DEF IInv, NothingMissed
<1>4. OpenShape'
  <2> SUFFICES ASSUME NEW s \in Requests, request'[s] # None, request'[s].open
               PROVE  /\ \A p \in Requests :
                            request'[p] # None /\ request'[p].open
                              /\ request'[p].client = request'[s].client => p = s
                      /\ ~request'[s].latest =>
                            request'[s].since = cursor[request'[s].client]
    BY DEF OpenShape
  <2>1. \A p \in Requests :
            request'[p] # None /\ request'[p].open
              /\ request'[p].client = request'[s].client => p = s
    <3> SUFFICES ASSUME NEW p \in Requests, request'[p] # None, request'[p].open,
                        request'[p].client = request'[s].client, p # s
                 PROVE  FALSE
      OBVIOUS
    <3>1. CASE s = r
      <4>1. request[p] # None /\ request[p].open /\ request[p].client = q.client
        BY <1>r, <3>1
      <4> QED
        BY <1>r, <3>1, <4>1
    <3>2. CASE p = r
      <4>1. request[s] # None /\ request[s].open /\ request[s].client = q.client
        BY <1>r, <3>2
      <4> QED
        BY <1>r, <3>2, <4>1
    <3>3. CASE s # r /\ p # r
      BY <1>r, <3>3 DEF IInv, OpenShape
    <3> QED
      BY <3>1, <3>2, <3>3
  <2>2. ~request'[s].latest => request'[s].since = cursor[request'[s].client]
    <3>1. CASE s = r
      BY <1>r, <3>1
    <3>2. CASE s # r
      BY <1>r, <3>2 DEF IInv, OpenShape
    <3> QED
      BY <3>1, <3>2
  <2> QED
    BY <2>1, <2>2
<1>5. ReplyShape'
  <2> SUFFICES ASSUME NEW s \in Requests,
                      request'[s] # None, request'[s].stage = "answered"
               PROVE  LET p == request'[s] IN
                      /\ p.open
                      /\ p.cursor <= Len(history) /\ cursor[p.client] <= p.cursor
                      /\ p.rows \subseteq Between(p)
                      /\ ~p.lost /\ ~p.latest => Between(p) \subseteq p.rows
    BY <1>w DEF ReplyShape
  <2>1. CASE s = r
    BY <1>r, <2>1
  <2>2. CASE s # r
    BY <1>r, <2>2 DEF IInv, ReplyShape
  <2> QED
    BY <2>1, <2>2
<1>6. NoLatestWaiter'
  BY <1>r DEF IInv, NoLatestWaiter, Waits
<1>7. NoSleeper'
  <2> SUFFICES ASSUME NEW s \in Requests, request'[s] # None,
                      request'[s].stage = "waiting", ~request'[s].latest
               PROVE  Rows(request'[s].client, request'[s].since, history, evicted) = {}
    BY <1>w DEF NoSleeper, Waits
  <2> QED
    BY <1>r DEF IInv, NoSleeper, Waits
<1> QED
  BY <1>1, <1>2, <1>3, <1>4, <1>5, <1>6, <1>7 DEF IInv

\* What a client knows of the response it receives.
LEMMA ReceivedShape ==
    ASSUME IInv, NEW r \in Requests, request[r] # None,
           request[r].stage = "answered"
    PROVE  LET q == request[r] IN
           /\ q \in Answered /\ q.client \in Clients /\ q.open
           /\ q.cursor \in 0..MaxEvents /\ q.rows \subseteq Ids
           /\ q.cursor <= Len(history) /\ cursor[q.client] <= q.cursor
           /\ q.rows \subseteq Between(q)
           /\ ~q.lost /\ ~q.latest => Between(q) = q.rows
<1>1. request[r] \in Answered
  BY DEF IInv, TypeOK, Waiting
<1>2. LET q == request[r] IN
      /\ q.open
      /\ q.cursor <= Len(history) /\ cursor[q.client] <= q.cursor
      /\ q.rows \subseteq Between(q)
      /\ ~q.lost /\ ~q.latest => Between(q) \subseteq q.rows
  BY DEF IInv, ReplyShape
<1>3. /\ request[r].client \in Clients /\ request[r].cursor \in 0..MaxEvents
      /\ request[r].rows \subseteq Ids
  BY <1>1 DEF Answered
<1> QED
  BY <1>1, <1>2, <1>3

LEMMA ReceiveKeeps ==
    ASSUME IInv, NEW r \in Requests, Receive(r)
    PROVE  IInv'
<1> USE EventsAssumption
<1> DEFINE q == request[r]
           c0 == q.client
<1>t. TypeOK
  BY DEF IInv
<1>q. /\ q # None /\ q.stage = "answered" /\ c0 \in Clients /\ q.open
      /\ q.cursor \in 0..MaxEvents /\ q.rows \subseteq Ids
      /\ q.cursor <= Len(history) /\ cursor[c0] <= q.cursor
      /\ ~q.lost /\ ~q.latest => Between(q) = q.rows
  BY ReceivedShape DEF Receive
<1>c. /\ cursor'[c0] = q.cursor
      /\ q.lost \/ q.latest => told'[c0] = q.cursor
  BY <1>t, <1>q DEF Receive, TypeOK
<1>s. /\ \A c \in Clients : /\ cursor'[c] = IF c = c0 THEN q.cursor ELSE cursor[c]
                            /\ got'[c] = IF c = c0 THEN got[c] \cup q.rows ELSE got[c]
                            /\ told'[c] = IF c = c0 /\ (q.lost \/ q.latest)
                                          THEN q.cursor ELSE told[c]
      /\ \A s \in Requests : request'[s] = IF s = r THEN None ELSE request[s]
      /\ UNCHANGED <<history, evicted, cap>>
  BY <1>t, <1>q DEF Receive, TypeOK
<1>w. /\ \A c : Wanted'[c] = Wanted[c]
      /\ \A c, n : Rows(c, n, history, evicted)' = Rows(c, n, history, evicted)
  BY <1>s DEF Wanted, Shown, Rows, Ring
<1>1. TypeOK'
  BY <1>t, <1>q DEF TypeOK, Receive
<1>2. RingShape'
  BY <1>s, <1>q DEF IInv, RingShape
<1>3. NothingMissed'
  <2> SUFFICES ASSUME NEW c \in Clients, NEW id \in 1..cursor'[c],
                      history[id] \in Wanted[c]
               PROVE  id \in got'[c] \/ id <= told'[c]
    BY <1>s, <1>w DEF NothingMissed
  <2>1. CASE c # c0
    BY <1>s, <2>1 DEF IInv, NothingMissed
  <2>2. CASE c = c0 /\ (q.lost \/ q.latest)
    <3>1. id <= q.cursor /\ told'[c] = q.cursor
      BY <1>c, <1>q, <2>2
    <3> QED
      BY <3>1
  <2>3. CASE c = c0 /\ ~q.lost /\ ~q.latest
    <3>0. cursor[c] \in Nat /\ cursor'[c] = q.cursor
      BY <1>c, <1>t, <2>3 DEF TypeOK
    <3>1. CASE id <= cursor[c]
      <4>1. id \in 1..cursor[c]
        BY <1>q, <3>0, <3>1
      <4>2. id \in got[c] \/ id <= told[c]
        BY <4>1 DEF IInv, NothingMissed
      <4> QED
        BY <1>s, <2>3, <4>2
    <3>2. CASE id > cursor[c]
      <4>1. id \in Between(q)
        BY <1>q, <2>3, <3>0, <3>2 DEF Between
      <4> QED
        BY <1>s, <1>q, <2>3, <4>1
    <3> QED
      BY <3>0, <3>1, <3>2, <1>q
  <2> QED
    BY <2>1, <2>2, <2>3
\* Nobody else's cursor has moved, and the client has no other request.
<1>o. ASSUME NEW s \in Requests, request'[s] # None, request[s].open
      PROVE  /\ s # r /\ request'[s] = request[s]
             /\ request[s].client # c0 /\ request[s].client \in Clients
             /\ cursor'[request[s].client] = cursor[request[s].client]
  <2>1. s # r /\ request'[s] = request[s]
    BY <1>s, <1>o
  <2>2. request[s].client # c0
    BY <1>o, <2>1, <1>q DEF IInv, OpenShape
  <2>3. request[s].client \in Clients
    BY <1>t, <1>o, <2>1 DEF TypeOK, Waiting, Answered
  <2> QED
    BY <2>1, <2>2, <2>3, <1>s
<1>4. OpenShape'
  <2> SUFFICES ASSUME NEW s \in Requests, request'[s] # None, request'[s].open
               PROVE  /\ \A p \in Requests :
                            request'[p] # None /\ request'[p].open
                              /\ request'[p].client = request'[s].client => p = s
                      /\ ~request'[s].latest =>
                            request'[s].since = cursor'[request'[s].client]
    BY DEF OpenShape
  <2>1. request'[s] = request[s]
    BY <1>s
  <2>2. \A p \in Requests :
            request'[p] # None /\ request'[p].open
              /\ request'[p].client = request'[s].client => p = s
    BY <1>s, <2>1 DEF IInv, OpenShape
  <2>3. ~request[s].latest => request[s].since = cursor[request[s].client]
    BY <2>1 DEF IInv, OpenShape
  <2>4. cursor'[request[s].client] = cursor[request[s].client]
    BY <1>o, <2>1
  <2> QED
    BY <2>1, <2>2, <2>3, <2>4
<1>5. ReplyShape'
  <2> SUFFICES ASSUME NEW s \in Requests,
                      request'[s] # None, request'[s].stage = "answered"
               PROVE  LET p == request[s] IN
                      /\ p.open
                      /\ p.cursor <= Len(history) /\ cursor[p.client] <= p.cursor
                      /\ cursor'[p.client] = cursor[p.client]
                      /\ p.rows \subseteq Between(p)
                      /\ ~p.lost /\ ~p.latest => Between(p) \subseteq p.rows
    BY <1>s, <1>w DEF ReplyShape, Between
  <2>1. request'[s] = request[s]
    BY <1>s
  <2>2. LET p == request[s] IN
        /\ p.open
        /\ p.cursor <= Len(history) /\ cursor[p.client] <= p.cursor
        /\ p.rows \subseteq Between(p)
        /\ ~p.lost /\ ~p.latest => Between(p) \subseteq p.rows
    BY <2>1 DEF IInv, ReplyShape
  <2> QED
    BY <2>1, <2>2, <1>o
<1>6. NoLatestWaiter'
  BY <1>s DEF IInv, NoLatestWaiter, Waits
<1>7. NoSleeper'
  <2> SUFFICES ASSUME NEW s \in Requests, request'[s] # None,
                      request'[s].stage = "waiting", ~request'[s].latest
               PROVE  Rows(request'[s].client, request'[s].since, history, evicted) = {}
    BY <1>w, <1>s DEF NoSleeper, Waits
  <2> QED
    BY <1>s DEF IInv, NoSleeper, Waits
<1> QED
  BY <1>1, <1>2, <1>3, <1>4, <1>5, <1>6, <1>7 DEF IInv

(***************************************************************************)
(* Every step keeps the invariant.                                         *)
(***************************************************************************)
LEMMA EmitKeeps ==
    ASSUME IInv, NEW t \in Types, Emit(t)
    PROVE  IInv'
<1> USE EventsAssumption
<1> DEFINE h == Append(history, t)
           e == Evict(h)
<1>t. TypeOK
  BY DEF IInv
<1>1. /\ h \in Seq(Types) /\ Len(h) = Len(history) + 1 /\ h # <<>>
      /\ \A i \in 1..Len(history) : h[i] = history[i]
      /\ h[Len(history) + 1] = t
  BY <1>t, AppendKeeps DEF TypeOK
<1> HIDE DEF h
<1>2. Extends(h)
  BY <1>1, <1>t DEF Extends, Emit, TypeOK
<1>3. e \in Nat /\ evicted <= e /\ e < Len(h)
  BY <1>1, <1>t DEF IInv, RingShape, TypeOK, Evict
<1>4. /\ history' = h /\ evicted' = e /\ UNCHANGED <<cursor, got, told, cap>>
      /\ request' = [r \in Requests |-> IF Woken(r, t)
                                        THEN Resolve(request[r], h, e)
                                        ELSE request[r]]
  BY DEF Emit, h
<1> HIDE DEF e
<1>5. ASSUME NEW r \in Requests
      PROVE  /\ request'[r] \in Waiting \cup Answered \cup {None}
             /\ \/ request'[r] = request[r] /\ StillNothing(r, h)
                \/ Waits(r) /\ request'[r] = Resolve(request[r], h, e)
  <2>1. CASE Woken(r, t)
    <3>1. Waits(r) /\ request[r] \in Waiting
      BY <1>t, <2>1 DEF Woken, Waits, TypeOK, Answered
    <3>2. request'[r] = Resolve(request[r], h, e)
      BY <1>4, <2>1
    <3>3. Resolve(request[r], h, e) \in Answered \cup {None}
      BY <1>1, <1>2, <1>3, <3>1, AnswerShape DEF Resolve, Extends
    <3> QED
      BY <3>1, <3>2, <3>3
  <2>2. CASE ~Woken(r, t)
    <3>1. request'[r] = request[r] /\ request[r] \in Waiting \cup Answered \cup {None}
      BY <1>4, <2>2, <1>t DEF TypeOK
    <3>2. StillNothing(r, h)
      <4> SUFFICES ASSUME Waits(r),
                          NEW i \in (Len(history) + 1)..Len(h)
                   PROVE  h[i] \notin Wanted[request[r].client]
        BY DEF StillNothing
      <4>1. i = Len(history) + 1
        BY <1>1, <1>t DEF TypeOK
      <4>2. request[r].client \in Clients /\ t \notin Filter[request[r].client]
        BY <2>2, <1>t DEF Woken, Waits, TypeOK, Waiting, Answered
      <4> QED
        BY <1>1, <4>1, <4>2 DEF Wanted
    <3> QED
      BY <3>1, <3>2
  <2> QED
    BY <2>1, <2>2
<1>6. /\ request' \in [Requests -> Waiting \cup Answered \cup {None}]
      /\ cap' \in Caps
  BY <1>4, <1>5, <1>t DEF TypeOK
<1> QED
  BY <1>2, <1>3, <1>4, <1>5, <1>6, HubKeeps

LEMMA TickKeeps ==
    ASSUME IInv, NEW S \in SUBSET Requests, Tick(S)
    PROVE  IInv'
<1> USE EventsAssumption
<1>t. TypeOK
  BY DEF IInv
<1>1. Extends(history)
  BY <1>t DEF Extends, TypeOK
<1>2. /\ evicted \in Nat /\ cap \in Caps
      /\ evicted < Len(history) \/ (evicted = 0 /\ history = <<>>)
  BY <1>t DEF IInv, RingShape, TypeOK
<1>3. /\ UNCHANGED <<history, cursor, got, told, evicted, cap>>
      /\ request' = [r \in Requests |-> IF r \in S
                                        THEN Resolve(request[r], history, evicted)
                                        ELSE request[r]]
  BY DEF Tick, Expired
<1>4. ASSUME NEW r \in Requests
      PROVE  /\ request'[r] \in Waiting \cup Answered \cup {None}
             /\ \/ request'[r] = request[r] /\ StillNothing(r, history)
                \/ Waits(r) /\ request'[r] = Resolve(request[r], history, evicted)
  <2>1. CASE r \in S
    <3>1. Waits(r) /\ request[r] \in Waiting
      BY <1>t, <2>1 DEF Tick, Waits, TypeOK, Answered
    <3>2. Resolve(request[r], history, evicted) \in Answered \cup {None}
      BY <1>1, <1>2, <3>1, AnswerShape DEF Resolve, Extends
    <3> QED
      BY <1>3, <2>1, <3>1, <3>2
  <2>2. CASE r \notin S
    <3>1. StillNothing(r, history)
      BY <1>t DEF StillNothing, TypeOK
    <3> QED
      BY <1>3, <1>t, <2>2, <3>1 DEF TypeOK
  <2> QED
    BY <2>1, <2>2
<1>5. request' \in [Requests -> Waiting \cup Answered \cup {None}]
  BY <1>3, <1>4
<1> QED
  BY <1>1, <1>2, <1>3, <1>4, <1>5, HubKeeps

LEMMA SetCapKeeps ==
    ASSUME IInv, NEW n \in Caps, SetCap(n)
    PROVE  IInv'
<1>t. TypeOK
  BY DEF IInv
<1>1. Extends(history)
  BY <1>t DEF Extends, TypeOK
<1>2. /\ evicted \in Nat
      /\ evicted < Len(history) \/ (evicted = 0 /\ history = <<>>)
      /\ request \in [Requests -> Waiting \cup Answered \cup {None}]
  BY <1>t, EventsAssumption DEF IInv, RingShape, TypeOK
<1>3. \A r \in Requests : StillNothing(r, history)
  BY <1>t DEF StillNothing, TypeOK
<1> QED
  BY <1>1, <1>2, <1>3, HubKeeps DEF SetCap

LEMMA PollKeeps ==
    ASSUME IInv, NEW c \in Clients, NEW r \in Requests, NEW wait \in BOOLEAN,
           Poll(c, r, wait)
    PROVE  IInv'
<1> USE EventsAssumption
<1> DEFINE q == Asked(c, FALSE, cursor[c])
           a == Answer(q, history, evicted)
<1>t. TypeOK
  BY DEF IInv
<1>1. /\ q \in Waiting /\ q.client = c /\ q.open /\ ~q.latest
      /\ q.since = cursor[c] /\ q.stage = "waiting"
  BY <1>t DEF Asked, Waiting, TypeOK
<1>2. /\ history \in Seq(Types) /\ Len(history) <= MaxEvents /\ evicted \in Nat
      /\ evicted < Len(history) \/ history = <<>>
      /\ cursor[c] \in Nat /\ cursor[c] <= Len(history)
  BY <1>t DEF IInv, TypeOK, RingShape
<1> HIDE DEF q
<1>3. /\ a \in Answered /\ a.client = c /\ a.open /\ ~a.latest
      /\ a.since = cursor[c] /\ a.stage = "answered" /\ a.cursor = Len(history)
      /\ a.rows = {id \in (evicted + 1)..Len(history) :
                       id > cursor[c] /\ history[id] \in Wanted[c]}
      /\ ~a.lost => a.rows = {id \in (cursor[c] + 1)..Len(history) :
                                  history[id] \in Wanted[c]}
  BY <1>1, <1>2, AnswerShape
<1>4. a.rows = Rows(c, cursor[c], history, evicted)
  BY <1>1 DEF Answer, Reply
<1> HIDE DEF a
<1>5. a.rows \subseteq Between(a) /\ (~a.lost => Between(a) \subseteq a.rows)
  BY <1>2, <1>3 DEF Between
<1>6. /\ UNCHANGED <<history, cursor, got, told, evicted, cap>>
      /\ \A s \in Requests : request[s] # None /\ request[s].open
                                => request[s].client # c
      /\ \/ request' = [request EXCEPT ![r] = a]
         \/ request' = [request EXCEPT ![r] = q] /\ a.rows = {}
  BY DEF Poll, Get, Quiet, a, q
<1>7. CASE request' = [request EXCEPT ![r] = a]
  <2>1. /\ a.open =>
              /\ \A s \in Requests : request[s] # None /\ request[s].open
                                      => request[s].client # a.client
              /\ ~a.latest => a.since = cursor[a.client]
        /\ a.stage = "answered" =>
              /\ a.open
              /\ a.cursor <= Len(history) /\ cursor[a.client] <= a.cursor
              /\ a.rows \subseteq Between(a)
              /\ ~a.lost /\ ~a.latest => Between(a) \subseteq a.rows
        /\ a.stage # "waiting"
    BY <1>2, <1>3, <1>5, <1>6
  <2> QED
    BY <1>3, <1>6, <1>7, <2>1, SlotKeeps
<1>8. CASE request' = [request EXCEPT ![r] = q] /\ a.rows = {}
  BY <1>1, <1>4, <1>6, <1>8, SlotKeeps
<1> QED
  BY <1>6, <1>7, <1>8

LEMMA SubscribeKeeps ==
    ASSUME Impatient = {}, IInv, NEW c \in Clients, NEW r \in Requests,
           NEW wait \in BOOLEAN, Subscribe(c, r, wait)
    PROVE  IInv'
<1> USE EventsAssumption
<1> DEFINE a == Reply(Asked(c, TRUE, 0), {}, CursorOf(history), FALSE)
<1>t. TypeOK
  BY DEF IInv
<1>1. /\ a \in Answered /\ a.client = c /\ a.open /\ a.latest
      /\ a.stage = "answered" /\ a.cursor = Len(history) /\ a.rows = {}
  BY <1>t DEF Reply, Asked, CursorOf, Answered, TypeOK
<1>2. cursor[c] <= Len(history) /\ Len(history) \in Nat
  BY <1>t DEF IInv, RingShape, TypeOK
<1>3. /\ UNCHANGED <<history, cursor, got, told, evicted, cap>>
      /\ \A s \in Requests : request[s] # None /\ request[s].open
                                => request[s].client # c
      /\ request' = [request EXCEPT ![r] = a]
  BY DEF Subscribe, Get, Quiet
<1> HIDE DEF a
<1>4. /\ a.open =>
            /\ \A s \in Requests : request[s] # None /\ request[s].open
                                    => request[s].client # a.client
            /\ ~a.latest => a.since = cursor[a.client]
      /\ a.stage = "answered" =>
            /\ a.open
            /\ a.cursor <= Len(history) /\ cursor[a.client] <= a.cursor
            /\ a.rows \subseteq Between(a)
            /\ ~a.lost /\ ~a.latest => Between(a) \subseteq a.rows
      /\ a.stage # "waiting"
  BY <1>1, <1>2, <1>3
<1> QED
  BY <1>1, <1>3, <1>4, SlotKeeps

LEMMA LeaveKeeps ==
    ASSUME IInv, NEW r \in Requests, Leave(r)
    PROVE  IInv'
<1> DEFINE q == [request[r] EXCEPT !.open = FALSE]
<1>t. TypeOK
  BY DEF IInv
<1>1. UNCHANGED <<history, cursor, got, told, evicted, cap>>
  BY DEF Leave
<1>2. CASE Waits(r)
  <2>1. request[r] \in Waiting
    BY <1>t, <1>2 DEF Waits, TypeOK, Answered
  <2>2. /\ q \in Waiting /\ ~q.open /\ q.stage = "waiting"
        /\ q.client = request[r].client /\ q.since = request[r].since
        /\ q.latest = request[r].latest
    BY <2>1 DEF Waiting
  <2>3. ~q.latest /\ Rows(q.client, q.since, history, evicted) = {}
    BY <1>2, <2>2 DEF IInv, NoLatestWaiter, NoSleeper
  <2>4. request' = [request EXCEPT ![r] = q]
    BY <1>2 DEF Leave
  <2> HIDE DEF q
  <2> QED
    BY <1>1, <2>2, <2>3, <2>4, SlotKeeps
<1>3. CASE ~Waits(r)
  <2>1. request' = [request EXCEPT ![r] = None]
    BY <1>3 DEF Leave
  <2> QED
    BY <1>1, <2>1, SlotKeeps
<1> QED
  BY <1>2, <1>3

LEMMA NextIInv == Impatient = {} /\ IInv /\ [Next]_vars => IInv'
<1> SUFFICES ASSUME Impatient = {}, IInv, [Next]_vars PROVE IInv'
  OBVIOUS
<1>1. CASE UNCHANGED vars
  <2>1. /\ UNCHANGED <<history, cursor, got, told, evicted, cap, request>>
    BY <1>1 DEF vars
  <2> QED
    BY <2>1 DEF IInv, TypeOK, RingShape, OpenShape, ReplyShape, Between,
                NoLatestWaiter, NoSleeper, NothingMissed, Waits, Rows, Ring,
                Wanted, Shown
<1>2. CASE \E t \in Types : Emit(t)
  BY <1>2, EmitKeeps
<1>3. CASE \E S \in (SUBSET Requests) \ {{}} : Tick(S)
  BY <1>3, TickKeeps
<1>4. CASE \E n \in Caps : SetCap(n)
  BY <1>4, SetCapKeeps
<1>5. CASE \E c \in Clients, r \in Requests, wait \in BOOLEAN :
              Poll(c, r, wait) \/ Subscribe(c, r, wait)
  BY <1>5, PollKeeps, SubscribeKeeps
<1>6. CASE \E r \in Requests : Receive(r) \/ Leave(r)
  BY <1>6, ReceiveKeeps, LeaveKeeps
<1> QED
  BY <1>1, <1>2, <1>3, <1>4, <1>5, <1>6 DEF Next

(***************************************************************************)
(* Theorems.                                                               *)
(***************************************************************************)
\* The invariant holds whenever nobody combines since=latest with wait.
LEMMA InvHolds == Impatient = {} /\ Spec => []IInv
<1>1. Impatient = {} => [](Impatient = {})
  OBVIOUS
<1> QED
  BY <1>1, InitIInv, NextIInv, PTL DEF Spec

\* The types of the ring, the clients and the requests held open.
THEOREM TypeCorrect == Impatient = {} /\ Spec => []TypeOK
<1>1. IInv => TypeOK
  BY DEF IInv
<1> QED
  BY <1>1, InvHolds, PTL

\* A client that resumes with its cursor has got all it may see, or knows of
\* the gap.
THEOREM NothingIsMissed == Impatient = {} /\ Spec => []NothingMissed
<1>1. IInv => NothingMissed
  BY DEF IInv
<1> QED
  BY <1>1, InvHolds, PTL

\* A request is held open only while there is nothing for it.
THEOREM NobodySleeps == Impatient = {} /\ Spec => []NoSleeper
<1>1. IInv => NoSleeper
  BY DEF IInv
<1> QED
  BY <1>1, InvHolds, PTL

\* The response that arrives is a step of the feed.
LEMMA ReceiveIsFeedStep ==
    ASSUME IInv, NEW r \in Requests, Receive(r)
    PROVE  Feed!Next
<1> DEFINE q == request[r]
           c == q.client
<1>t. TypeOK
  BY DEF IInv
<1>q. /\ q # None /\ q.stage = "answered" /\ c \in Clients
      /\ q.cursor \in 0..MaxEvents
      /\ q.cursor <= Len(history) /\ cursor[c] <= q.cursor
      /\ q.rows \subseteq Between(q)
      /\ ~q.lost /\ ~q.latest => Between(q) = q.rows
  BY ReceivedShape DEF Receive
<1>1. q.cursor \in cursor[c]..Len(history)
  BY <1>q, <1>t DEF TypeOK
<1>2. Between(q) = Feed!For(c, cursor[c], q.cursor)
  BY DEF Between, Feed!For
<1>3. /\ cursor' = [cursor EXCEPT ![c] = q.cursor]
      /\ got' = [got EXCEPT ![c] = @ \cup q.rows]
      /\ told' = [told EXCEPT ![c] = IF q.lost \/ q.latest THEN q.cursor ELSE @]
      /\ UNCHANGED history
  BY DEF Receive
<1>4. CASE q.lost \/ q.latest
  <2>1. told' = [told EXCEPT ![c] = q.cursor]
    BY <1>3, <1>4
  <2>2. q.rows \in SUBSET Feed!For(c, cursor[c], q.cursor)
    BY <1>q, <1>2
  <2>3. Feed!Skip(c, q.cursor)
    BY <1>3, <2>1, <2>2 DEF Feed!Skip
  <2> QED
    BY <1>1, <1>q, <2>3 DEF Feed!Next
<1>5. CASE ~(q.lost \/ q.latest)
  <2>1. told' = told
    BY <1>3, <1>5, <1>t DEF TypeOK
  <2>2. q.rows = Feed!For(c, cursor[c], q.cursor)
    BY <1>q, <1>2, <1>5
  <2>3. Feed!Deliver(c, q.cursor)
    BY <1>3, <2>1, <2>2 DEF Feed!Deliver
  <2> QED
    BY <1>1, <1>q, <2>3 DEF Feed!Next
<1> QED
  BY <1>4, <1>5

LEMMA StepImplements ==
    IInv /\ [Next]_vars => [Feed!Next]_(Feed!feedVars)
<1> SUFFICES ASSUME IInv, [Next]_vars PROVE [Feed!Next]_(Feed!feedVars)
  OBVIOUS
<1>1. CASE UNCHANGED vars
  BY <1>1 DEF vars, Feed!feedVars
<1>2. ASSUME NEW t \in Types, Emit(t) PROVE Feed!Next
  <2>1. Feed!Emit(t)
    BY <1>2 DEF Emit, Feed!Emit
  <2> QED
    BY <2>1 DEF Feed!Next
<1>3. ASSUME NEW r \in Requests, Receive(r) PROVE Feed!Next
  BY <1>3, ReceiveIsFeedStep
<1>4. ASSUME \/ \E S \in (SUBSET Requests) \ {{}} : Tick(S)
             \/ \E n \in Caps : SetCap(n)
             \/ \E c \in Clients, r \in Requests, wait \in BOOLEAN :
                    Poll(c, r, wait) \/ Subscribe(c, r, wait)
             \/ \E r \in Requests : Leave(r)
      PROVE  UNCHANGED Feed!feedVars
  BY <1>4 DEF Tick, SetCap, Poll, Subscribe, Get, Leave, Feed!feedVars
<1> QED
  BY <1>1, <1>2, <1>3, <1>4 DEF Next

\* What the clients see is the feed of EventFeed: every event they asked for
\* and may see once, and no gap they are not told of.
THEOREM FeedImplemented == Impatient = {} /\ Spec => ImplementsFeed
<1>1. Init => Feed!Init
  BY DEF Init, Feed!Init
<1> QED
  BY <1>1, InvHolds, StepImplements, PTL DEF Spec, ImplementsFeed, Feed!Spec
=============================================================================
