-------------------------- MODULE ServerLoopProofs --------------------------
(***************************************************************************)
(* Proofs about ServerLoop, for any number of connections, addresses and   *)
(* limits: the slots of a connection are given back, and, where the code   *)
(* keeps them, its promises about closing, sending and dispatching.        *)
(***************************************************************************)
EXTENDS ServerLoop, FiniteSetTheorems, TLAPS

----------------------------------------------------------------------------
(* The inductive invariant. *)

\* A handler in itself.
Fit(c, h) ==
    /\ h \in Handlers
    /\ ~h.live => h = Gone
    /\ h.reading = "handshake" => h.hsAge # "none" /\ h.sending = "handshake"
    /\ h.hsAge # "none" => h.sending # "write"
    /\ h.user = "none" => h.reading = "none" /\ h.sending = "write"
    /\ h.live => h.inRead \/ h.toclose
    /\ c \notin WriteWanters => ~h.readOnWrite /\ ~h.wrote

\* Every index leads to its socket, and only a handshake makes entries without one.
Shelf(l) ==
    /\ l \in [seq : Seq(Conns \cup {None}), pos : [Conns -> Nat]]
    /\ \A c \in Conns : l.pos[c] # 0 =>
            l.pos[c] \in DOMAIN l.seq /\ l.seq[l.pos[c]] = c
    /\ \A c \in Conns \ WriteWanters, i \in DOMAIN l.seq :
            l.seq[i] = c => l.pos[c] = i

Behind(i) == {c \in Live : IpOf[c] = i}
On(s) == {c \in Live : ServerOf(c) = s}

Slots ==
    /\ perip \in [Ips -> Nat] /\ connections \in [Servers -> Nat]
    /\ \A i \in Ips : perip[i] = Cardinality(Behind(i)) /\ perip[i] <= MaxPerIp
    /\ \A s \in Servers :
        connections[s] = Cardinality(On(s)) /\ connections[s] <= MaxConnections + 1

\* Who runs in which phase, and on which connection.
Turn ==
    \/ control = "loop" /\ current = None
    \/ control = "timer" /\ current = None /\ phase = "timers"
    \/ control = "leave" /\ current = None /\ phase = "close" /\ Announced # {}
    \/ control \in {"receive", "frames", "frame"} /\ current \in Live
       /\ phase \in {"io", "crashed"}

\* A frame that is read has its user, unless the TLS layer asked to write.
Dispatchable ==
    control \in {"receive", "frames"} /\ current \notin WriteWanters =>
        conn[current].user # "none"

\* What is left to do in a phase is about connections that are there.
Waiting ==
    /\ towrite \subseteq Live /\ toread \subseteq Live \cup Servers
    /\ remaining \subseteq Live

Phases ==
    /\ phase \in {"select", "io", "timers", "close", "crashed"}
    /\ ending \in BOOLEAN /\ booted \in BOOLEAN /\ stopping \in BOOLEAN
    /\ phase \in {"select", "timers", "close"} => towrite = {} /\ toread = {}
    /\ phase # "close" => remaining = {}
    /\ phase = "crashed" => WriteWanters # {}
    /\ ~ColdStart => booted

Running == Turn /\ Dispatchable /\ Waiting /\ Phases

IInv ==
    /\ conn \in [Conns -> Handlers]
    /\ \A c \in Conns : Fit(c, conn[c])
    /\ Shelf(sendlist)
    /\ Slots
    /\ Running

\* Where time stamps are set from the start and no departure is announced: data
\* that waits has a send timer, and what was closed is listed or has data to send.
Sure(h) ==
    /\ h.queued > 0 => h.writeAge # "none"
    /\ h.reading = "none" \/ h.toclose => h.listed \/ (h.toclose /\ h.queued > 0)

Closing ==
    /\ \A c \in Live : Sure(conn[c])
    /\ phase = "close" => remaining = Listed

\* What write() accepted is going to be sent, or the connection to be closed.
Has(l, c) == \E i \in DOMAIN l.seq : l.seq[i] = c
Scheduled(c, h, l) ==
    h.queued > 0 => h.listed \/ Has(l, c) \/ (h.sendOnRead /\ h.writeAge # "none")

Sending == \A c \in Live : Scheduled(c, conn[c], sendlist)

----------------------------------------------------------------------------
(* The send list. *)

\* Whatever is done to the list, no other socket is dropped from it.
Spares(c, l, m) == \A d \in Conns \ {c} : Has(l, d) => Has(m, d)

LEMMA AddSocketShelf ==
    ASSUME NEW l, Shelf(l), NEW c \in Conns
    PROVE  /\ Shelf(AddSocket(l, c)) /\ Spares(c, l, AddSocket(l, c))
           /\ Has(AddSocket(l, c), c)
<1> DEFINE n == Len(l.seq)
           q == Append(l.seq, c)
           m == [seq |-> q, pos |-> [l.pos EXCEPT ![c] = n + 1]]
<1>0. l.seq \in Seq(Conns \cup {None}) /\ l.pos \in [Conns -> Nat] /\ n \in Nat
  BY DEF Shelf
<1>1. CASE l.pos[c] # 0
  BY <1>1 DEF AddSocket, Shelf, Spares, Has
<1>2. CASE l.pos[c] = 0
  <2>1. AddSocket(l, c) = m
    BY <1>2 DEF AddSocket
  <2>2. /\ q \in Seq(Conns \cup {None}) /\ DOMAIN q = 1..(n + 1) /\ DOMAIN l.seq = 1..n
        /\ q[n + 1] = c /\ \A i \in 1..n : q[i] = l.seq[i]
    BY <1>0
  <2>3. m.seq = q /\ m.pos \in [Conns -> Nat] /\ m \in [seq : Seq(Conns \cup {None}), pos : [Conns -> Nat]]
        /\ m.pos[c] = n + 1 /\ \A d \in Conns \ {c} : m.pos[d] = l.pos[d]
    BY <1>0, <2>2
  <2> HIDE DEF m, q
  <2>4. Shelf(m)
    <3>1. \A d \in Conns : m.pos[d] # 0 => m.pos[d] \in DOMAIN m.seq /\ m.seq[m.pos[d]] = d
      BY <1>0, <2>2, <2>3 DEF Shelf
    <3>2. \A d \in Conns \ WriteWanters, i \in DOMAIN m.seq : m.seq[i] = d => m.pos[d] = i
      <4> TAKE d \in Conns \ WriteWanters, i \in DOMAIN m.seq
      <4> HAVE m.seq[i] = d
      <4>1. CASE i = n + 1
        BY <2>2, <2>3, <4>1
      <4>2. CASE i \in 1..n
        <5>1. l.seq[i] = d /\ l.pos[d] = i
          BY <2>2, <2>3, <4>2 DEF Shelf
        <5> QED BY <1>0, <1>2, <2>2, <2>3, <4>2, <5>1
      <4> QED BY <1>0, <2>2, <2>3, <4>1, <4>2
    <3> QED BY <2>3, <3>1, <3>2 DEF Shelf
  <2>5. Spares(c, l, m) /\ Has(m, c)
    <3>1. n + 1 \in DOMAIN m.seq /\ \A i \in DOMAIN l.seq : i \in DOMAIN m.seq /\ m.seq[i] = l.seq[i]
      BY <1>0, <2>2, <2>3
    <3> QED BY <2>2, <2>3, <3>1 DEF Spares, Has
  <2> QED BY <2>1, <2>4, <2>5
<1> QED BY <1>1, <1>2

LEMMA AppendShelf ==
    ASSUME NEW l, Shelf(l), NEW c \in WriteWanters
    PROVE  Shelf(AppendUnindexed(l, c)) /\ Spares(c, l, AppendUnindexed(l, c))
<1> DEFINE n == Len(l.seq)
           q == Append(l.seq, c)
           m == AppendUnindexed(l, c)
<1>0. /\ l.seq \in Seq(Conns \cup {None}) /\ l.pos \in [Conns -> Nat] /\ n \in Nat
      /\ c \in Conns
  BY ServerAssumption DEF Shelf
<1>1. /\ q \in Seq(Conns \cup {None}) /\ DOMAIN q = 1..(n + 1) /\ DOMAIN l.seq = 1..n
      /\ q[n + 1] = c /\ \A i \in 1..n : q[i] = l.seq[i]
  BY <1>0
<1>2. m.seq = q /\ m.pos = l.pos /\ m \in [seq : Seq(Conns \cup {None}), pos : [Conns -> Nat]]
  BY <1>0, <1>1 DEF AppendUnindexed, Shelf
<1> HIDE DEF m, q
<1>3. Shelf(m)
  <2>1. \A d \in Conns : m.pos[d] # 0 => m.pos[d] \in DOMAIN m.seq /\ m.seq[m.pos[d]] = d
    BY <1>0, <1>1, <1>2 DEF Shelf
  <2>2. \A d \in Conns \ WriteWanters, i \in DOMAIN m.seq : m.seq[i] = d => m.pos[d] = i
    BY <1>0, <1>1, <1>2 DEF Shelf
  <2> QED BY <1>2, <2>1, <2>2 DEF Shelf
<1>4. Spares(c, l, m)
  <2>1. \A i \in DOMAIN l.seq : i \in DOMAIN m.seq /\ m.seq[i] = l.seq[i]
    BY <1>0, <1>1, <1>2
  <2> QED BY <2>1 DEF Spares, Has
<1> QED BY <1>3, <1>4 DEF m

LEMMA FunctionIsSeq ==
    ASSUME NEW S, NEW k \in Nat, NEW q \in [1..k -> S]
    PROVE  q \in Seq(S) /\ DOMAIN q = 1..k
OBVIOUS

LEMMA RemoveSocketShelf ==
    ASSUME NEW l, Shelf(l), NEW c \in Conns
    PROVE  /\ Shelf(RemoveSocket(l, c)) /\ Spares(c, l, RemoveSocket(l, c))
           /\ RemoveSocket(l, c).pos[c] = 0
<1> DEFINE p == l.pos[c]
           n == Len(l.seq)
           last == l.seq[n]
           short == SubSeq(l.seq, 1, n - 1)
           m == RemoveSocket(l, c)
<1>0. l.seq \in Seq(Conns \cup {None}) /\ l.pos \in [Conns -> Nat] /\ n \in Nat /\ p \in Nat
      /\ DOMAIN l.seq = 1..n
  BY DEF Shelf
<1>1. CASE p = 0
  BY <1>1 DEF RemoveSocket, Spares
<1>2. CASE p # 0
  <2>1. p \in 1..n /\ l.seq[p] = c /\ n >= 1 /\ last \in Conns \cup {None}
    BY <1>0, <1>2 DEF Shelf
  <2>2. /\ short \in Seq(Conns \cup {None}) /\ DOMAIN short = 1..(n - 1)
        /\ \A i \in 1..(n - 1) : short[i] = l.seq[i]
    BY <1>0, <2>1
  <2>3. CASE last = c
    <3>1. m = [seq |-> short, pos |-> [l.pos EXCEPT ![c] = 0]]
      BY <1>2, <2>3 DEF RemoveSocket
    <3> HIDE DEF short
    <3>2. /\ m.seq = short /\ m \in [seq : Seq(Conns \cup {None}), pos : [Conns -> Nat]]
          /\ m.pos[c] = 0 /\ \A d \in Conns \ {c} : m.pos[d] = l.pos[d]
      BY <1>0, <2>2, <3>1
    <3> HIDE DEF m
    <3>3. \A d \in Conns : m.pos[d] # 0 => m.pos[d] \in DOMAIN m.seq /\ m.seq[m.pos[d]] = d
      <4> TAKE d \in Conns
      <4> HAVE m.pos[d] # 0
      <4>1. d # c /\ l.pos[d] \in 1..n /\ l.seq[l.pos[d]] = d
        BY <1>0, <3>2 DEF Shelf
      <4>2. l.pos[d] # n
        BY <2>3, <4>1
      <4> QED BY <1>0, <2>2, <3>2, <4>1, <4>2
    <3>4. \A d \in Conns \ WriteWanters, i \in DOMAIN m.seq : m.seq[i] = d => m.pos[d] = i
      <4> TAKE d \in Conns \ WriteWanters, i \in DOMAIN m.seq
      <4> HAVE m.seq[i] = d
      <4>1. i \in 1..n /\ i # n /\ l.seq[i] = d
        BY <1>0, <2>2, <3>2
      <4>2. l.pos[d] = i
        BY <1>0, <4>1 DEF Shelf
      <4>3. d # c
        <5> SUFFICES ASSUME d = c PROVE FALSE
          OBVIOUS
        <5>1. l.pos[c] = n
          BY <1>0, <2>1, <2>3 DEF Shelf
        <5> QED BY <4>1, <4>2, <5>1
      <4> QED BY <3>2, <4>2, <4>3
    <3>5. Spares(c, l, m)
      <4>1. ASSUME NEW d \in Conns \ {c}, Has(l, d) PROVE Has(m, d)
        <5>1. PICK i \in 1..n : l.seq[i] = d
          BY <1>0, <4>1 DEF Has
        <5>2. i # n
          BY <2>3, <5>1
        <5>3. i \in DOMAIN m.seq /\ m.seq[i] = d
          BY <1>0, <2>2, <3>2, <5>1, <5>2
        <5> QED BY <5>3 DEF Has
      <4> QED BY <4>1 DEF Spares
    <3>6. Shelf(m)
      BY <3>2, <3>3, <3>4 DEF Shelf
    <3> QED BY <3>2, <3>5, <3>6 DEF m
  <2>4. CASE last # c
    <3> DEFINE q == [short EXCEPT ![p] = last]
               z == [d \in Conns |-> IF d = c THEN 0 ELSE IF d = last THEN p ELSE l.pos[d]]
    <3>1. m = [seq |-> q, pos |-> z]
      BY <1>2, <2>4 DEF RemoveSocket
    <3>2. p \in 1..(n - 1)
      BY <1>0, <2>1, <2>4
    <3>3. /\ q \in Seq(Conns \cup {None}) /\ DOMAIN q = 1..(n - 1) /\ q[p] = last
          /\ \A i \in 1..(n - 1) : i # p => q[i] = l.seq[i]
      <4> HIDE DEF short, p, last, n
      <4>0. n - 1 \in Nat
        BY <1>0, <2>1 DEF n
      <4>1. short \in [1..(n - 1) -> Conns \cup {None}]
        BY <2>2, <4>0
      <4>2. q \in [1..(n - 1) -> Conns \cup {None}] /\ q[p] = last
        BY <2>1, <3>2, <4>1
      <4>4. q \in Seq(Conns \cup {None}) /\ DOMAIN q = 1..(n - 1)
        BY <4>0, <4>2, FunctionIsSeq
      <4>5. \A i \in 1..(n - 1) : i # p => q[i] = l.seq[i]
        BY <2>2, <3>2, <4>0, <4>1
      <4> QED BY <4>2, <4>4, <4>5
    <3>4. z \in [Conns -> Nat] /\ z[c] = 0
          /\ \A d \in Conns \ {c} : z[d] = IF d = last THEN p ELSE l.pos[d]
      BY <1>0
    <3>5. m.seq = q /\ m.pos = z /\ m \in [seq : Seq(Conns \cup {None}), pos : [Conns -> Nat]]
      BY <3>1, <3>3, <3>4
    <3> HIDE DEF q, z, m, short, last, p
    <3>6. \A d \in Conns : z[d] # 0 => z[d] \in DOMAIN q /\ q[z[d]] = d
      <4> TAKE d \in Conns
      <4> HAVE z[d] # 0
      <4>1. CASE d = last
        BY <2>4, <3>2, <3>3, <3>4, <4>1
      <4>2. CASE d # last
        <5>1. d # c /\ z[d] = l.pos[d] /\ l.pos[d] \in 1..n /\ l.seq[l.pos[d]] = d
          BY <1>0, <3>4, <4>2 DEF Shelf
        <5>2. l.pos[d] # n /\ l.pos[d] # p
          BY <2>1, <4>2, <5>1 DEF last
        <5>3. l.pos[d] \in 1..(n - 1)
          BY <1>0, <5>1, <5>2
        <5>4. z[d] \in 1..(n - 1) /\ z[d] # p /\ l.seq[z[d]] = d
          BY <5>1, <5>2, <5>3
        <5> QED BY <3>3, <5>4
      <4> QED BY <4>1, <4>2
    <3>7. \A d \in Conns \ WriteWanters, i \in DOMAIN q : q[i] = d => z[d] = i
      <4> TAKE d \in Conns \ WriteWanters, i \in DOMAIN q
      <4> HAVE q[i] = d
      <4>1. CASE i = p
        BY <2>4, <3>3, <3>4, <4>1
      <4>2. CASE i # p
        <5>1. i \in 1..n /\ i # n /\ l.seq[i] = d
          BY <1>0, <3>3, <4>2
        <5>2. l.pos[d] = i
          BY <1>0, <5>1 DEF Shelf
        <5>3. d # c
          BY <4>2, <5>2 DEF p
        <5>4. d # last
          <6> SUFFICES ASSUME d = last PROVE FALSE
            OBVIOUS
          <6>1. l.pos[d] = n
            BY <1>0, <2>1 DEF Shelf, last
          <6> QED BY <5>1, <5>2, <6>1
        <5> QED BY <3>4, <5>2, <5>3, <5>4
      <4> QED BY <4>1, <4>2
    <3>8. Spares(c, l, m)
      <4>1. ASSUME NEW d \in Conns \ {c}, Has(l, d) PROVE Has(m, d)
        <5>1. PICK i \in 1..n : l.seq[i] = d
          BY <1>0, <4>1 DEF Has
        <5>2. i # p
          BY <2>1, <5>1
        <5>3. CASE i = n
          <6>1. p \in DOMAIN m.seq /\ m.seq[p] = d
            BY <3>2, <3>3, <3>5, <5>1, <5>3 DEF last
          <6> QED BY <6>1 DEF Has
        <5>4. CASE i # n
          <6>1. i \in DOMAIN m.seq /\ m.seq[i] = d
            BY <1>0, <3>3, <3>5, <5>1, <5>2, <5>4
          <6> QED BY <6>1 DEF Has
        <5> QED BY <5>3, <5>4
      <4> QED BY <4>1 DEF Spares
    <3>9. Shelf(m)
      BY <3>5, <3>6, <3>7 DEF Shelf
    <3> QED BY <3>4, <3>5, <3>8, <3>9 DEF m
  <2> QED BY <2>3, <2>4
<1> QED BY <1>1, <1>2

LEMMA BuryShelf ==
    ASSUME NEW l, Shelf(l), NEW c \in Conns
    PROVE  Shelf(Bury(l, c)) /\ Spares(c, l, Bury(l, c))
<1> DEFINE r == RemoveSocket(l, c)
           q == [i \in DOMAIN r.seq |-> IF r.seq[i] = c THEN None ELSE r.seq[i]]
           m == Bury(l, c)
<1>1. Shelf(r) /\ Spares(c, l, r) /\ r.pos[c] = 0
  BY RemoveSocketShelf
<1>2. m = [r EXCEPT !.seq = q]
  BY DEF Bury
<1> HIDE DEF r
<1>3. r \in [seq : Seq(Conns \cup {None}), pos : [Conns -> Nat]] /\ None \notin Conns
  BY <1>1, ServerAssumption DEF Shelf
<1>4. q \in Seq(Conns \cup {None}) /\ DOMAIN q = DOMAIN r.seq
      /\ \A i \in DOMAIN r.seq : q[i] = IF r.seq[i] = c THEN None ELSE r.seq[i]
  BY <1>3
<1> HIDE DEF q
<1>5. m.seq = q /\ m.pos = r.pos /\ m \in [seq : Seq(Conns \cup {None}), pos : [Conns -> Nat]]
  BY <1>2, <1>3, <1>4
<1> HIDE DEF m
<1>6. \A d \in Conns : m.pos[d] # 0 => m.pos[d] \in DOMAIN m.seq /\ m.seq[m.pos[d]] = d
  BY <1>1, <1>4, <1>5 DEF Shelf
<1>7. \A d \in Conns \ WriteWanters, i \in DOMAIN m.seq : m.seq[i] = d => m.pos[d] = i
  BY <1>1, <1>3, <1>4, <1>5 DEF Shelf
<1>8. Shelf(m)
  BY <1>5, <1>6, <1>7 DEF Shelf
<1>9. Spares(c, r, m)
  BY <1>4, <1>5 DEF Spares, Has
<1> QED BY <1>1, <1>8, <1>9 DEF Spares, m

----------------------------------------------------------------------------
(* What is done to a handler. *)

\* A connection that stays keeps being closed once it was.
Onward(c, h, g) ==
    /\ g.live = h.live /\ Fit(c, g)
    /\ h.listed => g.listed
    /\ h.toclose => g.toclose
    /\ booted /\ Sure(h) => Sure(g)

\* ... and its data keeps being scheduled in the list.
Served(c, h, l, g, m) ==
    booted /\ c \notin WriteWanters /\ Sure(h) /\ Scheduled(c, h, l) => Scheduled(c, g, m)

LEMMA OnwardSame ==
    ASSUME NEW c, NEW h, Fit(c, h)
    PROVE  Onward(c, h, h)
BY DEF Onward

LEMMA OnwardTwice ==
    ASSUME NEW c, NEW h, NEW g, NEW f, Onward(c, h, g), Onward(c, g, f)
    PROVE  Onward(c, h, f)
BY DEF Onward

LEMMA AgesOf == "none" \in Ages /\ "fresh" \in Ages /\ "old" \in Ages
BY DEF Ages

LEMMA StampType == Stamp \in Ages /\ (booted => Stamp = "fresh")
BY DEF Stamp, Ages

LEMMA CloseType ==
    ASSUME NEW h \in Handlers, NEW forced \in BOOLEAN
    PROVE  Close(h, forced) \in Handlers
<1> DEFINE now == forced \/ h.queued = 0
           f(a, b, d) == [h EXCEPT !.reading = "none", !.idleAge = "none", !.listed = a,
                                   !.toclose = b, !.inRead = d]
<1>1. \A a, b, d \in BOOLEAN : f(a, b, d) \in Handlers
  BY AgesOf DEF Handlers
<1>2. /\ (h.listed \/ now) \in BOOLEAN /\ (h.toclose \/ ~now) \in BOOLEAN
      /\ (h.inRead /\ now) \in BOOLEAN
  BY Zenon
<1>3. Close(h, forced) = f(h.listed \/ now, h.toclose \/ ~now, h.inRead /\ now)
  BY Zenon DEF Close
<1> HIDE DEF f, now
<1> QED BY <1>1, <1>2, <1>3

\* g is h closed, at once or when its data is sent.
IsClosed(h, g, now) ==
    /\ g.live = h.live /\ g.user = h.user
    /\ g.reading = "none" /\ g.sending = h.sending
    /\ g.sendOnRead = h.sendOnRead /\ g.readOnWrite = h.readOnWrite
    /\ g.queued = h.queued
    /\ g.toclose <=> h.toclose \/ ~now
    /\ g.inRead <=> h.inRead /\ now
    /\ g.listed <=> h.listed \/ now
    /\ g.writeAge = h.writeAge /\ g.idleAge = "none" /\ g.hsAge = h.hsAge
    /\ g.wrote = h.wrote

LEMMA CloseFields ==
    ASSUME NEW h \in Handlers, NEW forced \in BOOLEAN
    PROVE  IsClosed(h, Close(h, forced), forced \/ h.queued = 0)
BY DEF Close, Handlers, IsClosed

LEMMA CloseOnward ==
    ASSUME NEW c, NEW h, Fit(c, h), h.live, NEW forced \in BOOLEAN
    PROVE  Onward(c, h, Close(h, forced))
<1> DEFINE g == Close(h, forced)
           now == forced \/ h.queued = 0
<1>1. h \in Handlers /\ h.queued \in 0..MaxQueue
  BY DEF Fit, Handlers
<1>2. g \in Handlers /\ IsClosed(h, g, now)
  BY <1>1, CloseType, CloseFields
<1> HIDE DEF g
<1>3. Fit(c, g)
  BY <1>2 DEF Fit, IsClosed
<1>4. Sure(h) => Sure(g)
  BY <1>1, <1>2 DEF Sure, IsClosed
<1> QED BY <1>2, <1>3, <1>4 DEF Onward, IsClosed, g

LEMMA OverrunOnward ==
    ASSUME NEW c, NEW h, Fit(c, h), h.live
    PROVE  Onward(c, h, [h EXCEPT !.overrun = TRUE])
<1> DEFINE g == [h EXCEPT !.overrun = TRUE]
<1>1. g \in Handlers
  BY DEF Fit, Handlers
<1>2. /\ g.live = h.live /\ g.user = h.user /\ g.reading = h.reading /\ g.sending = h.sending
      /\ g.readOnWrite = h.readOnWrite /\ g.queued = h.queued /\ g.toclose = h.toclose
      /\ g.inRead = h.inRead /\ g.listed = h.listed /\ g.writeAge = h.writeAge
      /\ g.hsAge = h.hsAge /\ g.wrote = h.wrote
  BY DEF Fit, Handlers
<1> HIDE DEF g
<1> QED BY <1>1, <1>2 DEF Fit, Sure, Onward, g

LEMMA RefuseOnward ==
    ASSUME NEW c, NEW h, Fit(c, h), h.live
    PROVE  /\ Onward(c, h, RefuseWrite(h))
           /\ RefuseWrite(h).user = h.user /\ RefuseWrite(h).listed
           /\ RefuseWrite(h).sending = h.sending
<1> DEFINE f == [h EXCEPT !.overrun = TRUE]
<1>1. Onward(c, h, f) /\ f.live /\ Fit(c, f)
  BY OverrunOnward DEF Onward
<1>2. f.user = h.user /\ f.sending = h.sending /\ f \in Handlers
  BY <1>1 DEF Fit, Handlers
<1> HIDE DEF f
<1>3. IsClosed(f, Close(f, TRUE), TRUE \/ f.queued = 0)
  BY <1>2, CloseFields
<1> QED BY <1>1, <1>2, <1>3, CloseOnward, OnwardTwice DEF RefuseWrite, IsClosed, f

LEMMA QueueOnward ==
    ASSUME NEW c, NEW h, Fit(c, h), h.live, CanQueue(h)
    PROVE  Onward(c, h, Queue(h)) /\ Queue(h).user = h.user /\ Queue(h).sending = h.sending
<1> DEFINE g == Queue(h)
<1>0. h \in Handlers /\ h.queued \in 0..MaxQueue /\ h.queued < MaxQueue /\ MaxQueue \in Nat
  BY ServerAssumption DEF Fit, Handlers, CanQueue
<1>1. g \in Handlers
  <2>1. h.queued + 1 \in 0..MaxQueue /\ Stamp \in Ages
    BY <1>0, StampType
  <2> QED BY <1>0, <2>1 DEF Queue, Handlers
<1>2. /\ g.live = h.live /\ g.user = h.user /\ g.reading = h.reading /\ g.sending = h.sending
      /\ g.readOnWrite = h.readOnWrite /\ g.queued = h.queued + 1 /\ g.toclose = h.toclose
      /\ g.inRead = h.inRead /\ g.listed = h.listed
      /\ g.writeAge = IF h.writeAge = "none" THEN Stamp ELSE h.writeAge
      /\ g.hsAge = h.hsAge /\ g.wrote = h.wrote
  BY <1>0 DEF Queue, Handlers
<1> HIDE DEF g
<1>3. Fit(c, g)
  BY <1>1, <1>2 DEF Fit
<1>4. booted /\ Sure(h) => Sure(g)
  BY <1>0, <1>2, StampType DEF Sure
<1> QED BY <1>2, <1>3, <1>4 DEF Onward, g

LEMMA FlushedOnward ==
    ASSUME NEW c, NEW h, Fit(c, h), h.live
    PROVE  Onward(c, h, Flushed(h)) /\ Flushed(h).user = h.user /\ Flushed(h).queued = 0
<1> DEFINE e == [h EXCEPT !.queued = 0, !.overrun = FALSE]
<1>0. h \in Handlers /\ MaxQueue \in Nat
  BY ServerAssumption DEF Fit
<1>1. e \in Handlers
  <2>1. 0 \in 0..MaxQueue
    BY <1>0
  <2> QED BY <1>0, <2>1 DEF Handlers
<1>2. /\ e.live = h.live /\ e.user = h.user /\ e.reading = h.reading /\ e.sending = h.sending
      /\ e.readOnWrite = h.readOnWrite /\ e.queued = 0 /\ e.toclose = h.toclose
      /\ e.inRead = h.inRead /\ e.listed = h.listed /\ e.writeAge = h.writeAge
      /\ e.hsAge = h.hsAge /\ e.wrote = h.wrote
  BY <1>0 DEF Handlers
<1>3. CASE h.toclose
  <2> DEFINE g == Close(e, TRUE)
  <2> HIDE DEF e
  <2>1. g \in Handlers /\ IsClosed(e, g, TRUE \/ e.queued = 0)
    BY <1>1, CloseType, CloseFields
  <2> HIDE DEF g
  <2>2. Fit(c, g) /\ Sure(g)
    BY <1>2, <2>1 DEF Fit, Sure, IsClosed
  <2>3. Onward(c, h, g) /\ g.user = h.user /\ g.queued = 0
    BY <1>2, <1>3, <2>1, <2>2 DEF Onward, IsClosed
  <2> QED BY <1>3, <2>3 DEF Flushed, e, g
<1>4. CASE ~h.toclose
  <2> DEFINE g == [e EXCEPT !.writeAge = "none", !.idleAge = Stamp, !.sendOnRead = FALSE]
  <2> HIDE DEF e
  <2>0. "none" \in Ages /\ Stamp \in Ages
    BY AgesOf, StampType
  <2>1. g \in Handlers
    BY <1>1, <2>0 DEF Handlers
  <2>2. /\ g.live = h.live /\ g.user = h.user /\ g.reading = h.reading /\ g.sending = h.sending
        /\ g.readOnWrite = h.readOnWrite /\ g.queued = 0 /\ g.toclose = h.toclose
        /\ g.inRead = h.inRead /\ g.listed = h.listed
        /\ g.hsAge = h.hsAge /\ g.wrote = h.wrote
    BY <1>1, <1>2 DEF Handlers
  <2> HIDE DEF g
  <2>3. Fit(c, g)
    BY <2>1, <2>2 DEF Fit
  <2>4. Sure(h) => Sure(g)
    BY <1>4, <2>2 DEF Sure
  <2>5. Onward(c, h, g)
    BY <2>2, <2>3, <2>4 DEF Onward
  <2> QED BY <1>4, <2>2, <2>5 DEF Flushed, e, g
<1> QED BY <1>3, <1>4

LEMMA StalledOnward ==
    ASSUME NEW c, NEW h, Fit(c, h), h.live, NEW rest \in 1..h.queued, NEW onRead \in BOOLEAN
    PROVE  /\ Onward(c, h, Stalled(h, rest, onRead))
           /\ Stalled(h, rest, onRead).user = h.user
           /\ Stalled(h, rest, onRead).sendOnRead = onRead
           /\ Stalled(h, rest, onRead).writeAge = Stamp
<1> DEFINE g == Stalled(h, rest, onRead)
<1>0. h \in Handlers /\ h.queued \in 0..MaxQueue /\ rest \in 0..MaxQueue /\ MaxQueue \in Nat
      /\ rest > 0 /\ h.queued > 0
  BY ServerAssumption DEF Fit, Handlers
<1>1. g \in Handlers
  BY <1>0, StampType DEF Stalled, Handlers
<1>2. /\ g.live = h.live /\ g.user = h.user /\ g.reading = h.reading /\ g.sending = h.sending
      /\ g.readOnWrite = h.readOnWrite /\ g.queued = rest /\ g.toclose = h.toclose
      /\ g.inRead = h.inRead /\ g.listed = h.listed
      /\ g.writeAge = Stamp /\ g.sendOnRead = onRead
      /\ g.hsAge = h.hsAge /\ g.wrote = h.wrote
  BY <1>0 DEF Stalled, Handlers
<1> HIDE DEF g
<1>3. Fit(c, g)
  BY <1>1, <1>2 DEF Fit
<1>4. booted /\ Sure(h) => Sure(g)
  BY <1>0, <1>2, StampType DEF Sure
<1> QED BY <1>2, <1>3, <1>4 DEF Onward, g

\* A send, whatever comes of it.
LEMMA SendBufferOnward ==
    ASSUME NEW c \in Conns, NEW h, Fit(c, h), h.live, NEW l, Shelf(l),
           NEW r \in SendBuffer(c, h, l)
    PROVE  /\ Onward(c, h, r[1]) /\ r[1].user = h.user
           /\ Shelf(r[2]) /\ Spares(c, l, r[2])
           /\ booted => Scheduled(c, r[1], r[2])
<1>0. h \in Handlers /\ h.queued \in Nat /\ Spares(c, l, l)
  BY ServerAssumption DEF Fit, Handlers, Spares
<1>1. CASE r = <<Flushed(h), l>>
  BY <1>0, <1>1, FlushedOnward DEF Scheduled
<1>2. ASSUME NEW rest \in 1..(h.queued - 1), r = <<Stalled(h, rest, FALSE), AddSocket(l, c)>>
      PROVE  /\ Onward(c, h, r[1]) /\ r[1].user = h.user
             /\ Shelf(r[2]) /\ Spares(c, l, r[2])
             /\ booted => Scheduled(c, r[1], r[2])
  <2>1. rest \in 1..h.queued /\ FALSE \in BOOLEAN
    BY <1>0
  <2> DEFINE g == Stalled(h, rest, FALSE)
  <2>2. Onward(c, h, g) /\ g.user = h.user
    BY <2>1, StalledOnward
  <2> HIDE DEF g
  <2>3. Shelf(r[2]) /\ Spares(c, l, r[2]) /\ Has(r[2], c)
    BY <1>2, AddSocketShelf
  <2>4. r[1] = g
    BY <1>2 DEF g
  <2> QED BY <2>2, <2>3, <2>4 DEF Scheduled
<1>3. CASE r = <<Close(h, TRUE), l>>
  <2>1. IsClosed(h, Close(h, TRUE), TRUE \/ h.queued = 0)
    BY <1>0, CloseFields
  <2>2. Close(h, TRUE).listed /\ Close(h, TRUE).user = h.user
    BY <2>1 DEF IsClosed
  <2> QED BY <1>0, <1>3, <2>2, CloseOnward DEF Scheduled
<1>4. CASE h.queued > 0 /\ r = <<Stalled(h, h.queued, TRUE), l>>
  <2>1. h.queued \in 1..h.queued /\ TRUE \in BOOLEAN
    BY <1>0, <1>4
  <2> DEFINE g == Stalled(h, h.queued, TRUE)
  <2>2. Onward(c, h, g) /\ g.user = h.user /\ g.sendOnRead = TRUE /\ g.writeAge = Stamp
    BY <2>1, StalledOnward
  <2> HIDE DEF g
  <2>3. r[1] = g /\ r[2] = l
    BY <1>4 DEF g
  <2> QED BY <1>0, <2>2, <2>3, StampType DEF Scheduled
<1> QED BY <1>1, <1>2, <1>3, <1>4 DEF SendBuffer

\* An attempt of the handshake makes g of h: done, to be continued, or given up.
Shaken(c, h, g) ==
    /\ g \in Handlers
    /\ g.live = h.live /\ g.user = h.user /\ g.queued = h.queued /\ g.toclose = h.toclose
    /\ g.sendOnRead = h.sendOnRead /\ g.readOnWrite = h.readOnWrite
    /\ g.inRead = h.inRead /\ g.writeAge = h.writeAge
    /\ h.listed => g.listed
    /\ c \notin WriteWanters => ~g.wrote
    /\ \/ g.reading = "read" /\ g.sending = "write" /\ g.hsAge = "none"
       \/ g.reading = h.reading /\ g.sending = h.sending /\ g.hsAge = h.hsAge
       \/ g.reading = "none" /\ g.sending = "dead" /\ g.hsAge = h.hsAge /\ g.listed

LEMMA SecuredShaken ==
    ASSUME NEW c, NEW h \in Handlers
    PROVE  Shaken(c, h, Secured(h))
<1>1. "none" \in Ages /\ 0 \in 0..HandshakeTries
  BY AgesOf, ServerAssumption
<1>2. Secured(h) \in Handlers
  BY <1>1 DEF Secured, Handlers
<1> QED BY <1>2 DEF Secured, Handlers, Shaken

LEMMA FailedShaken ==
    ASSUME NEW c, NEW h \in Handlers, c \notin WriteWanters => ~h.wrote
    PROVE  Shaken(c, h, Failed(h))
<1> DEFINE f == Close(h, TRUE)
           g == [f EXCEPT !.sending = "dead"]
<1>1. f \in Handlers /\ IsClosed(h, f, TRUE \/ h.queued = 0)
  BY CloseType, CloseFields
<1> HIDE DEF f
<1>2. /\ f.toclose = h.toclose /\ f.inRead = h.inRead
  BY <1>1 DEF IsClosed, Handlers
<1>3. g \in Handlers
  BY <1>1 DEF Handlers
<1>4. /\ g.live = f.live /\ g.user = f.user /\ g.queued = f.queued /\ g.toclose = f.toclose
      /\ g.sendOnRead = f.sendOnRead /\ g.readOnWrite = f.readOnWrite
      /\ g.inRead = f.inRead /\ g.writeAge = f.writeAge /\ g.listed = f.listed
      /\ g.wrote = f.wrote /\ g.reading = f.reading /\ g.sending = "dead"
      /\ g.hsAge = f.hsAge
  BY <1>1 DEF Handlers
<1>5. Failed(h) = g
  BY DEF Failed, f
<1> HIDE DEF g
<1>6. Shaken(c, h, g)
  BY <1>1, <1>2, <1>3, <1>4 DEF Shaken, IsClosed
<1> QED BY <1>5, <1>6

LEMMA RetryShaken ==
    ASSUME NEW c, NEW h \in Handlers, h.tries # HandshakeTries,
           NEW w \in BOOLEAN, c \notin WriteWanters => ~w
    PROVE  Shaken(c, h, [h EXCEPT !.tries = @ + 1, !.wrote = w])
<1> DEFINE g == [h EXCEPT !.tries = @ + 1, !.wrote = w]
<1>1. h.tries + 1 \in 0..HandshakeTries
  BY ServerAssumption DEF Handlers
<1>2. g \in Handlers
  BY <1>1 DEF Handlers
<1>3. /\ g.live = h.live /\ g.user = h.user /\ g.queued = h.queued /\ g.toclose = h.toclose
      /\ g.sendOnRead = h.sendOnRead /\ g.readOnWrite = h.readOnWrite
      /\ g.inRead = h.inRead /\ g.writeAge = h.writeAge /\ g.listed = h.listed
      /\ g.wrote = w /\ g.reading = h.reading /\ g.sending = h.sending
      /\ g.hsAge = h.hsAge
  BY DEF Handlers
<1> HIDE DEF g
<1>4. Shaken(c, h, g)
  BY <1>2, <1>3 DEF Shaken
<1> QED BY <1>4 DEF g

LEMMA HandshakeOutcome ==
    ASSUME NEW c \in Conns, NEW h \in Handlers, c \notin WriteWanters => ~h.wrote,
           NEW l, Shelf(l), NEW r \in HandshakeStep(c, h, l)
    PROVE  /\ Shaken(c, h, r[1])
           /\ Shelf(r[2]) /\ Spares(c, l, r[2])
           /\ c \notin WriteWanters => r[2] = l
<1>1. Shelf(Unlist(h, c, l)) /\ Spares(c, l, Unlist(h, c, l)) /\ (~h.wrote => Unlist(h, c, l) = l)
  BY RemoveSocketShelf DEF Unlist, Spares
<1>2. CASE r = <<Failed(h), l>>
  BY <1>2, FailedShaken DEF Spares
<1>3. CASE r = <<Secured(h), Unlist(h, c, l)>>
  BY <1>1, <1>3, SecuredShaken
<1>4. CASE /\ h.tries # HandshakeTries
           /\ r = <<[h EXCEPT !.tries = @ + 1, !.wrote = FALSE], Unlist(h, c, l)>>
  <2> DEFINE g == [h EXCEPT !.tries = @ + 1, !.wrote = FALSE]
  <2>1. Shaken(c, h, g)
    BY <1>4, RetryShaken
  <2> HIDE DEF g
  <2>2. r[1] = g /\ r[2] = Unlist(h, c, l)
    BY <1>4 DEF g
  <2> QED BY <1>1, <2>1, <2>2
<1>5. CASE /\ c \in WriteWanters /\ h.tries # HandshakeTries
           /\ r = <<[h EXCEPT !.tries = @ + 1, !.wrote = TRUE],
                    IF h.wrote THEN l ELSE AppendUnindexed(l, c)>>
  <2> DEFINE g == [h EXCEPT !.tries = @ + 1, !.wrote = TRUE]
  <2>1. Shaken(c, h, g)
    BY <1>5, RetryShaken
  <2> HIDE DEF g
  <2>2. r[1] = g /\ r[2] = IF h.wrote THEN l ELSE AppendUnindexed(l, c)
    BY <1>5 DEF g
  <2> QED BY <1>5, <2>1, <2>2, AppendShelf DEF Spares
<1> QED BY <1>2, <1>3, <1>4, <1>5 DEF HandshakeStep

LEMMA HandshakeOnward ==
    ASSUME NEW c \in Conns, NEW h, Fit(c, h), h.live, h.user # "none",
           NEW l, Shelf(l), NEW r \in HandshakeStep(c, h, l)
    PROVE  /\ Onward(c, h, r[1]) /\ r[1].user = h.user
           /\ Shelf(r[2]) /\ Spares(c, l, r[2])
           /\ Served(c, h, l, r[1], r[2])
<1> DEFINE g == r[1]
<1>1. /\ Shaken(c, h, g)
      /\ Shelf(r[2]) /\ Spares(c, l, r[2])
      /\ c \notin WriteWanters => r[2] = l
  BY HandshakeOutcome DEF Fit
<1> HIDE DEF g
<1>2. Fit(c, g)
  BY <1>1 DEF Shaken, Fit
<1>3. Sure(h) => Sure(g)
  BY <1>1 DEF Shaken, Sure
<1>4. Served(c, h, l, g, r[2])
  BY <1>1 DEF Shaken, Served, Scheduled
<1>5. Onward(c, h, g) /\ g.user = h.user
  BY <1>1, <1>2, <1>3 DEF Onward, Shaken
<1> QED BY <1>1, <1>4, <1>5 DEF g

\* A read, whatever came of it.
HasRead(h, g, w) == g = [h EXCEPT !.idleAge = Stamp, !.readOnWrite = w]

LEMMA ReceiveOnward ==
    ASSUME NEW c, NEW h, Fit(c, h), h.live, NEW w \in BOOLEAN, c \notin WriteWanters => ~w,
           NEW g, HasRead(h, g, w)
    PROVE  /\ Onward(c, h, g) /\ g.user = h.user /\ g.queued = h.queued
           /\ g.sendOnRead = h.sendOnRead /\ g.writeAge = h.writeAge
           /\ g.listed = h.listed
<1>0. h \in Handlers /\ Stamp \in Ages
  BY StampType DEF Fit
<1>1. g \in Handlers
  BY <1>0 DEF HasRead, Handlers
<1>2. /\ g.live = h.live /\ g.user = h.user /\ g.queued = h.queued /\ g.toclose = h.toclose
      /\ g.sendOnRead = h.sendOnRead /\ g.readOnWrite = w
      /\ g.inRead = h.inRead /\ g.writeAge = h.writeAge /\ g.listed = h.listed
      /\ g.wrote = h.wrote /\ g.reading = h.reading /\ g.sending = h.sending
      /\ g.hsAge = h.hsAge
  BY <1>0 DEF HasRead, Handlers
<1>3. Fit(c, g)
  BY <1>1, <1>2 DEF Fit
<1>4. Sure(h) => Sure(g)
  BY <1>2 DEF Sure
<1>5. Onward(c, h, g)
  BY <1>2, <1>3, <1>4 DEF Onward
<1> QED BY <1>2, <1>5

\* The hub closes a connection that it may have forgotten, after a last message.
LEMMA HubCloseOnward ==
    ASSUME NEW c, NEW h, NEW q, Onward(c, h, q), q.live, q.sending = "write",
           NEW user \in {"none", "closed"}
    PROVE  Onward(c, h, Close([q EXCEPT !.user = user], FALSE))
<1> DEFINE u == [q EXCEPT !.user = user]
           g == Close(u, FALSE)
           now == FALSE \/ u.queued = 0
<1>0. q \in Handlers /\ q.queued \in Nat
  BY ServerAssumption DEF Onward, Fit, Handlers
<1>1. u \in Handlers
  BY <1>0 DEF Handlers
<1>2. /\ u.live = q.live /\ u.user = user /\ u.queued = q.queued /\ u.toclose = q.toclose
      /\ u.sendOnRead = q.sendOnRead /\ u.readOnWrite = q.readOnWrite
      /\ u.inRead = q.inRead /\ u.writeAge = q.writeAge /\ u.listed = q.listed
      /\ u.wrote = q.wrote /\ u.reading = q.reading /\ u.sending = q.sending
      /\ u.hsAge = q.hsAge
  BY <1>0 DEF Handlers
<1> HIDE DEF u
<1>3. g \in Handlers /\ IsClosed(u, g, now)
  BY <1>1, CloseType, CloseFields
<1> HIDE DEF g
<1>4. Fit(c, g)
  BY <1>2, <1>3 DEF Onward, Fit, IsClosed
<1>5. Sure(q) => Sure(g)
  BY <1>0, <1>2, <1>3 DEF Sure, IsClosed
<1>6. Onward(c, h, g)
  BY <1>2, <1>3, <1>4, <1>5 DEF Onward, IsClosed
<1> QED BY <1>6 DEF g, u

\* The sweeps, and the clock.
LEMMA SweptOnward ==
    ASSUME NEW c, NEW h, Fit(c, h), h.live, NEW idleDue \in BOOLEAN, NEW hsDue \in BOOLEAN
    PROVE  LET f == Swept(h, idleDue, hsDue)
               g == [f EXCEPT !.writeAge = Older(@), !.idleAge = Older(@), !.hsAge = Older(@)]
           IN  Onward(c, h, g) /\ Served(c, h, sendlist, g, sendlist)
<1> DEFINE f == Swept(h, idleDue, hsDue)
           g == [f EXCEPT !.writeAge = Older(@), !.idleAge = Older(@), !.hsAge = Older(@)]
<1>0. h \in Handlers
  BY DEF Fit
<1>1. Onward(c, h, f) /\ f.queued = h.queued /\ f.writeAge = h.writeAge
      /\ f.sendOnRead = h.sendOnRead
  <2>1. Onward(c, h, h) /\ Onward(c, h, Close(h, TRUE))
    BY OnwardSame, CloseOnward
  <2>2. IsClosed(h, Close(h, TRUE), TRUE \/ h.queued = 0)
    BY <1>0, CloseFields
  <2> QED BY <2>1, <2>2 DEF Swept, IsClosed
<1>2. f \in Handlers /\ Fit(c, f)
  BY <1>1 DEF Onward, Fit
<1> HIDE DEF f
<1>3. \A a \in Ages : Older(a) \in Ages /\ (Older(a) = "none" <=> a = "none")
  BY DEF Ages, Older
<1>4. f.writeAge \in Ages /\ f.idleAge \in Ages /\ f.hsAge \in Ages
  BY <1>2 DEF Handlers
<1>5. Older(f.writeAge) \in Ages /\ Older(f.idleAge) \in Ages /\ Older(f.hsAge) \in Ages
  BY <1>3, <1>4
<1>6. g \in Handlers
  BY <1>2, <1>5 DEF Handlers
<1>7. /\ g.live = f.live /\ g.user = f.user /\ g.queued = f.queued /\ g.toclose = f.toclose
      /\ g.sendOnRead = f.sendOnRead /\ g.readOnWrite = f.readOnWrite
      /\ g.inRead = f.inRead /\ g.writeAge = Older(f.writeAge) /\ g.listed = f.listed
      /\ g.wrote = f.wrote /\ g.reading = f.reading /\ g.sending = f.sending
      /\ g.hsAge = Older(f.hsAge)
  BY <1>2 DEF Handlers
<1> HIDE DEF g
<1>8. Fit(c, g)
  BY <1>1, <1>2, <1>3, <1>4, <1>6, <1>7 DEF Fit, Onward
<1>9. Sure(f) => Sure(g)
  BY <1>3, <1>4, <1>7 DEF Sure
<1>10. Onward(c, h, g)
  BY <1>1, <1>7, <1>8, <1>9 DEF Onward
<1>11. Served(c, h, sendlist, g, sendlist)
  BY <1>1, <1>3, <1>4, <1>7, <1>10 DEF Served, Scheduled, Onward
<1> QED BY <1>10, <1>11 DEF f, g

----------------------------------------------------------------------------
(* Steps in which connections come and go are those of Accept and Kill. *)

Moved ==
    /\ conn' \in [Conns -> Handlers]
    /\ \A c \in Conns \ Live : conn'[c] = conn[c]
    /\ \A c \in Live : /\ Onward(c, conn[c], conn'[c])
                       /\ Served(c, conn[c], sendlist, conn'[c], sendlist')
    /\ Shelf(sendlist')
    /\ UNCHANGED <<perip, connections>>

LEMMA MovedKeeps ==
    ASSUME IInv, Moved
    PROVE  /\ conn' \in [Conns -> Handlers]
           /\ \A c \in Conns : Fit(c, conn'[c])
           /\ Shelf(sendlist)' /\ Slots' /\ Live' = Live
<1>1. Live' = Live
  BY DEF Moved, Onward, Live
<1>2. \A c \in Conns : Fit(c, conn'[c])
  BY DEF Moved, Onward, IInv
<1>3. \A i \in Ips : Behind(i)' = Behind(i)
  BY <1>1 DEF Behind
<1>4. \A s \in Servers : On(s)' = On(s)
  BY <1>1 DEF On
<1>5. Slots'
  BY <1>3, <1>4 DEF Slots, IInv, Moved
<1> QED BY <1>1, <1>2, <1>5 DEF Moved

LEMMA OneMoved ==
    ASSUME IInv, NEW c \in Live, NEW g, conn' = [conn EXCEPT ![c] = g],
           Onward(c, conn[c], g), Served(c, conn[c], sendlist, g, sendlist'),
           Shelf(sendlist'), Spares(c, sendlist, sendlist'), UNCHANGED <<perip, connections>>
    PROVE  Moved
<1>1. conn \in [Conns -> Handlers] /\ c \in Conns /\ g \in Handlers
  BY DEF IInv, Live, Onward, Fit
<1>2. /\ conn' \in [Conns -> Handlers] /\ conn'[c] = g
      /\ \A d \in Conns \ {c} : conn'[d] = conn[d]
  BY <1>1
<1>3. ASSUME NEW d \in Live
      PROVE  Onward(d, conn[d], conn'[d]) /\ Served(d, conn[d], sendlist, conn'[d], sendlist')
  <2>1. CASE d = c
    BY <1>2, <2>1
  <2>2. CASE d # c
    <3>1. d \in Conns /\ conn'[d] = conn[d] /\ Fit(d, conn[d])
      BY <1>2, <2>2 DEF Live, IInv
    <3>2. Served(d, conn[d], sendlist, conn[d], sendlist')
      BY <2>2, <3>1 DEF Spares, Served, Scheduled
    <3> QED BY <3>1, <3>2, OnwardSame
  <2> QED BY <2>1, <2>2
<1> QED BY <1>2, <1>3 DEF Moved

LEMMA NoneMoved ==
    ASSUME IInv, UNCHANGED <<conn, sendlist, perip, connections>>
    PROVE  Moved
<1>1. \A c \in Live : c \in Conns /\ Fit(c, conn[c])
  BY DEF IInv, Live
<1> QED BY <1>1, OnwardSame DEF Moved, IInv, Served

\* What is known of a connection that is there.
LEMMA LiveFit ==
    ASSUME IInv, NEW c \in Live
    PROVE  c \in Conns /\ Fit(c, conn[c]) /\ conn[c].live /\ c # None /\ c \notin Servers
BY ServerAssumption DEF IInv, Live

LEMMA KnownIsLive ==
    ASSUME IInv, NEW c \in Conns, conn[c].user # "none"
    PROVE  c \in Live
BY DEF IInv, Fit, Gone, Live

\* The handlers change as they may, nobody comes or goes: what is left of
\* Running is what the step does to the rest.
LEMMA SelectStep ==
    ASSUME IInv, Select
    PROVE  Moved /\ Running'
<1>1. Moved
  BY NoneMoved DEF Select
<1>2. Live' = Live
  BY <1>1, MovedKeeps
<1>3. /\ phase = "select" /\ control = "loop" /\ phase' = "io"
      /\ towrite' \subseteq Live /\ toread' \subseteq Live \cup Servers
      /\ UNCHANGED <<control, current, ending, remaining, booted, stopping>>
  BY DEF Select
<1>4. Turn' /\ Dispatchable' /\ Waiting'
  BY <1>2, <1>3 DEF IInv, Running, Turn, Dispatchable, Waiting
<1>5. Phases'
  BY <1>3 DEF IInv, Running, Phases
<1> QED BY <1>1, <1>4, <1>5 DEF Running

LEMMA WriteEventStep ==
    ASSUME IInv, NEW c \in Conns, WriteEvent(c)
    PROVE  Moved /\ Running'
<1> DEFINE h == conn[c]
<1>0. c \in Live
  BY DEF WriteEvent, IInv, Running, Waiting
<1>1. Fit(c, h) /\ h.live /\ Shelf(sendlist) /\ UNCHANGED <<perip, connections>>
  BY <1>0, LiveFit DEF IInv, WriteEvent
<1>2. /\ Moved /\ conn'[c].user = h.user
      /\ \/ UNCHANGED <<control, current>>
         \/ Continue(c, h.readOnWrite)
  <2>1. CASE h.sending = "handshake" /\ UNCHANGED <<control, current>>
    <3>1. PICK r \in HandshakeStep(c, h, sendlist) :
            conn' = [conn EXCEPT ![c] = r[1]] /\ sendlist' = r[2]
      BY <2>1 DEF WriteEvent
    <3>2. h.user # "none"
      BY <1>1, <2>1 DEF Fit
    <3>3. /\ Onward(c, h, r[1]) /\ r[1].user = h.user
          /\ Shelf(r[2]) /\ Spares(c, sendlist, r[2])
          /\ Served(c, h, sendlist, r[1], r[2])
      BY <1>1, <3>2, HandshakeOnward
    <3>4. Moved
      BY <1>0, <1>1, <3>1, <3>3, OneMoved
    <3>5. conn'[c] = r[1]
      BY <3>1 DEF IInv
    <3> QED BY <2>1, <3>3, <3>4, <3>5
  <2>2. CASE h.sending = "write" /\ Continue(c, h.readOnWrite)
    <3> DEFINE l == RemoveSocket(sendlist, c)
    <3>1. PICK r \in IF h.sendOnRead THEN {<<h, l>>} ELSE SendBuffer(c, h, l) :
            conn' = [conn EXCEPT ![c] = r[1]] /\ sendlist' = r[2]
      BY <2>2 DEF WriteEvent
    <3>2. Shelf(l) /\ Spares(c, sendlist, l)
      BY <1>1, RemoveSocketShelf
    <3> HIDE DEF l
    <3>3. /\ Onward(c, h, r[1]) /\ r[1].user = h.user
          /\ Shelf(r[2]) /\ Spares(c, l, r[2])
          /\ Served(c, h, sendlist, r[1], r[2])
      <4>1. CASE h.sendOnRead
        BY <1>1, <3>1, <3>2, <4>1, OnwardSame DEF Served, Scheduled, Sure, Spares
      <4>2. CASE ~h.sendOnRead
        BY <1>1, <3>1, <3>2, <4>2, SendBufferOnward DEF Served
      <4> QED BY <4>1, <4>2
    <3>4. Moved
      BY <1>0, <1>1, <3>1, <3>2, <3>3, OneMoved DEF Spares
    <3>5. conn'[c] = r[1]
      BY <3>1 DEF IInv
    <3> QED BY <2>2, <3>3, <3>4, <3>5
  <2> QED BY <2>1, <2>2 DEF WriteEvent
<1>3. Live' = Live
  BY <1>2, MovedKeeps
<1>10. /\ phase = "io" /\ control = "loop" /\ current = None
       /\ towrite' = towrite \ {c}
       /\ UNCHANGED <<phase, ending, toread, remaining, booted, stopping>>
  BY DEF WriteEvent, IInv, Running, Turn
<1> HIDE DEF h
<1>11. Waiting' /\ Phases'
  BY <1>3, <1>10 DEF IInv, Running, Waiting, Phases
<1>4. CASE UNCHANGED <<control, current>>
  <2>1. Turn' /\ Dispatchable'
    BY <1>4, <1>10 DEF Turn, Dispatchable
  <2> QED BY <1>2, <1>11, <2>1 DEF Running
<1>5. CASE Continue(c, h.readOnWrite)
  <2>1. h.readOnWrite => c \in WriteWanters
    BY <1>1 DEF Fit
  <2>2. \/ control' = "loop" /\ current' = None
        \/ control' = "receive" /\ current' = c /\ c \in WriteWanters
    BY <1>5, <2>1 DEF Continue
  <2>3. Turn' /\ Dispatchable'
    BY <1>0, <1>3, <1>10, <2>2 DEF Turn, Dispatchable
  <2> QED BY <1>2, <1>11, <2>3 DEF Running
<1> QED BY <1>2, <1>4, <1>5

LEMMA ReadEventStep ==
    ASSUME IInv, NEW c \in Conns, ReadEvent(c)
    PROVE  Moved /\ Running'
<1> DEFINE h == conn[c]
<1>0. c \in Live
  BY ServerAssumption DEF ReadEvent, IInv, Running, Waiting
<1>1. Fit(c, h) /\ h.live /\ Shelf(sendlist) /\ UNCHANGED <<perip, connections>>
  BY <1>0, LiveFit DEF IInv, ReadEvent
<1>2. /\ Moved /\ conn'[c].user = h.user
      /\ \/ UNCHANGED <<control, current>>
         \/ h.user # "none" /\ Continue(c, ~h.readOnWrite)
  <2>0. CASE h.reading = "none" /\ UNCHANGED <<conn, sendlist, control, current>>
    BY <1>1, <2>0, NoneMoved
  <2>1. CASE h.reading = "handshake" /\ UNCHANGED <<control, current>>
    <3>1. PICK r \in HandshakeStep(c, h, sendlist) :
            conn' = [conn EXCEPT ![c] = r[1]] /\ sendlist' = r[2]
      BY <2>1 DEF ReadEvent
    <3>2. h.user # "none"
      BY <1>1, <2>1 DEF Fit
    <3>3. /\ Onward(c, h, r[1]) /\ r[1].user = h.user
          /\ Shelf(r[2]) /\ Spares(c, sendlist, r[2])
          /\ Served(c, h, sendlist, r[1], r[2])
      BY <1>1, <3>2, HandshakeOnward
    <3>4. Moved
      BY <1>0, <1>1, <3>1, <3>3, OneMoved
    <3>5. conn'[c] = r[1]
      BY <3>1 DEF IInv
    <3> QED BY <2>1, <3>3, <3>4, <3>5
  <2>2. CASE h.reading = "read" /\ Continue(c, ~h.readOnWrite)
    <3>1. PICK r \in IF h.sendOnRead THEN SendBuffer(c, h, sendlist) ELSE {<<h, sendlist>>} :
            conn' = [conn EXCEPT ![c] = r[1]] /\ sendlist' = r[2]
      BY <2>2 DEF ReadEvent
    <3>2. h.user # "none"
      BY <1>1, <2>2 DEF Fit
    <3>3. /\ Onward(c, h, r[1]) /\ r[1].user = h.user
          /\ Shelf(r[2]) /\ Spares(c, sendlist, r[2])
          /\ Served(c, h, sendlist, r[1], r[2])
      <4>1. CASE h.sendOnRead
        BY <1>1, <3>1, <4>1, SendBufferOnward DEF Served
      <4>2. CASE ~h.sendOnRead
        BY <1>1, <3>1, <4>2, OnwardSame DEF Served, Spares
      <4> QED BY <4>1, <4>2
    <3>4. Moved
      BY <1>0, <1>1, <3>1, <3>3, OneMoved
    <3>5. conn'[c] = r[1]
      BY <3>1 DEF IInv
    <3> QED BY <2>2, <3>2, <3>3, <3>4, <3>5
  <2> QED BY <2>0, <2>1, <2>2 DEF ReadEvent
<1>3. Live' = Live
  BY <1>2, MovedKeeps
<1>10. /\ phase = "io" /\ control = "loop" /\ current = None /\ towrite = {}
       /\ toread' = toread \ {c}
       /\ UNCHANGED <<phase, ending, towrite, remaining, booted, stopping>>
  BY DEF ReadEvent, IInv, Running, Turn
<1> HIDE DEF h
<1>11. Waiting' /\ Phases'
  BY <1>3, <1>10 DEF IInv, Running, Waiting, Phases
<1>4. CASE UNCHANGED <<control, current>>
  <2>1. Turn' /\ Dispatchable'
    BY <1>4, <1>10 DEF Turn, Dispatchable
  <2> QED BY <1>2, <1>11, <2>1 DEF Running
<1>5. CASE h.user # "none" /\ Continue(c, ~h.readOnWrite)
  <2>1. \/ control' = "loop" /\ current' = None
        \/ control' = "receive" /\ current' = c /\ conn'[c].user # "none"
    BY <1>2, <1>5 DEF Continue
  <2>3. Turn' /\ Dispatchable'
    BY <1>0, <1>3, <1>10, <2>1 DEF Turn, Dispatchable
  <2> QED BY <1>2, <1>11, <2>3 DEF Running
<1> QED BY <1>2, <1>4, <1>5

LEMMA ReceiveStep ==
    ASSUME IInv, NEW c \in Conns, Receive(c)
    PROVE  Moved /\ Running'
<1>0. /\ control = "receive" /\ current = c /\ phase \in {"io", "crashed"} /\ c \in Live
      /\ UNCHANGED <<phase, towrite, toread, remaining, booted, stopping>>
  BY DEF Receive, IInv, Running, Turn
<1>1. Fit(c, conn[c]) /\ conn[c].live /\ conn[c] \in Handlers /\ c # None /\ Shelf(sendlist)
  BY <1>0, LiveFit DEF IInv, Fit
<1>2. PICK got \in BOOLEAN, err \in {"ok", "closed"}
            \cup (IF c \in WriteWanters THEN {"wantwrite"} ELSE {}) :
        LET h == [conn[c] EXCEPT !.idleAge = Stamp,
                                 !.readOnWrite = IF got THEN err = "wantwrite"
                                                 ELSE @ /\ err = "closed"]
        IN  /\ conn' = [conn EXCEPT ![c] = IF ~got /\ err = "closed"
                                           THEN Close(h, TRUE) ELSE h]
            /\ sendlist' = IF got /\ err = "wantwrite"
                           THEN AddSocket(sendlist, c) ELSE sendlist
            /\ control' = IF got THEN "frames" ELSE "loop"
            /\ current' = IF got THEN c ELSE None
            /\ ending' = (got /\ err = "closed")
  BY DEF Receive
<1> DEFINE w == IF got THEN err = "wantwrite" ELSE conn[c].readOnWrite /\ err = "closed"
           h == [conn[c] EXCEPT !.idleAge = Stamp, !.readOnWrite = w]
           g == IF ~got /\ err = "closed" THEN Close(h, TRUE) ELSE h
<1>3. w \in BOOLEAN /\ (c \notin WriteWanters => ~w)
  BY <1>1, <1>2 DEF Fit, Handlers
<1>4. /\ conn' = [conn EXCEPT ![c] = g]
      /\ sendlist' = IF got /\ err = "wantwrite" THEN AddSocket(sendlist, c) ELSE sendlist
  BY <1>2
<1> HIDE DEF w
<1>18. PICK v \in BOOLEAN : v = w /\ (c \notin WriteWanters => ~v)
  BY <1>3
<1>19. HasRead(conn[c], h, v)
  BY <1>18 DEF HasRead
<1> HIDE DEF h
<1>5. /\ Onward(c, conn[c], h) /\ h.user = conn[c].user /\ h.queued = conn[c].queued
      /\ h.sendOnRead = conn[c].sendOnRead /\ h.writeAge = conn[c].writeAge
      /\ h.listed = conn[c].listed
  BY <1>1, <1>18, <1>19, ReceiveOnward
<1>6. /\ Onward(c, h, Close(h, TRUE))
      /\ IsClosed(h, Close(h, TRUE), TRUE \/ h.queued = 0)
  BY <1>1, <1>5, CloseOnward, CloseFields DEF Onward, Fit
<1>7. /\ Onward(c, conn[c], g) /\ g.user = conn[c].user
      /\ g.queued = conn[c].queued /\ g.sendOnRead = conn[c].sendOnRead
      /\ g.writeAge = conn[c].writeAge /\ (conn[c].listed => g.listed)
  BY <1>5, <1>6, OnwardTwice DEF IsClosed
<1> HIDE DEF g
<1>8. /\ Shelf(sendlist') /\ Spares(c, sendlist, sendlist')
      /\ Has(sendlist, c) => Has(sendlist', c)
  BY <1>1, <1>4, AddSocketShelf DEF Spares
<1>9. Served(c, conn[c], sendlist, g, sendlist')
  BY <1>7, <1>8 DEF Served, Scheduled
<1>10. Moved
  BY <1>0, <1>4, <1>7, <1>8, <1>9, OneMoved DEF Receive
<1>11. Live' = Live
  BY <1>10, MovedKeeps
<1>12. conn'[c].user = conn[c].user
  BY <1>0, <1>4, <1>7 DEF IInv
<1>13. \/ control' = "loop" /\ current' = None
       \/ control' = "frames" /\ current' = c
  BY <1>2
<1>14. ending' \in BOOLEAN
  BY <1>2
<1>15. Turn'
  BY <1>0, <1>11, <1>13 DEF Turn
<1>16. Dispatchable'
  BY <1>0, <1>12, <1>13 DEF IInv, Running, Dispatchable
<1>17. Waiting' /\ Phases'
  BY <1>0, <1>11, <1>14 DEF IInv, Running, Waiting, Phases
<1> QED BY <1>10, <1>15, <1>16, <1>17 DEF Running

LEMMA FrameStep ==
    ASSUME IInv, NEW c \in Conns, Frame(c)
    PROVE  Moved /\ Running'
<1>0. /\ control = "frames" /\ current = c /\ phase = "io" /\ c \in Live
      /\ UNCHANGED <<current, ending, towrite, toread, remaining, conn, booted, stopping>>
      /\ UNCHANGED <<conn, sendlist, perip, connections>>
  BY DEF Frame, IInv, Running, Turn
<1>1. Moved /\ Live' = Live
  BY <1>0, NoneMoved, MovedKeeps
<1>2. CASE conn[c].user = "none" /\ phase' = "crashed" /\ control' = control
  <2>1. c \in WriteWanters
    BY <1>0, <1>2 DEF IInv, Running, Dispatchable
  <2>2. Turn' /\ Dispatchable' /\ Waiting' /\ Phases'
    BY <1>0, <1>1, <1>2, <2>1 DEF IInv, Running, Turn, Dispatchable, Waiting, Phases
  <2> QED BY <1>1, <2>2 DEF Running
<1>3. CASE control' = "frame" /\ phase' = phase
  <2>1. Turn' /\ Dispatchable' /\ Waiting' /\ Phases'
    BY <1>0, <1>1, <1>3 DEF IInv, Running, Turn, Dispatchable, Waiting, Phases
  <2> QED BY <1>1, <2>1 DEF Running
<1> QED BY <1>2, <1>3 DEF Frame

\* The end of a read, which may close its connection.
LEMMA EndOfRead ==
    ASSUME IInv, NEW c \in Conns, control = "frames", current = c, phase # "crashed",
           NEW g, g \in {conn[c], Close(conn[c], TRUE)}, conn' = [conn EXCEPT ![c] = g],
           control' = "loop", current' = None, ending' = FALSE,
           UNCHANGED <<phase, towrite, toread, remaining, sendlist, perip,
                       connections, booted, stopping>>
    PROVE  Moved /\ Running'
<1>0. phase = "io" /\ c \in Live
  BY DEF IInv, Running, Turn
<1>1. Fit(c, conn[c]) /\ conn[c].live /\ conn[c] \in Handlers /\ Shelf(sendlist)
  BY <1>0, LiveFit DEF IInv, Fit
<1>2. Onward(c, conn[c], g)
  BY <1>1, OnwardSame, CloseOnward
<1>3. Served(c, conn[c], sendlist, g, sendlist)
  <2>1. IsClosed(conn[c], Close(conn[c], TRUE), TRUE \/ conn[c].queued = 0)
    BY <1>1, CloseFields
  <2> QED BY <2>1 DEF Served, Scheduled, IsClosed
<1>4. Moved
  BY <1>0, <1>1, <1>2, <1>3, OneMoved DEF Spares
<1>5. Live' = Live
  BY <1>4, MovedKeeps
<1>6. Turn' /\ Dispatchable' /\ Waiting' /\ Phases'
  BY <1>0, <1>5 DEF IInv, Running, Turn, Dispatchable, Waiting, Phases
<1> QED BY <1>4, <1>6 DEF Running

LEMMA EndReadStep ==
    ASSUME IInv, NEW c \in Conns, EndRead(c)
    PROVE  Moved /\ Running'
<1>1. PICK g \in {conn[c], Close(conn[c], TRUE)} : conn' = [conn EXCEPT ![c] = g]
  BY DEF EndRead
<1> QED BY <1>1, EndOfRead DEF EndRead

LEMMA OverlongStep ==
    ASSUME IInv, NEW c \in Conns, Overlong(c)
    PROVE  Moved /\ Running'
BY EndOfRead DEF Overlong

LEMMA HubReturnsStep ==
    ASSUME IInv, HubReturns
    PROVE  Moved /\ Running'
<1>0. /\ control \in {"frame", "timer", "leave"}
      /\ UNCHANGED <<phase, towrite, toread, remaining, conn, booted, stopping>>
      /\ UNCHANGED <<conn, sendlist, perip, connections>>
  BY DEF HubReturns
<1>1. Moved /\ Live' = Live
  BY <1>0, NoneMoved, MovedKeeps
<1>2. CASE GoesOn
  <2>1. control = "frame" /\ current \in Live /\ conn[current].reading # "none"
        /\ phase \in {"io", "crashed"}
    BY <1>2 DEF GoesOn, IInv, Running, Turn
  <2>2. conn[current].user # "none"
    BY <2>1, LiveFit DEF Fit
  <2>3. control' = "frames" /\ current' = current /\ ending' \in BOOLEAN
    BY <1>2 DEF HubReturns, IInv, Running, Phases
  <2>4. Turn' /\ Dispatchable' /\ Waiting' /\ Phases'
    BY <1>0, <1>1, <2>1, <2>2, <2>3 DEF IInv, Running, Turn, Dispatchable, Waiting, Phases
  <2> QED BY <1>1, <2>4 DEF Running
<1>3. CASE ~GoesOn
  <2>1. control' = "loop" /\ current' = None /\ ending' \in BOOLEAN
    BY <1>3 DEF HubReturns
  <2>2. Turn' /\ Dispatchable' /\ Waiting' /\ Phases'
    BY <1>0, <1>1, <2>1 DEF IInv, Running, Turn, Dispatchable, Waiting, Phases
  <2> QED BY <1>1, <2>2 DEF Running
<1> QED BY <1>2, <1>3

LEMMA HubWriteStep ==
    ASSUME IInv, NEW d \in Conns, HubWrite(d)
    PROVE  Moved /\ Running'
<1> DEFINE h == conn[d]
<1>0. /\ control \in {"frame", "timer", "leave"} /\ h.user = "known"
      /\ UNCHANGED <<phase, control, current, ending, towrite, toread, booted, stopping>>
      /\ UNCHANGED <<perip, connections>>
  BY DEF HubWrite, HubRuns, Reachable
<1>1. d \in Live
  BY <1>0, KnownIsLive
<1>2. Fit(d, h) /\ h.live /\ Shelf(sendlist)
  BY <1>1, LiveFit DEF IInv
<1>3. /\ Moved
      /\ \/ remaining' = remaining
         \/ phase = "close" /\ remaining' \subseteq remaining \cup {d}
  <2>1. CASE /\ CanQueue(h) /\ conn' = [conn EXCEPT ![d] = Queue(h)]
             /\ sendlist' = AddSocket(sendlist, d) /\ remaining' = remaining
    <3>1. Onward(d, h, Queue(h))
      BY <1>2, <2>1, QueueOnward
    <3>2. /\ Shelf(sendlist') /\ Spares(d, sendlist, sendlist') /\ Has(sendlist', d)
      BY <1>2, <2>1, AddSocketShelf
    <3>3. Served(d, h, sendlist, Queue(h), sendlist')
      BY <3>2 DEF Served, Scheduled
    <3> QED BY <1>0, <1>1, <2>1, <3>1, <3>2, <3>3, OneMoved
  <2>2. CASE /\ conn' = [conn EXCEPT ![d] = RefuseWrite(h)]
             /\ Enlist(d, RefuseWrite(h)) /\ sendlist' = sendlist
    <3>1. Onward(d, h, RefuseWrite(h)) /\ RefuseWrite(h).listed
      BY <1>2, RefuseOnward
    <3>2. Served(d, h, sendlist, RefuseWrite(h), sendlist)
      BY <3>1 DEF Served, Scheduled
    <3>3. Moved
      BY <1>0, <1>1, <1>2, <2>2, <3>1, <3>2, OneMoved DEF Spares
    <3> QED BY <2>2, <3>3 DEF Enlist
  <2> QED BY <2>1, <2>2 DEF HubWrite
<1>4. Live' = Live
  BY <1>3, MovedKeeps
<1>5. Turn' /\ Dispatchable'
  BY <1>0, <1>4 DEF IInv, Running, Turn, Dispatchable
<1>6. Waiting' /\ Phases'
  BY <1>0, <1>1, <1>3, <1>4 DEF IInv, Running, Waiting, Phases
<1> QED BY <1>3, <1>5, <1>6 DEF Running

LEMMA HubEndsStep ==
    ASSUME IInv, NEW d \in Conns, NEW user \in {"none", "closed"}, HubEnds(d, user)
    PROVE  Moved /\ Running'
<1> DEFINE h == conn[d]
<1>0. /\ control \in {"frame", "timer"} /\ h.user = "known" /\ h.sending = "write"
      /\ UNCHANGED <<phase, control, current, ending, towrite, toread, remaining, booted, stopping>>
      /\ UNCHANGED <<perip, connections>>
  BY DEF HubEnds, Reachable
<1>1. d \in Live
  BY <1>0, KnownIsLive
<1>2. Fit(d, h) /\ h.live /\ Shelf(sendlist)
  BY <1>1, LiveFit DEF IInv
<1>3. Moved
  <2>1. CASE /\ CanQueue(h) /\ sendlist' = AddSocket(sendlist, d)
             /\ conn' = [conn EXCEPT ![d] = Close([Queue(h) EXCEPT !.user = user], FALSE)]
    <3> DEFINE g == Close([Queue(h) EXCEPT !.user = user], FALSE)
    <3>1. Onward(d, h, Queue(h)) /\ Queue(h).sending = "write" /\ Queue(h).live
      BY <1>0, <1>2, <2>1, QueueOnward DEF Onward
    <3>2. Onward(d, h, g)
      BY <3>1, HubCloseOnward
    <3> HIDE DEF g
    <3>3. /\ Shelf(sendlist') /\ Spares(d, sendlist, sendlist') /\ Has(sendlist', d)
      BY <1>2, <2>1, AddSocketShelf
    <3>4. Served(d, h, sendlist, g, sendlist')
      BY <3>3 DEF Served, Scheduled
    <3>5. conn' = [conn EXCEPT ![d] = g]
      BY <2>1 DEF g
    <3> QED BY <1>0, <1>1, <3>2, <3>3, <3>4, <3>5, OneMoved
  <2>2. CASE /\ sendlist' = sendlist
             /\ conn' = [conn EXCEPT ![d] =
                            Close([RefuseWrite(h) EXCEPT !.user = user], FALSE)]
    <3> DEFINE g == Close([RefuseWrite(h) EXCEPT !.user = user], FALSE)
    <3>1. /\ Onward(d, h, RefuseWrite(h)) /\ RefuseWrite(h).sending = "write"
          /\ RefuseWrite(h).live /\ RefuseWrite(h).listed
      BY <1>0, <1>2, RefuseOnward DEF Onward
    <3>2. Onward(d, h, g)
      BY <3>1, HubCloseOnward
    <3>3. Onward(d, RefuseWrite(h), g)
      BY <3>1, HubCloseOnward, OnwardSame DEF Onward
    <3> HIDE DEF g
    <3>4. Served(d, h, sendlist, g, sendlist)
      BY <3>1, <3>3 DEF Served, Scheduled, Onward
    <3>5. conn' = [conn EXCEPT ![d] = g]
      BY <2>2 DEF g
    <3> QED BY <1>0, <1>1, <1>2, <2>2, <3>2, <3>4, <3>5, OneMoved DEF Spares
  <2> QED BY <2>1, <2>2 DEF HubEnds
<1>4. Live' = Live
  BY <1>3, MovedKeeps
<1>5. Turn' /\ Dispatchable'
  BY <1>0, <1>4 DEF IInv, Running, Turn, Dispatchable
<1>6. Waiting' /\ Phases'
  BY <1>0, <1>4 DEF IInv, Running, Waiting, Phases
<1> QED BY <1>3, <1>5, <1>6 DEF Running

LEMMA RefuseStep ==
    ASSUME IInv, NEW s \in Servers, Refuse(s)
    PROVE  Moved /\ Running'
<1>1. Moved /\ Live' = Live
  BY NoneMoved, MovedKeeps DEF Refuse
<1>2. Turn' /\ Dispatchable'
  BY <1>1 DEF Refuse, IInv, Running, Turn, Dispatchable
<1>3. Waiting' /\ Phases'
  BY <1>1 DEF Refuse, IInv, Running, Waiting, Phases
<1> QED BY <1>1, <1>2, <1>3 DEF Running

LEMMA StartClosingStep ==
    ASSUME IInv, StartClosing
    PROVE  Moved /\ Running'
<1>1. Moved /\ Live' = Live
  BY NoneMoved, MovedKeeps DEF StartClosing
<1>2. Turn' /\ Dispatchable'
  BY <1>1 DEF StartClosing, IInv, Running, Turn, Dispatchable
<1>3. Listed \subseteq Live
  BY DEF Listed, Live, IInv, Fit, Gone
<1>4. Waiting' /\ Phases'
  BY <1>1, <1>3 DEF StartClosing, IInv, Running, Waiting, Phases
<1> QED BY <1>1, <1>2, <1>4 DEF Running

LEMMA GoneSwept ==
    ASSUME NEW idleDue \in BOOLEAN, NEW hsDue \in BOOLEAN
    PROVE  LET f == Swept(Gone, idleDue, hsDue) IN
           [f EXCEPT !.writeAge = Older(@), !.idleAge = Older(@), !.hsAge = Older(@)] = Gone
<1>1. Swept(Gone, idleDue, hsDue) = Gone
  BY DEF Swept, Gone
<1>2. Gone.writeAge = "none" /\ Gone.idleAge = "none" /\ Gone.hsAge = "none"
  BY DEF Gone
<1>3. Older("none") = "none"
  BY DEF Older
<1>4. [Gone EXCEPT !.writeAge = "none", !.idleAge = "none", !.hsAge = "none"] = Gone
  <2>1. [Gone EXCEPT !.writeAge = "none"] = Gone
    BY DEF Gone
  <2>2. [Gone EXCEPT !.idleAge = "none"] = Gone
    BY DEF Gone
  <2>3. [Gone EXCEPT !.hsAge = "none"] = Gone
    BY DEF Gone
  <2> QED BY <2>1, <2>2, <2>3, Zenon
<1> QED BY <1>1, <1>2, <1>3, <1>4

LEMMA TimersStep ==
    ASSUME IInv, NEW advance \in BOOLEAN, NEW idleDue \in BOOLEAN, NEW hsDue \in BOOLEAN,
           Timers(advance, idleDue, hsDue)
    PROVE  Moved /\ Running'
<1>0. /\ phase = "io" /\ control = "loop" /\ towrite = {} /\ toread = {} /\ current = None
      /\ booted' = TRUE /\ phase' = "timers"
      /\ UNCHANGED <<current, ending, towrite, toread, remaining, stopping>>
      /\ UNCHANGED <<sendlist, perip, connections>>
  BY DEF Timers, IInv, Running, Turn
<1>1. Moved /\ control' \in {"loop", "timer"}
  <2>1. CASE ~advance
    BY <1>0, <2>1, NoneMoved DEF Timers
  <2>2. CASE advance
    <3> DEFINE g(h) == LET f == Swept(h, idleDue, hsDue) IN
                       [f EXCEPT !.writeAge = Older(@), !.idleAge = Older(@), !.hsAge = Older(@)]
    <3>1. conn' = [c \in Conns |-> g(conn[c])] /\ control' = "timer"
      BY <2>2 DEF Timers
    <3>2. \A c \in Live : /\ Onward(c, conn[c], g(conn[c]))
                          /\ Served(c, conn[c], sendlist, g(conn[c]), sendlist)
      BY LiveFit, SweptOnward
    <3>3. \A c \in Conns \ Live : conn[c] = Gone
      BY DEF IInv, Fit, Live
    <3>4. g(Gone) = Gone
      BY GoneSwept
    <3> HIDE DEF g
    <3>5. \A c \in Conns : conn'[c] = g(conn[c])
      BY <3>1
    <3>6. \A c \in Conns : g(conn[c]) \in Handlers
      BY <3>2, <3>3, <3>4 DEF IInv, Onward, Fit
    <3>7. conn' \in [Conns -> Handlers]
      BY <3>1, <3>6
    <3>8. \A c \in Live : c \in Conns
      BY DEF Live
    <3>9. Moved
      BY <1>0, <3>2, <3>3, <3>4, <3>5, <3>7, <3>8 DEF Moved, IInv
    <3> QED BY <3>1, <3>9
  <2> QED BY <2>1, <2>2
<1>2. Live' = Live
  BY <1>1, MovedKeeps
<1>3. Turn' /\ Dispatchable'
  BY <1>0, <1>1 DEF Turn, Dispatchable
<1>4. Waiting' /\ Phases'
  BY <1>0, <1>2 DEF IInv, Running, Waiting, Phases
<1> QED BY <1>1, <1>3, <1>4 DEF Running

LEMMA ShutdownStep ==
    ASSUME IInv, Shutdown
    PROVE  Moved /\ Running'
<1> DEFINE g(c) == IF conn[c].live THEN Close(conn[c], FALSE) ELSE conn[c]
<1>0. /\ conn' = [c \in Conns |-> g(c)] /\ stopping' = TRUE
      /\ UNCHANGED <<phase, control, current, ending, towrite, toread, remaining>>
      /\ UNCHANGED <<sendlist, perip, connections, booted>> /\ phase = "select"
  BY DEF Shutdown, loopVars
<1>1. Moved
  <2>1. \A c \in Live : /\ Onward(c, conn[c], g(c))
                        /\ Served(c, conn[c], sendlist, g(c), sendlist)
    <3> TAKE c \in Live
    <3>1. Fit(c, conn[c]) /\ conn[c].live /\ conn[c] \in Handlers
      BY LiveFit DEF Fit
    <3>2. IsClosed(conn[c], Close(conn[c], FALSE), FALSE \/ conn[c].queued = 0)
      BY <3>1, CloseFields
    <3>3. Onward(c, conn[c], Close(conn[c], FALSE))
      BY <3>1, CloseOnward
    <3> QED BY <3>1, <3>2, <3>3 DEF Served, Scheduled, IsClosed
  <2>2. \A c \in Conns \ Live : g(c) = conn[c]
    BY DEF Live
  <2> HIDE DEF g
  <2>3. \A c \in Conns : conn'[c] = g(c)
    BY <1>0
  <2>4. \A c \in Conns : g(c) \in Handlers
    BY <2>1, <2>2 DEF IInv, Onward, Fit
  <2>5. conn' \in [Conns -> Handlers] /\ \A c \in Live : c \in Conns
    BY <1>0, <2>4 DEF Live
  <2> QED BY <1>0, <2>1, <2>2, <2>3, <2>5 DEF Moved, IInv
<1>2. Live' = Live
  BY <1>1, MovedKeeps
<1> HIDE DEF g
<1>3. Turn' /\ Dispatchable'
  BY <1>0 DEF IInv, Running, Turn, Dispatchable
<1>4. Waiting' /\ Phases'
  BY <1>0, <1>2 DEF IInv, Running, Waiting, Phases
<1> QED BY <1>1, <1>3, <1>4 DEF Running

----------------------------------------------------------------------------
(* A connection is accepted, or reported and forgotten; the list is emptied. *)

\* What is known of a connection that was just accepted.
Fresh(g) ==
    /\ g.live /\ g.queued = 0 /\ ~g.toclose
    /\ g.reading = "none" => g.listed

LEMMA AcceptedHandler ==
    ASSUME NEW c \in Conns, NEW h \in Handlers, Shaken(c, h, h), NEW f, Shaken(c, h, f),
           h.live, h.queued = 0, ~h.toclose, ~h.readOnWrite,
           \/ h.reading = "read" /\ h.sending = "write" /\ h.hsAge = "none"
           \/ h.reading = "handshake" /\ h.sending = "handshake" /\ h.hsAge # "none",
           NEW g, g = [f EXCEPT !.inRead = TRUE, !.idleAge = Stamp, !.user = "known"]
    PROVE  Fit(c, g) /\ Fresh(g)
<1>0. f \in Handlers /\ Stamp \in Ages
  BY StampType DEF Shaken
<1>1. g \in Handlers
  BY <1>0 DEF Handlers
<1>2. /\ g.live = f.live /\ g.user = "known" /\ g.queued = f.queued /\ g.toclose = f.toclose
      /\ g.readOnWrite = f.readOnWrite /\ g.inRead = TRUE /\ g.listed = f.listed
      /\ g.wrote = f.wrote /\ g.reading = f.reading /\ g.sending = f.sending
      /\ g.hsAge = f.hsAge
  BY <1>0 DEF Handlers
<1>3. /\ f.live /\ f.queued = 0 /\ ~f.toclose /\ ~f.readOnWrite
      /\ c \notin WriteWanters => ~f.wrote
  BY DEF Shaken
<1>4. \/ f.reading = "read" /\ f.sending = "write" /\ f.hsAge = "none"
      \/ f.reading = "handshake" /\ f.sending = "handshake" /\ f.hsAge # "none"
      \/ f.reading = "none" /\ f.sending = "dead" /\ f.listed
  BY DEF Shaken
<1>5. Fresh(g)
  BY <1>2, <1>3, <1>4 DEF Fresh
<1>6. Fit(c, g)
  BY <1>1, <1>2, <1>3, <1>4 DEF Fit
<1> QED BY <1>5, <1>6

LEMMA AcceptEffect ==
    ASSUME IInv, NEW c \in Conns, Accept(c)
    PROVE  /\ c \notin Live /\ Fit(c, conn'[c]) /\ Fresh(conn'[c])
           /\ conn' = [conn EXCEPT ![c] = conn'[c]]
           /\ Shelf(sendlist)' /\ Spares(c, sendlist, sendlist')
<1> DEFINE plain == [Gone EXCEPT !.live = TRUE, !.reading = "read"]
           tls == [plain EXCEPT !.reading = "handshake", !.sending = "handshake",
                                !.hsAge = "fresh"]
           wrapped == IF c \in TlsConns THEN HandshakeStep(c, tls, sendlist)
                      ELSE {<<plain, sendlist>>}
<1>1. PICK r \in wrapped :
        /\ conn' = [conn EXCEPT ![c] = [r[1] EXCEPT !.inRead = TRUE, !.idleAge = Stamp,
                                                    !.user = "known"]]
        /\ sendlist' = r[2]
  BY DEF Accept
<1>2. c \notin Live /\ Shelf(sendlist)
  BY DEF Accept, IInv
<1>3. Gone \in Handlers
  <2>1. "none" \in Ages /\ 0 \in 0..MaxQueue /\ 0 \in 0..HandshakeTries
    BY AgesOf, ServerAssumption
  <2> QED BY <2>1 DEF Gone, Handlers
<1>4. /\ Gone.queued = 0 /\ ~Gone.toclose /\ ~Gone.readOnWrite /\ ~Gone.wrote
      /\ Gone.sending = "write" /\ Gone.hsAge = "none"
  BY DEF Gone
<1>5. /\ plain \in Handlers /\ plain.live /\ plain.queued = 0 /\ ~plain.toclose
      /\ ~plain.readOnWrite /\ ~plain.wrote
      /\ plain.reading = "read" /\ plain.sending = "write" /\ plain.hsAge = "none"
  BY <1>3, <1>4 DEF Handlers
<1> HIDE DEF plain
<1>6. /\ tls \in Handlers /\ tls.live /\ tls.queued = 0 /\ ~tls.toclose
      /\ ~tls.readOnWrite /\ ~tls.wrote
      /\ tls.reading = "handshake" /\ tls.sending = "handshake" /\ tls.hsAge # "none"
  <2>1. "fresh" \in Ages
    BY AgesOf
  <2>2. tls \in Handlers
    BY <1>5, <2>1 DEF Handlers
  <2> QED BY <1>5, <2>2 DEF Handlers
<1> HIDE DEF tls
<1> DEFINE g == [r[1] EXCEPT !.inRead = TRUE, !.idleAge = Stamp, !.user = "known"]
<1>7. /\ Fit(c, g) /\ Fresh(g) /\ Shelf(sendlist') /\ Spares(c, sendlist, sendlist')
  <2>1. CASE c \in TlsConns
    <3>1. /\ Shaken(c, tls, r[1]) /\ Shelf(r[2]) /\ Spares(c, sendlist, r[2])
      BY <1>1, <1>2, <1>6, <2>1, HandshakeOutcome
    <3>2. Shaken(c, tls, tls)
      BY <1>6 DEF Shaken
    <3> QED BY <1>1, <1>6, <3>1, <3>2, AcceptedHandler
  <2>2. CASE c \notin TlsConns
    <3>1. r = <<plain, sendlist>> /\ Shaken(c, plain, plain)
      BY <1>1, <1>5, <2>2 DEF Shaken
    <3> QED BY <1>1, <1>2, <1>5, <3>1, AcceptedHandler DEF Spares
  <2> QED BY <2>1, <2>2
<1>8. conn' = [conn EXCEPT ![c] = g]
  BY <1>1
<1> HIDE DEF g
<1>9. conn'[c] = g
  BY <1>8 DEF IInv
<1> QED BY <1>2, <1>7, <1>8, <1>9

\* A set and a counter that grow, and shrink, together.
LEMMA OneMore ==
    ASSUME NEW S \in SUBSET Conns, NEW c \in Conns, c \notin S
    PROVE  /\ Cardinality(S) \in Nat
           /\ Cardinality(S \cup {c}) = Cardinality(S) + 1
BY ServerAssumption, FS_Subset, FS_AddElement, FS_CardinalityType

LEMMA OneLess ==
    ASSUME NEW S \in SUBSET Conns, NEW c \in S
    PROVE  /\ Cardinality(S) \in Nat \ {0}
           /\ Cardinality(S \ {c}) = Cardinality(S) - 1
<1>1. IsFiniteSet(S) /\ Cardinality(S) \in Nat
  BY ServerAssumption, FS_Subset, FS_CardinalityType
<1>2. Cardinality(S \ {c}) = Cardinality(S) - 1
  BY <1>1, FS_RemoveElement
<1>3. Cardinality(S) # 0
  BY <1>1, FS_EmptySet
<1> QED BY <1>1, <1>2, <1>3

LEMMA AcceptStep ==
    ASSUME IInv, NEW c \in Conns, Accept(c)
    PROVE  IInv'
<1> DEFINE s == ServerOf(c)
           i == IpOf[c]
<1>1. /\ c \notin Live /\ Fit(c, conn'[c]) /\ conn'[c].live
      /\ conn' = [conn EXCEPT ![c] = conn'[c]] /\ Shelf(sendlist')
  BY AcceptEffect DEF Fresh
<1>2. /\ phase = "io" /\ control = "loop" /\ towrite = {} /\ s \in toread
      /\ toread' = toread \ {s} /\ perip[i] < MaxPerIp /\ ~(connections[s] > MaxConnections)
      /\ perip' = [perip EXCEPT ![i] = @ + 1]
      /\ connections' = [connections EXCEPT ![s] = @ + 1]
      /\ UNCHANGED <<phase, control, current, ending, towrite, remaining, booted, stopping>>
  BY DEF Accept, ServerFull
<1>3. conn \in [Conns -> Handlers] /\ conn'[c] \in Handlers
  BY <1>1 DEF IInv, Fit
<1>4. /\ conn' \in [Conns -> Handlers] /\ \A d \in Conns \ {c} : conn'[d] = conn[d]
  BY <1>1, <1>3
<1>5. \A d \in Conns : Fit(d, conn'[d])
  BY <1>1, <1>4 DEF IInv
<1>6. Live' = Live \cup {c}
  BY <1>1, <1>4 DEF Live
<1>7. i \in Ips /\ s \in Servers
  BY ServerAssumption DEF ServerOf, Servers
<1>8. Slots'
  <2>1. \A j \in Ips : Behind(j) \in SUBSET Conns
            /\ Behind(j)' = IF j = i THEN Behind(j) \cup {c} ELSE Behind(j)
    BY <1>6 DEF Behind, Live
  <2>2. \A t \in Servers : On(t) \in SUBSET Conns
            /\ On(t)' = IF t = s THEN On(t) \cup {c} ELSE On(t)
    BY <1>6 DEF On, Live
  <2>3. c \notin Behind(i) /\ c \notin On(s)
    BY <1>1 DEF Behind, On
  <2>4. /\ Cardinality(Behind(i)) \in Nat /\ Cardinality(On(s)) \in Nat
        /\ Cardinality(Behind(i) \cup {c}) = Cardinality(Behind(i)) + 1
        /\ Cardinality(On(s) \cup {c}) = Cardinality(On(s)) + 1
    BY <1>7, <2>1, <2>2, <2>3, OneMore
  <2> HIDE DEF i, s
  <2>5. /\ perip' \in [Ips -> Nat]
        /\ \A j \in Ips : perip'[j] = Cardinality(Behind(j)') /\ perip'[j] <= MaxPerIp
    <3>1. /\ perip \in [Ips -> Nat] /\ MaxPerIp \in Nat
          /\ \A j \in Ips : perip[j] = Cardinality(Behind(j)) /\ perip[j] <= MaxPerIp
      BY ServerAssumption DEF IInv, Slots
    <3>2. /\ perip' \in [Ips -> Nat] /\ perip'[i] = perip[i] + 1
          /\ \A j \in Ips \ {i} : perip'[j] = perip[j]
      BY <1>2, <1>7, <3>1
    <3>3. perip'[i] = Cardinality(Behind(i)') /\ perip'[i] <= MaxPerIp
      <4>1. Behind(i)' = Behind(i) \cup {c} /\ perip[i] = Cardinality(Behind(i))
        BY <1>7, <2>1, <3>1
      <4>2. perip'[i] = Cardinality(Behind(i)')
        BY <2>4, <3>2, <4>1
      <4>3. perip[i] \in Nat /\ perip[i] < MaxPerIp
        BY <1>2, <1>7, <3>1
      <4>4. perip'[i] <= MaxPerIp
        BY <3>1, <3>2, <4>3
      <4> QED BY <4>2, <4>4
    <3>4. \A j \in Ips \ {i} : perip'[j] = Cardinality(Behind(j)') /\ perip'[j] <= MaxPerIp
      BY <2>1, <3>1, <3>2
    <3> QED BY <3>2, <3>3, <3>4
  <2>6. /\ connections' \in [Servers -> Nat]
        /\ \A t \in Servers : connections'[t] = Cardinality(On(t)')
                              /\ connections'[t] <= MaxConnections + 1
    <3>1. /\ connections \in [Servers -> Nat] /\ MaxConnections \in Nat
          /\ \A t \in Servers : connections[t] = Cardinality(On(t))
                                /\ connections[t] <= MaxConnections + 1
      BY ServerAssumption DEF IInv, Slots
    <3>2. /\ connections' \in [Servers -> Nat] /\ connections'[s] = connections[s] + 1
          /\ \A t \in Servers \ {s} : connections'[t] = connections[t]
      BY <1>2, <1>7, <3>1
    <3>3. /\ connections'[s] = Cardinality(On(s)')
          /\ connections'[s] <= MaxConnections + 1
      <4>1. On(s)' = On(s) \cup {c} /\ connections[s] = Cardinality(On(s))
        BY <1>7, <2>2, <3>1
      <4>2. connections'[s] = Cardinality(On(s)')
        BY <2>4, <3>2, <4>1
      <4>3. connections[s] \in Nat /\ ~(connections[s] > MaxConnections)
        BY <1>2, <1>7, <3>1
      <4>4. connections'[s] <= MaxConnections + 1
        BY <3>1, <3>2, <4>3
      <4> QED BY <4>2, <4>4
    <3>4. \A t \in Servers \ {s} : /\ connections'[t] = Cardinality(On(t)')
                                    /\ connections'[t] <= MaxConnections + 1
      BY <2>2, <3>1, <3>2
    <3> QED BY <3>2, <3>3, <3>4
  <2> QED BY <2>5, <2>6 DEF Slots
<1>9. current' = None /\ control' = "loop"
  BY <1>2 DEF IInv, Running, Turn
<1>10. Turn' /\ Dispatchable'
  BY <1>9 DEF Turn, Dispatchable
<1>11. Waiting' /\ Phases'
  BY <1>2, <1>6 DEF IInv, Running, Waiting, Phases
<1> QED BY <1>1, <1>4, <1>5, <1>8, <1>10, <1>11 DEF IInv, Running

LEMMA KillStep ==
    ASSUME IInv, NEW c \in Conns, Kill(c)
    PROVE  IInv' /\ Live' = Live \ {c} /\ c \in Live /\ c \in remaining
<1> DEFINE s == ServerOf(c)
           i == IpOf[c]
<1>1. /\ phase = "close" /\ control = "loop" /\ c \in remaining
      /\ remaining' = remaining \ {c}
      /\ control' \in {"loop", "leave"} /\ (control' = "leave" => Announced # {})
      /\ conn' = [conn EXCEPT ![c] = Gone] /\ sendlist' = Bury(sendlist, c)
      /\ perip' = [perip EXCEPT ![i] = Released(i)]
      /\ connections' = [connections EXCEPT ![s] = @ - 1]
      /\ UNCHANGED <<phase, current, ending, towrite, toread, booted, stopping>>
  BY DEF Kill
<1>2. c \in Live /\ current = None /\ towrite = {} /\ toread = {}
  BY <1>1 DEF IInv, Running, Turn, Waiting, Phases
<1>3. Gone \in Handlers /\ Fit(c, Gone) /\ ~Gone.live
  <2>1. "none" \in Ages /\ 0 \in 0..MaxQueue /\ 0 \in 0..HandshakeTries
    BY AgesOf, ServerAssumption
  <2>2. Gone \in Handlers
    BY <2>1 DEF Gone, Handlers
  <2> QED BY <2>2 DEF Gone, Fit
<1>4. /\ conn' \in [Conns -> Handlers] /\ conn'[c] = Gone
      /\ \A d \in Conns \ {c} : conn'[d] = conn[d]
  BY <1>1, <1>3 DEF IInv
<1>5. \A d \in Conns : Fit(d, conn'[d])
  BY <1>3, <1>4 DEF IInv
<1>6. Live' = Live \ {c}
  BY <1>3, <1>4 DEF Live
<1>7. i \in Ips /\ s \in Servers
  BY ServerAssumption DEF ServerOf, Servers
<1>8. Slots'
  <2>1. \A j \in Ips : Behind(j) \in SUBSET Conns
            /\ Behind(j)' = IF j = i THEN Behind(j) \ {c} ELSE Behind(j)
    BY <1>6 DEF Behind, Live
  <2>2. \A t \in Servers : On(t) \in SUBSET Conns
            /\ On(t)' = IF t = s THEN On(t) \ {c} ELSE On(t)
    BY <1>6 DEF On, Live
  <2>3. c \in Behind(i) /\ c \in On(s)
    BY <1>2 DEF Behind, On
  <2>4. /\ Cardinality(Behind(i)) \in Nat \ {0} /\ Cardinality(On(s)) \in Nat \ {0}
        /\ Cardinality(Behind(i) \ {c}) = Cardinality(Behind(i)) - 1
        /\ Cardinality(On(s) \ {c}) = Cardinality(On(s)) - 1
    BY <1>7, <2>1, <2>2, <2>3, OneLess
  <2> HIDE DEF i, s
  <2>5. /\ perip' \in [Ips -> Nat]
        /\ \A j \in Ips : perip'[j] = Cardinality(Behind(j)') /\ perip'[j] <= MaxPerIp
    <3>1. /\ perip \in [Ips -> Nat] /\ MaxPerIp \in Nat
          /\ \A j \in Ips : perip[j] = Cardinality(Behind(j)) /\ perip[j] <= MaxPerIp
      BY ServerAssumption DEF IInv, Slots
    <3>2. Released(i) = perip[i] - 1 /\ perip[i] - 1 \in Nat
      BY <1>7, <2>4, <3>1 DEF Released
    <3>3. /\ perip' \in [Ips -> Nat] /\ perip'[i] = perip[i] - 1
          /\ \A j \in Ips \ {i} : perip'[j] = perip[j]
      BY <1>1, <1>7, <3>1, <3>2
    <3>4. perip'[i] = Cardinality(Behind(i)') /\ perip'[i] <= MaxPerIp
      BY <1>7, <2>1, <2>4, <3>1, <3>3
    <3>5. \A j \in Ips \ {i} : perip'[j] = Cardinality(Behind(j)') /\ perip'[j] <= MaxPerIp
      BY <2>1, <3>1, <3>3
    <3> QED BY <3>3, <3>4, <3>5
  <2>6. /\ connections' \in [Servers -> Nat]
        /\ \A t \in Servers : connections'[t] = Cardinality(On(t)')
                              /\ connections'[t] <= MaxConnections + 1
    <3>1. /\ connections \in [Servers -> Nat] /\ MaxConnections \in Nat
          /\ \A t \in Servers : connections[t] = Cardinality(On(t))
                                /\ connections[t] <= MaxConnections + 1
      BY ServerAssumption DEF IInv, Slots
    <3>2. connections[s] - 1 \in Nat
      BY <1>7, <2>4, <3>1
    <3>3. /\ connections' \in [Servers -> Nat] /\ connections'[s] = connections[s] - 1
          /\ \A t \in Servers \ {s} : connections'[t] = connections[t]
      BY <1>1, <1>7, <3>1, <3>2
    <3>4. /\ connections'[s] = Cardinality(On(s)')
          /\ connections'[s] <= MaxConnections + 1
      BY <1>7, <2>2, <2>4, <3>1, <3>3
    <3>5. \A t \in Servers \ {s} : /\ connections'[t] = Cardinality(On(t)')
                                    /\ connections'[t] <= MaxConnections + 1
      BY <2>2, <3>1, <3>3
    <3> QED BY <3>3, <3>4, <3>5
  <2> QED BY <2>5, <2>6 DEF Slots
<1>9. Shelf(sendlist')
  BY <1>1, BuryShelf DEF IInv
<1>10. Turn' /\ Dispatchable'
  BY <1>1, <1>2 DEF Turn, Dispatchable
<1>11. Waiting' /\ Phases'
  BY <1>1, <1>2, <1>6 DEF IInv, Running, Waiting, Phases
<1> QED BY <1>1, <1>2, <1>4, <1>5, <1>6, <1>8, <1>9, <1>10, <1>11 DEF IInv, Running

LEMMA GoneUnlisted == [Gone EXCEPT !.listed = FALSE] = Gone
<1>1. Gone.listed = FALSE
  BY DEF Gone
<1>2. Gone = [x \in DOMAIN Gone |-> Gone[x]]
  BY DEF Gone
<1> QED BY <1>1, <1>2, Zenon

LEMMA CleanStep ==
    ASSUME IInv, Clean
    PROVE  IInv' /\ Live' = Live
<1> DEFINE g(h) == [h EXCEPT !.listed = FALSE]
<1>1. /\ phase = "close" /\ control = "loop" /\ remaining = {}
      /\ conn' = [c \in Conns |-> g(conn[c])] /\ phase' = "select"
      /\ UNCHANGED <<control, current, ending, towrite, toread, remaining, sendlist, perip,
                     connections, booted, stopping>>
  BY DEF Clean
<1>2. ASSUME NEW c \in Conns PROVE Fit(c, g(conn[c])) /\ g(conn[c]).live = conn[c].live
  <2> DEFINE h == conn[c]
             f == g(h)
  <2>1. Fit(c, h) /\ h \in Handlers
    BY DEF IInv, Fit
  <2>2. f \in Handlers
    BY <2>1 DEF Handlers
  <2>3. /\ f.live = h.live /\ f.user = h.user /\ f.toclose = h.toclose
        /\ f.readOnWrite = h.readOnWrite /\ f.inRead = h.inRead
        /\ f.wrote = h.wrote /\ f.reading = h.reading /\ f.sending = h.sending
        /\ f.hsAge = h.hsAge
    BY <2>1 DEF Handlers
  <2>4. h = Gone => f = Gone
    BY GoneUnlisted
  <2> HIDE DEF f, h
  <2>5. Fit(c, f)
    BY <2>1, <2>2, <2>3, <2>4 DEF Fit
  <2> QED BY <2>3, <2>5 DEF f, h
<1> HIDE DEF g
<1>3. \A c \in Conns : conn'[c] = g(conn[c])
  BY <1>1
<1>4. conn' \in [Conns -> Handlers]
  BY <1>1, <1>2 DEF Fit
<1>5. Live' = Live
  BY <1>2, <1>3 DEF Live
<1>6. Slots'
  <2>1. \A i \in Ips : Behind(i)' = Behind(i)
    BY <1>5 DEF Behind
  <2>2. \A s \in Servers : On(s)' = On(s)
    BY <1>5 DEF On
  <2> QED BY <1>1, <2>1, <2>2 DEF IInv, Slots
<1>7. current = None /\ towrite = {} /\ toread = {}
  BY <1>1 DEF IInv, Running, Turn, Phases
<1>8. Turn' /\ Dispatchable'
  BY <1>1, <1>7 DEF Turn, Dispatchable
<1>9. Waiting' /\ Phases'
  BY <1>1, <1>5, <1>7 DEF IInv, Running, Waiting, Phases
<1>10. \A c \in Conns : Fit(c, conn'[c])
  BY <1>2, <1>3
<1>11. Shelf(sendlist)'
  BY <1>1 DEF IInv
<1> QED BY <1>4, <1>5, <1>6, <1>8, <1>9, <1>10, <1>11 DEF IInv, Running

----------------------------------------------------------------------------
(* Every step is one of these; the close list is only worked off undisturbed  *)
(* if no departure is announced while it is.                                  *)

\* What the step means for the close list.
Quiet ==
    phase' = "close" =>
        \/ Announced # {}
        \/ UNCHANGED conn /\ (remaining' = Listed \/ UNCHANGED <<phase, remaining>>)

Steady == Moved /\ Running' /\ Quiet

LEMMA HubStepSteady ==
    ASSUME IInv, HubStep
    PROVE  Steady
<1>1. ASSUME NEW d \in Conns, HubWrite(d) PROVE Steady
  <2>1. UNCHANGED phase /\ control \in {"frame", "timer", "leave"}
    BY <1>1 DEF HubWrite, HubRuns
  <2>2. Quiet
    BY <2>1 DEF IInv, Running, Turn, Quiet
  <2> QED BY <1>1, <2>2, HubWriteStep DEF Steady
<1>2. ASSUME NEW d \in Conns, NEW user \in {"none", "closed"}, HubEnds(d, user)
      PROVE  Steady
  <2>1. UNCHANGED phase /\ control \in {"frame", "timer"}
    BY <1>2 DEF HubEnds
  <2>2. Quiet
    BY <2>1 DEF IInv, Running, Turn, Quiet
  <2> QED BY <1>2, <2>2, HubEndsStep DEF Steady
<1> QED BY <1>1, <1>2 DEF HubStep, HubKill, HubClose

LEMMA ReadStepSteady ==
    ASSUME IInv, NEW c \in Conns,
           Receive(c) \/ Frame(c) \/ EndRead(c) \/ Overlong(c)
    PROVE  Steady
<1>1. control \in {"receive", "frames"} /\ phase' \in {phase, "crashed"}
  BY DEF Receive, Frame, EndRead, Overlong
<1>2. Quiet
  BY <1>1 DEF IInv, Running, Turn, Quiet
<1> QED BY <1>2, ReceiveStep, FrameStep, EndReadStep, OverlongStep DEF Steady

LEMMA NextKinds ==
    ASSUME IInv, [Next]_vars
    PROVE  \/ Steady
           \/ \E c \in Conns : Accept(c) \/ Kill(c)
           \/ Clean
<1>1. ASSUME Select PROVE Steady
  BY <1>1, SelectStep DEF Steady, Quiet, Select
<1>2. ASSUME NEW c \in Conns, WriteEvent(c) PROVE Steady
  BY <1>2, WriteEventStep DEF Steady, Quiet, WriteEvent
<1>3. ASSUME NEW c \in Conns, ReadEvent(c) PROVE Steady
  BY <1>3, ReadEventStep DEF Steady, Quiet, ReadEvent
<1>4. ASSUME HubReturns PROVE Steady
  <2>1. UNCHANGED phase /\ control \in {"frame", "timer", "leave"}
    BY <1>4 DEF HubReturns
  <2>2. Quiet
    BY <2>1 DEF IInv, Running, Turn, Quiet
  <2> QED BY <1>4, <2>2, HubReturnsStep DEF Steady
<1>5. ASSUME NEW s \in Servers, Refuse(s) PROVE Steady
  BY <1>5, RefuseStep DEF Steady, Quiet, Refuse
<1>6. ASSUME StartClosing PROVE Steady
  BY <1>6, StartClosingStep DEF Steady, Quiet, StartClosing
<1>7. ASSUME NEW advance \in BOOLEAN, NEW idleDue \in BOOLEAN, NEW hsDue \in BOOLEAN,
             Timers(advance, idleDue, hsDue)
      PROVE  Steady
  BY <1>7, TimersStep DEF Steady, Quiet, Timers
<1>8. ASSUME Shutdown PROVE Steady
  BY <1>8, ShutdownStep DEF Steady, Quiet, Shutdown, loopVars
<1>9. ASSUME UNCHANGED vars PROVE Steady
  <2>1. /\ UNCHANGED <<conn, sendlist, perip, connections>>
        /\ UNCHANGED <<phase, control, current, ending, towrite, toread, remaining,
                       booted, stopping>>
    BY <1>9 DEF vars, loopVars
  <2>2. Moved /\ Live' = Live
    BY <2>1, NoneMoved, MovedKeeps
  <2>3. Turn' /\ Dispatchable' /\ Waiting' /\ Phases'
    BY <2>1, <2>2 DEF IInv, Running, Turn, Dispatchable, Waiting, Phases
  <2> QED BY <2>1, <2>2, <2>3 DEF Steady, Running, Quiet
<1> QED BY <1>1, <1>2, <1>3, <1>4, <1>5, <1>6, <1>7, <1>8, <1>9, HubStepSteady,
           ReadStepSteady DEF Next, LoopStep, Crashed

LEMMA InitInv == Init => IInv
<1> SUFFICES ASSUME Init PROVE IInv
  OBVIOUS
<1>1. Gone \in Handlers
  <2>1. "none" \in Ages /\ 0 \in 0..MaxQueue /\ 0 \in 0..HandshakeTries
    BY AgesOf, ServerAssumption
  <2> QED BY <2>1 DEF Gone, Handlers
<1>2. \A c \in Conns : conn[c] = Gone /\ Fit(c, Gone)
  BY <1>1 DEF Init, Fit, Gone
<1>3. conn \in [Conns -> Handlers] /\ \A c \in Conns : Fit(c, conn[c])
  BY <1>1, <1>2 DEF Init
<1>4. Live = {}
  BY <1>2 DEF Live, Gone
<1>5. Shelf(sendlist)
  <2>1. sendlist.seq = <<>> /\ sendlist.pos = [c \in Conns |-> 0]
        /\ sendlist \in [seq : Seq(Conns \cup {None}), pos : [Conns -> Nat]]
    BY DEF Init
  <2> QED BY <2>1 DEF Shelf
<1>6. Slots
  <2>1. \A i \in Ips : Behind(i) = {}
    BY <1>4 DEF Behind
  <2>2. \A s \in Servers : On(s) = {}
    BY <1>4 DEF On
  <2>3. Cardinality({}) = 0
    BY FS_EmptySet
  <2>4. /\ perip \in [Ips -> Nat] /\ connections \in [Servers -> Nat]
        /\ \A i \in Ips : perip[i] = 0
        /\ \A s \in Servers : connections[s] = 0
        /\ MaxPerIp \in Nat /\ MaxConnections \in Nat
    BY ServerAssumption DEF Init
  <2>5. \A i \in Ips : perip[i] = Cardinality(Behind(i)) /\ perip[i] <= MaxPerIp
    BY <2>1, <2>3, <2>4
  <2>6. \A s \in Servers : /\ connections[s] = Cardinality(On(s))
                           /\ connections[s] <= MaxConnections + 1
    <3>1. 0 <= MaxConnections + 1
      BY <2>4
    <3> QED BY <2>2, <2>3, <2>4, <3>1
  <2> QED BY <2>4, <2>5, <2>6 DEF Slots
<1>7. Running
  BY ServerAssumption DEF Init, Running, Turn, Dispatchable, Waiting, Phases
<1> QED BY <1>3, <1>5, <1>6, <1>7 DEF IInv

LEMMA NextInv == IInv /\ [Next]_vars => IInv'
<1> SUFFICES ASSUME IInv, [Next]_vars PROVE IInv'
  OBVIOUS
<1>1. ASSUME Steady PROVE IInv'
  BY <1>1, MovedKeeps DEF Steady, IInv
<1> QED BY <1>1, NextKinds, AcceptStep, KillStep, CleanStep

\* The invariant of the loop: handlers, send list, slots, and who runs when.
THEOREM Invariance == Spec => []IInv
BY InitInv, NextInv, PTL DEF Spec

\* Every variable keeps its type, whatever the hub and the peers do.
THEOREM TypeCorrect == Spec => []TypeOK
<1>1. IInv => TypeOK
  <2> SUFFICES ASSUME IInv PROVE TypeOK
    OBVIOUS
  <2>1. sendlist.seq \in Seq(Conns \cup {None}) /\ sendlist.pos \in [Conns -> 0..Len(sendlist.seq)]
    <3>1. /\ sendlist.seq \in Seq(Conns \cup {None}) /\ sendlist.pos \in [Conns -> Nat]
          /\ Len(sendlist.seq) \in Nat
          /\ \A c \in Conns : sendlist.pos[c] # 0 => sendlist.pos[c] \in 1..Len(sendlist.seq)
      BY DEF IInv, Shelf
    <3>2. \A c \in Conns : sendlist.pos[c] \in 0..Len(sendlist.seq)
      BY <3>1
    <3> QED BY <3>1, <3>2
  <2>2. /\ control \in {"loop", "receive", "frames", "frame", "timer", "leave"}
        /\ current \in Conns \cup {None}
    BY DEF IInv, Running, Turn, Live
  <2>3. towrite \in SUBSET Conns /\ toread \in SUBSET (Conns \cup Servers)
        /\ remaining \in SUBSET Conns
    BY DEF IInv, Running, Waiting, Live
  <2>4. /\ phase \in {"select", "io", "timers", "close", "crashed"}
        /\ ending \in BOOLEAN /\ booted \in BOOLEAN /\ stopping \in BOOLEAN
    BY DEF IInv, Running, Phases
  <2> QED BY <2>1, <2>2, <2>3, <2>4 DEF TypeOK, IInv, Slots
<1> QED BY <1>1, Invariance, PTL

\* The slots of an address and of a listener are those of its connections, the
\* limits hold, and a handshake under way has its deadline: whatever the
\* constants, with announced departures, a cold start and TLS that wants to write.
THEOREM SlotsCorrect == Spec => []SlotsExact
<1>1. IInv => SlotsExact
  <2> SUFFICES ASSUME IInv PROVE SlotsExact
    OBVIOUS
  <2>1. \A c \in Live : /\ conn[c].reading = "handshake" => conn[c].hsAge # "none"
                        /\ conn[c].hsAge # "none" => conn[c].sending # "write"
    BY LiveFit DEF Fit
  <2> QED BY <2>1 DEF SlotsExact, IInv, Slots, Behind, On
<1> QED BY <1>1, Invariance, PTL

\* If no TLS layer asks to write in the middle of a read, every frame finds its
\* user: the loop is not ended by one.
THEOREM NeverCrashesCorrect ==
    ASSUME WriteWanters = {}
    PROVE  Spec => []NeverCrashes
<1>1. IInv => NeverCrashes
  BY DEF IInv, Running, Phases, NeverCrashes
<1> QED BY <1>1, Invariance, PTL

----------------------------------------------------------------------------
(* Closing.  If departures are announced, the hub may write while the close *)
(* list is worked off, and a close is lost; in the first cycle no stamps    *)
(* are set.  Both are excluded here.                                        *)

\* The stage of a connection with the handler h.
StageOf(h) ==
    IF ~h.live THEN "absent"
    ELSE IF h.reading = "none" \/ h.listed \/ h.toclose THEN "closing" ELSE "open"

LEMMA StageIs ==
    /\ Stage = [c \in Conns |-> StageOf(conn[c])]
    /\ \A c \in Conns : Stage[c] = StageOf(conn[c])
    /\ \A c \in Conns : Stage'[c] = StageOf(conn'[c])
BY DEF Stage, StageOf

LEMMA SteadyClosing ==
    ASSUME Announced = {}, ~ColdStart, IInv, Closing, Steady
    PROVE  Closing' /\ [Lifecycle!Next]_Stage
<1>1. booted /\ Moved /\ Quiet /\ Live' = Live
  BY MovedKeeps DEF IInv, Running, Phases, Steady
<1>2. \A c \in Live : Sure(conn[c]) /\ Onward(c, conn[c], conn'[c]) /\ c \in Conns
  BY <1>1 DEF Closing, Moved, Live
<1>3. \A c \in Live' : Sure(conn'[c])
  BY <1>1, <1>2 DEF Onward
<1>4. phase' = "close" => remaining' = Listed'
  <2>1. UNCHANGED conn => Listed' = Listed
    BY DEF Listed
  <2> QED BY <1>1, <2>1 DEF Quiet, Closing
<1>5. [Lifecycle!Next]_Stage
  <2> DEFINE S == {c \in Live : Stage[c] = "open" /\ Stage'[c] = "closing"}
  <2>1. \A c \in Conns \ S : Stage'[c] = Stage[c]
    <3> SUFFICES ASSUME NEW c \in Conns, c \notin S PROVE Stage'[c] = Stage[c]
      OBVIOUS
    <3>1. CASE c \notin Live
      BY <1>1, <3>1, StageIs DEF Moved
    <3>2. CASE c \in Live
      <4>1. conn[c].live /\ conn'[c].live /\ Sure(conn[c])
            /\ (conn[c].listed => conn'[c].listed) /\ (conn[c].toclose => conn'[c].toclose)
        BY <1>2, <3>2 DEF Onward, Live
      <4>2. Stage[c] \in {"open", "closing"} /\ Stage'[c] \in {"open", "closing"}
        BY <4>1, StageIs DEF StageOf
      <4>3. Stage[c] = "closing" => Stage'[c] = "closing"
        BY <4>1, StageIs DEF StageOf, Sure
      <4> QED BY <3>2, <4>2, <4>3
    <3> QED BY <3>1, <3>2
  <2>2. Stage' = [c \in Conns |-> IF c \in S THEN "closing" ELSE Stage[c]]
    <3>1. Stage' = [c \in Conns |-> Stage'[c]]
      BY DEF Stage
    <3>2. \A c \in Conns : Stage'[c] = IF c \in S THEN "closing" ELSE Stage[c]
      BY <2>1
    <3> QED BY <3>1, <3>2
  <2>3. CASE S = {}
    <3>1. Stage' = [c \in Conns |-> Stage[c]]
      BY <2>2, <2>3
    <3>2. Stage = [c \in Conns |-> Stage[c]]
      BY DEF Stage
    <3> QED BY <3>1, <3>2
  <2>4. CASE S # {}
    <3>1. S \in SUBSET Conns /\ \A c \in S : Stage[c] = "open"
      BY DEF Live
    <3> HIDE DEF S
    <3>2. Lifecycle!Close(S)
      BY <2>2, <2>4, <3>1 DEF Lifecycle!Close
    <3> QED BY <3>1, <3>2 DEF Lifecycle!Next
  <2> QED BY <2>3, <2>4
<1> QED BY <1>3, <1>4, <1>5 DEF Closing

LEMMA AcceptClosing ==
    ASSUME IInv, Closing, NEW c \in Conns, Accept(c)
    PROVE  Closing' /\ Lifecycle!Open(c)
<1>1. /\ c \notin Live /\ Fresh(conn'[c]) /\ conn' = [conn EXCEPT ![c] = conn'[c]]
      /\ phase = "io" /\ phase' = phase
  BY AcceptEffect DEF Accept
<1>2. \A d \in Conns \ {c} : conn'[d] = conn[d]
  BY <1>1 DEF IInv
<1>3. Live' = Live \cup {c}
  BY <1>1, <1>2 DEF Live, Fresh
<1>4. Sure(conn'[c])
  BY <1>1 DEF Fresh, Sure
<1>5. Closing'
  BY <1>1, <1>2, <1>3, <1>4 DEF Closing, Live
<1>6. Stage[c] = "absent" /\ Stage'[c] \in {"open", "closing"}
  BY <1>1, StageIs DEF StageOf, Live, Fresh
<1>7. Stage' = [Stage EXCEPT ![c] = Stage'[c]]
  <2>1. \A d \in Conns \ {c} : Stage'[d] = Stage[d]
    BY <1>2, StageIs
  <2>2. Stage = [d \in Conns |-> Stage[d]] /\ Stage' = [d \in Conns |-> Stage'[d]]
    BY DEF Stage
  <2> QED BY <2>1, <2>2
<1> QED BY <1>5, <1>6, <1>7 DEF Lifecycle!Open

LEMMA KillClosing ==
    ASSUME IInv, Closing, NEW c \in Conns, Kill(c)
    PROVE  Closing' /\ Lifecycle!Report(c)
<1>1. /\ phase = "close" /\ remaining' = remaining \ {c} /\ c \in remaining
      /\ conn' = [conn EXCEPT ![c] = Gone] /\ phase' = phase
      /\ Live' = Live \ {c} /\ c \in Live
  BY KillStep DEF Kill
<1>2. conn'[c] = Gone /\ ~Gone.live /\ ~Gone.listed /\ \A d \in Conns \ {c} : conn'[d] = conn[d]
  BY <1>1 DEF IInv, Gone
<1>3. Listed' = Listed \ {c} /\ remaining = Listed
  BY <1>1, <1>2 DEF Listed, Closing
<1>4. \A d \in Live' : Sure(conn'[d])
  BY <1>1, <1>2 DEF Closing, Live
<1>5. Closing'
  BY <1>1, <1>3, <1>4 DEF Closing
<1>6. Stage[c] = "closing" /\ Stage'[c] = "absent"
  BY <1>1, <1>2, <1>3, StageIs DEF StageOf, Live, Listed
<1>7. Stage' = [Stage EXCEPT ![c] = "absent"]
  <2>1. \A d \in Conns \ {c} : Stage'[d] = Stage[d]
    BY <1>2, StageIs
  <2>2. Stage = [d \in Conns |-> Stage[d]] /\ Stage' = [d \in Conns |-> Stage'[d]]
    BY DEF Stage
  <2> QED BY <1>6, <2>1, <2>2
<1> QED BY <1>5, <1>6, <1>7 DEF Lifecycle!Report

LEMMA CleanClosing ==
    ASSUME IInv, Closing, Clean
    PROVE  Closing' /\ UNCHANGED Stage /\ UNCHANGED conn
<1>1. /\ phase = "close" /\ remaining = {} /\ phase' = "select"
      /\ conn' = [c \in Conns |-> [conn[c] EXCEPT !.listed = FALSE]]
  BY DEF Clean
<1>2. \A c \in Conns : conn[c] \in Handlers /\ conn[c].listed = FALSE
  BY <1>1 DEF Closing, Listed, IInv, Handlers
<1>3. \A c \in Conns : [conn[c] EXCEPT !.listed = FALSE] = conn[c]
  BY <1>2 DEF Handlers
<1>4. UNCHANGED conn
  BY <1>1, <1>3 DEF IInv
<1>5. Live' = Live
  BY <1>4 DEF Live
<1> QED BY <1>1, <1>4, <1>5 DEF Closing, Stage

LEMMA ClosingInv ==
    ASSUME Announced = {}, ~ColdStart
    PROVE  Spec => [](IInv /\ Closing)
<1>1. Init => IInv /\ Closing
  <2> SUFFICES ASSUME Init PROVE Closing
    BY InitInv
  <2>1. Live = {}
    BY DEF Init, Live, Gone
  <2> QED BY <2>1 DEF Init, Closing
<1>2. IInv /\ Closing /\ [Next]_vars => IInv' /\ Closing'
  BY NextInv, NextKinds, SteadyClosing, AcceptClosing, KillClosing, CleanClosing
<1> QED BY <1>1, <1>2, PTL DEF Spec

\* Where no departure is announced to others, a close is never lost: the connection
\* is on the close list, and still to be visited, or has data and a send timer.
THEOREM NoLostCloseCorrect ==
    ASSUME Announced = {}, ~ColdStart
    PROVE  Spec => []NoLostClose
<1>1. IInv /\ Closing => NoLostClose
  <2> SUFFICES ASSUME IInv, Closing PROVE NoLostClose
    OBVIOUS
  <2>1. ASSUME NEW c \in Live, phase = "close", conn[c].listed PROVE c \in remaining
    BY <2>1 DEF Closing, Listed, Live
  <2>2. ASSUME NEW c \in Live, conn[c].reading = "none" \/ conn[c].toclose
        PROVE  \/ conn[c].listed
               \/ conn[c].toclose /\ conn[c].queued > 0 /\ conn[c].writeAge # "none"
    <3>1. Sure(conn[c])
      BY DEF Closing
    <3> QED BY <2>2, <3>1 DEF Sure
  <2> QED BY <2>1, <2>2 DEF NoLostClose
<1> QED BY <1>1, ClosingInv, PTL

\* ... and every connection goes through its life as the hub expects: it is opened,
\* closed, and reported once, and what was closed is not open again before.
THEOREM LifecycleImplemented ==
    ASSUME Announced = {}, ~ColdStart
    PROVE  Spec => Lifecycle!Init /\ [][Lifecycle!Next]_Stage
<1>1. Init => Lifecycle!Init
  BY DEF Init, Lifecycle!Init, Stage, Gone
<1>2. IInv /\ Closing /\ [Next]_vars => [Lifecycle!Next]_Stage
  BY NextKinds, SteadyClosing, AcceptClosing, KillClosing, CleanClosing DEF Lifecycle!Next
<1> QED BY <1>1, <1>2, ClosingInv, PTL DEF Spec

----------------------------------------------------------------------------
(* Sending. *)

LEMMA SendingStep ==
    ASSUME Announced = {}, ~ColdStart, WriteWanters = {},
           IInv, Closing, Sending, [Next]_vars
    PROVE  Sending'
<1>1. ASSUME Steady PROVE Sending'
  <2>1. booted /\ Moved /\ Live' = Live
    BY <1>1, MovedKeeps DEF IInv, Running, Phases, Steady
  <2>2. \A c \in Live : Scheduled(c, conn'[c], sendlist')
    BY <2>1 DEF Moved, Served, Closing, Sending
  <2> QED BY <2>1, <2>2 DEF Sending
<1>2. ASSUME NEW c \in Conns, Accept(c) PROVE Sending'
  <2>1. /\ c \notin Live /\ Fresh(conn'[c]) /\ conn' = [conn EXCEPT ![c] = conn'[c]]
        /\ Spares(c, sendlist, sendlist')
    BY <1>2, AcceptEffect
  <2>2. \A d \in Conns \ {c} : conn'[d] = conn[d]
    BY <2>1 DEF IInv
  <2>3. Scheduled(c, conn'[c], sendlist')
    BY <2>1 DEF Fresh, Scheduled
  <2>4. ASSUME NEW d \in Live', d # c PROVE Scheduled(d, conn'[d], sendlist')
    <3>1. d \in Conns /\ d \in Live /\ conn'[d] = conn[d]
      BY <2>2, <2>4 DEF Live
    <3> QED BY <2>1, <2>4, <3>1 DEF Sending, Scheduled, Spares
  <2> QED BY <2>3, <2>4 DEF Sending
<1>3. ASSUME NEW c \in Conns, Kill(c) PROVE Sending'
  <2>1. /\ Live' = Live \ {c} /\ sendlist' = Bury(sendlist, c)
        /\ conn' = [conn EXCEPT ![c] = Gone] /\ Shelf(sendlist)
    BY <1>3, KillStep DEF Kill, IInv
  <2>2. Spares(c, sendlist, sendlist')
    BY <2>1, BuryShelf
  <2>3. ASSUME NEW d \in Live' PROVE Scheduled(d, conn'[d], sendlist')
    <3>1. d \in Conns \ {c} /\ d \in Live /\ conn'[d] = conn[d]
      BY <2>1 DEF IInv, Live
    <3> QED BY <2>2, <3>1 DEF Sending, Scheduled, Spares
  <2> QED BY <2>3 DEF Sending
<1>4. ASSUME Clean PROVE Sending'
  <2>1. UNCHANGED conn /\ UNCHANGED sendlist
    BY <1>4, CleanClosing DEF Clean
  <2>2. Live' = Live
    BY <2>1 DEF Live
  <2> QED BY <2>1, <2>2 DEF Sending, Scheduled
<1> QED BY <1>1, <1>2, <1>3, <1>4, NextKinds

\* What write() accepted is sent or its connection closed, and every entry of the
\* send list is the one its socket is indexed under: where the TLS layer does not
\* ask to write, no departure is announced, and the first cycle is over.
THEOREM SendScheduledCorrect ==
    ASSUME Announced = {}, ~ColdStart, WriteWanters = {}
    PROVE  Spec => []SendScheduled
<1>1. Init => Sending
  <2> SUFFICES ASSUME Init PROVE Sending
    OBVIOUS
  <2>1. Live = {}
    BY DEF Init, Live, Gone
  <2> QED BY <2>1 DEF Sending
<1>2. IInv /\ Closing /\ Sending /\ [Next]_vars => Sending'
  BY SendingStep
<1>3. IInv /\ Closing /\ Sending => SendScheduled
  <2> SUFFICES ASSUME IInv, Closing, Sending, NEW c \in Live
      PROVE  /\ conn[c].queued > 0 =>
                 \/ conn[c].listed
                 \/ InSendList(c)
                 \/ /\ conn[c].sendOnRead /\ conn[c].writeAge # "none"
                    /\ conn[c].inRead \/ conn[c].toclose
             /\ \A i \in DOMAIN sendlist.seq :
                 conn[c].sending = "write" /\ sendlist.seq[i] = c => sendlist.pos[c] = i
    BY DEF SendScheduled
  <2>1. conn[c].inRead \/ conn[c].toclose
    BY LiveFit DEF Fit
  <2>2. Scheduled(c, conn[c], sendlist)
    BY DEF Sending
  <2>3. \A i \in DOMAIN sendlist.seq : sendlist.seq[i] = c => sendlist.pos[c] = i
    BY LiveFit DEF IInv, Shelf
  <2> QED BY <2>1, <2>2, <2>3 DEF Scheduled, Has, InSendList
<1> QED BY <1>1, <1>2, <1>3, ClosingInv, PTL DEF Spec

=============================================================================
