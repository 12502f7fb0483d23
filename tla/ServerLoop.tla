----------------------------- MODULE ServerLoop -----------------------------
(***************************************************************************)
(* The event loop of core/server.lua: accepting, TLS handshakes, reading,  *)
(* writing, closing, the sweeps, and the slots of core/ratelimit.lua that  *)
(* go with a connection (connections per address, handshake deadlines).    *)
(*                                                                         *)
(* One cycle of `tick` is: Select, the write events, the read events, the  *)
(* timers, then the close list.  The hub runs only when the loop calls it: *)
(* for a frame (`dispatch`), for a timer, and for `disconnect`; `control`  *)
(* says who is running.  While it runs the hub may write to and close any  *)
(* connection it knows (HubWrite, HubKill, HubClose).                      *)
(*                                                                         *)
(* Bytes are counted in units: a write is one unit, the send buffer takes  *)
(* MaxQueue of them.  A time stamp is "fresh" until the clock advances and *)
(* "old" from then on: old stamps are those the sweeps act on.             *)
(***************************************************************************)
EXTENDS Integers, Sequences, FiniteSets

CONSTANTS
    Conns,          \* client connections
    TlsConns,       \* those that come to the TLS listener
    WriteWanters,   \* those whose TLS layer may answer "wantwrite"
    ReadWanters,    \* those whose TLS layer may answer a send with "wantread"
    Announced,      \* those whose departure the hub tells the others
                    \* (ADC users: IQUI; HTTP connections are not announced)
    Ips, IpOf,      \* client addresses, [Conns -> Ips]
    MaxPerIp,       \* cfg ratelimit_perip_max_conns
    MaxConnections, \* maxconnections of a listener
    HandshakeTries, \* attempts of a handshake (10 in the code)
    MaxQueue,       \* maxsendlen, in units
    MaxList,        \* bound: no entry without index is added to a longer list
    ColdStart,      \* does the behaviour start with the first cycle of the loop
    None

Servers == {"plain", "tls"}
ServerOf(c) == IF c \in TlsConns THEN "tls" ELSE "plain"

ASSUME ServerAssumption ==
    /\ IsFiniteSet(Conns) /\ IsFiniteSet(Ips)
    /\ TlsConns \subseteq Conns /\ Announced \subseteq Conns
    /\ WriteWanters \subseteq TlsConns /\ ReadWanters \subseteq TlsConns
    /\ IpOf \in [Conns -> Ips]
    /\ MaxPerIp \in Nat \ {0} /\ MaxConnections \in Nat
    /\ HandshakeTries \in Nat \ {0} /\ MaxQueue \in Nat \ {0}
    /\ MaxList \in Nat
    /\ ColdStart \in BOOLEAN
    /\ Conns \cap Servers = {} /\ None \notin Conns

VARIABLES
    phase,      \* "select", "io", "timers", "close", or "crashed": an error
                \* left `tick`
    control,    \* who runs: "loop", the read loop of a handler ("receive",
                \* "frames"), or the hub ("frame", "timer", "leave")
    current,    \* the connection that is being read
    ending,     \* the read that is being worked off ended in a terminal error
    towrite, toread,    \* what is left of the result of select
    remaining,  \* what `pairs` has still to visit of the close list
    conn,       \* the handler of every connection
    sendlist,   \* _sendlist: the array and the index of each socket in it
    perip,      \* _perip_count
    connections,\* connections of each listener
    booted,     \* _currenttime was set (it is nil in the first cycle)
    stopping    \* shutdown() was called: the listeners accept no more

loopVars == <<phase, control, current, ending, towrite, toread, remaining>>
vars == <<loopVars, conn, sendlist, perip, connections, booted, stopping>>

Ages == {"none", "fresh", "old"}

\* `user`: does the hub have a listener state for the connection ("known"),
\* which it has asked to close itself ("closed")?
Handlers ==
    [live : BOOLEAN, user : {"none", "known", "closed"},
     reading : {"none", "handshake", "read"},       \* handler.readbuffer
     sending : {"handshake", "write", "dead"},      \* handler.sendbuffer
     sendOnRead : BOOLEAN, readOnWrite : BOOLEAN,   \* try_sending_on_read, ...
     queued : 0..MaxQueue, overrun : BOOLEAN,       \* bufferqueue, bufferlen
     toclose : BOOLEAN, inRead : BOOLEAN,           \* toclose, _readlist
     listed : BOOLEAN,                              \* _closelist
     writeAge : Ages, idleAge : Ages, hsAge : Ages, \* _writetimes, ...
     tries : 0..HandshakeTries, wrote : BOOLEAN]    \* of the handshake

Gone == [live |-> FALSE, user |-> "none", reading |-> "none",
         sending |-> "write", sendOnRead |-> FALSE, readOnWrite |-> FALSE,
         queued |-> 0, overrun |-> FALSE, toclose |-> FALSE, inRead |-> FALSE,
         listed |-> FALSE, writeAge |-> "none", idleAge |-> "none",
         hsAge |-> "none", tries |-> 0, wrote |-> FALSE]

Live == {c \in Conns : conn[c].live}

TypeOK ==
    /\ phase \in {"select", "io", "timers", "close", "crashed"}
    /\ control \in {"loop", "receive", "frames", "frame", "timer", "leave"}
    /\ current \in Conns \cup {None}
    /\ ending \in BOOLEAN
    /\ towrite \in SUBSET Conns /\ toread \in SUBSET (Conns \cup Servers)
    /\ remaining \in SUBSET Conns
    /\ conn \in [Conns -> Handlers]
    /\ sendlist.seq \in Seq(Conns \cup {None})
    /\ sendlist.pos \in [Conns -> 0..Len(sendlist.seq)]
    /\ perip \in [Ips -> Nat] /\ connections \in [Servers -> Nat]
    /\ booted \in BOOLEAN /\ stopping \in BOOLEAN

Init ==
    /\ phase = "select" /\ control = "loop" /\ current = None
    /\ ending = FALSE /\ towrite = {} /\ toread = {} /\ remaining = {}
    /\ conn = [c \in Conns |-> Gone]
    /\ sendlist = [seq |-> <<>>, pos |-> [c \in Conns |-> 0]]
    /\ perip = [i \in Ips |-> 0] /\ connections = [s \in Servers |-> 0]
    /\ booted = ~ColdStart /\ stopping = FALSE

(***************************************************************************)
(* The send list.  A socket the handshake appended has no index            *)
(* (AppendUnindexed), so RemoveSocket does not find it.  The entry of a    *)
(* socket that was closed stays as None: select skips it.                  *)
(***************************************************************************)
InSendList(c) == \E i \in DOMAIN sendlist.seq : sendlist.seq[i] = c

AddSocket(l, c) ==
    IF l.pos[c] # 0 THEN l
    ELSE [seq |-> Append(l.seq, c), pos |-> [l.pos EXCEPT ![c] = Len(l.seq) + 1]]

AppendUnindexed(l, c) == [l EXCEPT !.seq = Append(@, c)]

RemoveSocket(l, c) ==
    LET p == l.pos[c]
        n == Len(l.seq)
        last == l.seq[n]
        short == SubSeq(l.seq, 1, n - 1)
    IN  IF p = 0 THEN l
        ELSE IF last = c
        THEN [seq |-> short, pos |-> [l.pos EXCEPT ![c] = 0]]
        ELSE [seq |-> [short EXCEPT ![p] = last],
              pos |-> [d \in Conns |-> IF d = c THEN 0
                                       ELSE IF d = last THEN p ELSE l.pos[d]]]

Bury(l, c) ==
    LET m == RemoveSocket(l, c) IN
    [m EXCEPT !.seq = [i \in DOMAIN @ |-> IF @[i] = c THEN None ELSE @[i]]]

(***************************************************************************)
(* A handler.                                                              *)
(***************************************************************************)
Stamp == IF booted THEN "fresh" ELSE "none"

\* handler.close: at once if it is forced or nothing is queued, otherwise when
\* the queue is empty.
Close(h, forced) ==
    LET now == forced \/ h.queued = 0 IN
    [h EXCEPT !.reading = "none", !.idleAge = "none",
              !.listed = @ \/ now,
              !.toclose = @ \/ ~now, !.inRead = @ /\ now]

\* handler.write: refused with a forced close when the send buffer is full.
\* What the refused write added to bufferlen stays there until the queue is
\* flushed, so after one refusal any later write may be refused too.
CanQueue(h) == h.queued < MaxQueue
CanRefuse(h) == h.queued = MaxQueue \/ h.overrun
Queue(h) == [h EXCEPT !.queued = @ + 1,
                      !.writeAge = IF @ = "none" THEN Stamp ELSE @]
RefuseWrite(h) == Close([h EXCEPT !.overrun = TRUE], TRUE)

\* Variant: the flush forgets the pending close.
FlushedOpen(h) ==
    [h EXCEPT !.queued = 0, !.overrun = FALSE, !.writeAge = "none",
              !.idleAge = Stamp, !.sendOnRead = FALSE]
Flushed(h) ==
    LET e == [h EXCEPT !.queued = 0, !.overrun = FALSE] IN
    IF h.toclose THEN Close(e, TRUE)
    ELSE [e EXCEPT !.writeAge = "none", !.idleAge = Stamp, !.sendOnRead = FALSE]

Stalled(h, rest, onRead) ==
    [h EXCEPT !.queued = rest, !.writeAge = Stamp, !.sendOnRead = onRead]

\* _sendbuffer: the handler and the send list after a send that sent all,
\* sent some (the socket goes back to the list), has to wait for the peer
\* ("wantread"), or failed.
\* (Variant: after a partial send the socket is not listed again.)
SendUnlisted(c, h, l) ==
    {<<Flushed(h), l>>}
    \cup {<<Stalled(h, rest, FALSE), l>> : rest \in 1..(h.queued - 1)}
    \cup (IF h.queued > 0 THEN {<<Close(h, TRUE), l>>} ELSE {})

SendBuffer(c, h, l) ==
    {<<Flushed(h), l>>}
    \cup {<<Stalled(h, rest, FALSE), AddSocket(l, c)>> : rest \in 1..(h.queued - 1)}
    \cup (IF h.queued > 0 THEN {<<Close(h, TRUE), l>>} ELSE {})
    \cup (IF h.queued > 0 /\ c \in ReadWanters
          THEN {<<Stalled(h, h.queued, TRUE), l>>} ELSE {})

\* The handshake coroutine: done, or one more attempt, or given up.
Secured(h) == [h EXCEPT !.hsAge = "none", !.tries = 0, !.wrote = FALSE,
                        !.reading = "read", !.sending = "write"]
Failed(h) == [Close(h, TRUE) EXCEPT !.sending = "dead"]
Unlist(h, c, l) == IF h.wrote THEN RemoveSocket(l, c) ELSE l

HandshakeStep(c, h, l) ==
    IF h.tries = HandshakeTries THEN {<<Failed(h), l>>}
    ELSE {<<Secured(h), Unlist(h, c, l)>>,
          <<[h EXCEPT !.tries = @ + 1, !.wrote = FALSE], Unlist(h, c, l)>>,
          <<Failed(h), l>>}
         \cup (IF c \in WriteWanters /\ Len(l.seq) < MaxList
               THEN {<<[h EXCEPT !.tries = @ + 1, !.wrote = TRUE],
                       IF h.wrote THEN l ELSE AppendUnindexed(l, c)>>}
               ELSE {})

(***************************************************************************)
(* select: any of the sockets it was asked about may be ready.             *)
(***************************************************************************)
Select ==
    /\ phase = "select" /\ control = "loop"
    /\ towrite' \in SUBSET {c \in Live : InSendList(c)}
    /\ toread' \in SUBSET ({c \in Live : conn[c].inRead}
                           \cup (IF stopping THEN {} ELSE Servers))
    /\ phase' = "io"
    /\ UNCHANGED <<control, current, ending, remaining, conn, sendlist, perip,
                   connections, booted, stopping>>

\* Control goes on to the read loop of a handler, or back to the event loop.
Continue(c, reads) ==
    /\ control' = IF reads THEN "receive" ELSE "loop"
    /\ current' = IF reads THEN c ELSE None

WriteEvent(c) ==
    /\ phase = "io" /\ control = "loop" /\ c \in towrite
    /\ towrite' = towrite \ {c}
    /\ LET h == conn[c] IN
       \/ /\ h.sending = "handshake"
          /\ \E r \in HandshakeStep(c, h, sendlist) :
                /\ conn' = [conn EXCEPT ![c] = r[1]]
                /\ sendlist' = r[2]
          /\ UNCHANGED <<control, current>>
       \/ /\ h.sending = "write"
          /\ \E r \in IF h.sendOnRead THEN {<<h, RemoveSocket(sendlist, c)>>}
                      ELSE SendBuffer(c, h, RemoveSocket(sendlist, c)) :
                /\ conn' = [conn EXCEPT ![c] = r[1]]
                /\ sendlist' = r[2]
          /\ Continue(c, h.readOnWrite)
    /\ UNCHANGED <<phase, ending, toread, remaining, perip, connections, booted,
                   stopping>>

ReadEvent(c) ==
    /\ phase = "io" /\ control = "loop" /\ towrite = {} /\ c \in toread
    /\ toread' = toread \ {c}
    /\ LET h == conn[c] IN
       \/ /\ h.reading = "none"
          /\ UNCHANGED <<conn, sendlist, control, current>>
       \/ /\ h.reading = "handshake"
          /\ \E r \in HandshakeStep(c, h, sendlist) :
                /\ conn' = [conn EXCEPT ![c] = r[1]]
                /\ sendlist' = r[2]
          /\ UNCHANGED <<control, current>>
       \/ /\ h.reading = "read"
          /\ \E r \in IF h.sendOnRead THEN SendBuffer(c, h, sendlist)
                      ELSE {<<h, sendlist>>} :
                /\ conn' = [conn EXCEPT ![c] = r[1]]
                /\ sendlist' = r[2]
          /\ Continue(c, ~h.readOnWrite)
    /\ UNCHANGED <<phase, ending, towrite, remaining, perip, connections, booted,
                   stopping>>

(***************************************************************************)
(* _readbuffer: receive, then one dispatch per frame.                      *)
(***************************************************************************)
Receive(c) ==
    /\ control = "receive" /\ current = c
    /\ \E got \in BOOLEAN, err \in {"ok", "closed"}
            \cup (IF c \in WriteWanters THEN {"wantwrite"} ELSE {}) :
        LET h == [conn[c] EXCEPT !.idleAge = Stamp,
                                 !.readOnWrite = IF got THEN err = "wantwrite"
                                                 ELSE @ /\ err = "closed"]
        IN  /\ conn' = [conn EXCEPT ![c] = IF ~got /\ err = "closed"
                                           THEN Close(h, TRUE) ELSE h]
            /\ sendlist' = IF got /\ err = "wantwrite"
                           THEN AddSocket(sendlist, c) ELSE sendlist
            /\ control' = IF got THEN "frames" ELSE "loop"
            /\ current' = IF got THEN c ELSE None
            /\ ending' = (got /\ err = "closed")
    /\ UNCHANGED <<phase, towrite, toread, remaining, perip, connections, booted,
                   stopping>>

\* A frame goes to the hub.  hub.lua's `incoming` looks the user up and
\* indexes it: without one the error leaves `tick`, and the hub.
Frame(c) ==
    /\ control = "frames" /\ current = c
    /\ IF conn[c].user = "none" THEN phase' = "crashed" /\ UNCHANGED control
       ELSE control' = "frame" /\ UNCHANGED phase
    /\ phase # "crashed"
    /\ UNCHANGED <<current, ending, towrite, toread, remaining, conn, sendlist,
                   perip, connections, booted, stopping>>

\* No frame left: a terminal error of the read closes the connection now.
EndRead(c) ==
    /\ control = "frames" /\ current = c /\ phase # "crashed"
    /\ conn' = [conn EXCEPT ![c] = IF ending THEN Close(@, TRUE) ELSE @]
    /\ control' = "loop" /\ current' = None /\ ending' = FALSE
    /\ UNCHANGED <<phase, towrite, toread, remaining, sendlist, perip,
                   connections, booted, stopping>>

\* A frame, or what is buffered of one, is longer than maxreadlen.
Overlong(c) ==
    /\ control = "frames" /\ current = c /\ phase # "crashed"
    /\ conn' = [conn EXCEPT ![c] = Close(@, TRUE)]
    /\ control' = "loop" /\ current' = None /\ ending' = FALSE
    /\ UNCHANGED <<phase, towrite, toread, remaining, sendlist, perip,
                   connections, booted, stopping>>

\* The hub is done.  After a frame that closed its connection the rest of the
\* read is dropped, its error too.
GoesOnAnyway == control = "frame"

GoesOn == control = "frame" /\ conn[current].reading # "none"

HubReturns ==
    /\ control \in {"frame", "timer", "leave"}
    /\ control' = IF GoesOn THEN "frames" ELSE "loop"
    /\ current' = IF GoesOn THEN current ELSE None
    /\ ending' = (GoesOn /\ ending)
    /\ UNCHANGED <<phase, towrite, toread, remaining, conn, sendlist, perip,
                   connections, booted, stopping>>

(***************************************************************************)
(* What the hub does while it runs.                                        *)
(***************************************************************************)
HubRuns == control \in {"frame", "timer", "leave"}
Reachable(d) == conn[d].user = "known" /\ conn[d].sending = "write"

\* A connection enters the close list.  If `pairs` is traversing the list, and
\* the connection was not in it, whether the traversal still finds it (and,
\* when the table is rehashed, the others it has still to visit) is undefined.
Enlist(d, h) ==
    IF phase = "close" /\ h.listed /\ ~conn[d].listed
    THEN remaining' \in SUBSET (remaining \cup {d})
    ELSE UNCHANGED remaining

HubWrite(d) ==
    /\ HubRuns /\ Reachable(d)
    /\ \/ /\ CanQueue(conn[d])
          /\ conn' = [conn EXCEPT ![d] = Queue(@)]
          /\ sendlist' = AddSocket(sendlist, d)
          /\ UNCHANGED remaining
       \/ /\ CanRefuse(conn[d])
          /\ conn' = [conn EXCEPT ![d] = RefuseWrite(@)]
          /\ Enlist(d, RefuseWrite(conn[d]))
          /\ UNCHANGED sendlist
    /\ UNCHANGED <<phase, control, current, ending, towrite, toread, perip,
                   connections, booted, stopping>>

\* A last message and client.close(); user.kill also runs `disconnect` at once,
\* so that the hub has no user for the connection any more.
HubEnds(d, user) ==
    /\ control \in {"frame", "timer"} /\ Reachable(d)
    /\ \/ /\ CanQueue(conn[d])
          /\ conn' = [conn EXCEPT ![d] = Close([Queue(@) EXCEPT !.user = user], FALSE)]
          /\ sendlist' = AddSocket(sendlist, d)
       \/ /\ CanRefuse(conn[d])
          /\ conn' = [conn EXCEPT ![d] =
                        Close([RefuseWrite(@) EXCEPT !.user = user], FALSE)]
          /\ UNCHANGED sendlist
    /\ UNCHANGED <<phase, control, current, ending, towrite, toread, remaining,
                   perip, connections, booted, stopping>>

HubKill(d) == HubEnds(d, "none")
HubClose(d) == HubEnds(d, "closed")

(***************************************************************************)
(* Accepting.                                                              *)
(***************************************************************************)
\* Turned away: listener full, reset before getpeername, block list, rate or
\* lock-out of the address, setoption failed (its slot is given back).
Refuse(s) ==
    /\ phase = "io" /\ control = "loop" /\ towrite = {} /\ s \in toread
    /\ toread' = toread \ {s}
    /\ UNCHANGED <<phase, control, current, ending, towrite, remaining, conn,
                   sendlist, perip, connections, booted, stopping>>

ServerFull(s) == connections[s] > MaxConnections

\* A TLS connection makes the first attempt of its handshake before it is
\* entered in the lists.
Accept(c) ==
    LET s == ServerOf(c)
        plain == [Gone EXCEPT !.live = TRUE, !.reading = "read"]
        tls == [plain EXCEPT !.reading = "handshake", !.sending = "handshake",
                             !.hsAge = "fresh"]
        wrapped == IF c \in TlsConns THEN HandshakeStep(c, tls, sendlist)
                   ELSE {<<plain, sendlist>>}
    IN
    /\ phase = "io" /\ control = "loop" /\ towrite = {} /\ s \in toread
    /\ toread' = toread \ {s}
    /\ c \notin Live
    /\ ~ServerFull(s) /\ perip[IpOf[c]] < MaxPerIp
    /\ \E r \in wrapped :
        /\ conn' = [conn EXCEPT ![c] = [r[1] EXCEPT !.inRead = TRUE,
                                                    !.idleAge = Stamp,
                                                    !.user = "known"]]
        /\ sendlist' = r[2]
    /\ perip' = [perip EXCEPT ![IpOf[c]] = @ + 1]
    /\ connections' = [connections EXCEPT ![s] = @ + 1]
    /\ UNCHANGED <<phase, control, current, ending, towrite, remaining, booted,
                   stopping>>

(***************************************************************************)
(* The timers, once the clock has advanced: the sweep of stuck writers and *)
(* idle connections when it is due, the sweep of stuck handshakes when it  *)
(* is due, then the hub's own.                                             *)
(***************************************************************************)
NeverOlder(a) == a
Older(a) == IF a = "none" THEN "none" ELSE "old"

\* Variants: only stuck writers are swept, or only idle connections.
SweptWriters(h, idleDue, hsDue) ==
    IF (idleDue /\ h.writeAge = "old") \/ (hsDue /\ h.hsAge = "old")
    THEN Close(h, TRUE) ELSE h
SweptIdle(h, idleDue, hsDue) ==
    IF (idleDue /\ h.idleAge = "old") \/ (hsDue /\ h.hsAge = "old")
    THEN Close(h, TRUE) ELSE h

Swept(h, idleDue, hsDue) ==
    IF \/ idleDue /\ (h.writeAge = "old" \/ h.idleAge = "old")
       \/ hsDue /\ h.hsAge = "old"
    THEN Close(h, TRUE) ELSE h

Timers(advance, idleDue, hsDue) ==
    /\ phase = "io" /\ control = "loop" /\ towrite = {} /\ toread = {}
    /\ IF advance
       THEN /\ conn' = [c \in Conns |->
                         LET h == Swept(conn[c], idleDue, hsDue) IN
                         [h EXCEPT !.writeAge = Older(@), !.idleAge = Older(@),
                                   !.hsAge = Older(@)]]
            /\ control' = "timer"
       ELSE UNCHANGED <<conn, control>>
    /\ booted' = TRUE
    /\ phase' = "timers"
    /\ UNCHANGED <<current, ending, towrite, toread, remaining, sendlist, perip,
                   connections, stopping>>

(***************************************************************************)
(* The close list.                                                         *)
(***************************************************************************)
Listed == {c \in Conns : conn[c].listed}

StartClosing ==
    /\ phase = "timers" /\ control = "loop"
    /\ phase' = "close" /\ remaining' = Listed
    /\ UNCHANGED <<control, current, ending, towrite, toread, conn, sendlist,
                   perip, connections, booted, stopping>>

\* release_ip: the entry goes with the last connection of the address.
ReleasedLate(i) == IF perip[i] <= 1 THEN perip[i] ELSE perip[i] - 1
Released(i) == IF perip[i] <= 1 THEN 0 ELSE perip[i] - 1

\* handler.kill: `disconnect` reports the connection to the hub, which tells
\* the others if the user was online; then everything of it is given back.
Kill(c) ==
    /\ phase = "close" /\ control = "loop" /\ c \in remaining
    /\ remaining' = remaining \ {c}
    /\ control' = IF conn[c].user # "none" /\ c \in Announced THEN "leave"
                  ELSE "loop"
    /\ conn' = [conn EXCEPT ![c] = Gone]
    /\ sendlist' = Bury(sendlist, c)
    /\ perip' = [perip EXCEPT ![IpOf[c]] = Released(IpOf[c])]
    /\ connections' = [connections EXCEPT ![ServerOf(c)] = @ - 1]
    /\ UNCHANGED <<phase, current, ending, towrite, toread, booted, stopping>>

\* clean( _closelist ): the list is empty, whatever was still in it.
Clean ==
    /\ phase = "close" /\ control = "loop" /\ remaining = {}
    /\ conn' = [c \in Conns |-> [conn[c] EXCEPT !.listed = FALSE]]
    /\ phase' = "select"
    /\ UNCHANGED <<control, current, ending, towrite, toread, remaining, sendlist,
                   perip, connections, booted, stopping>>

\* hub.lua's loop, between two cycles: every listener closes its connections
\* and itself.
Shutdown ==
    /\ phase = "select" /\ ~stopping
    /\ stopping' = TRUE
    /\ conn' = [c \in Conns |-> IF conn[c].live THEN Close(conn[c], FALSE)
                                ELSE conn[c]]
    /\ UNCHANGED <<loopVars, sendlist, perip, connections, booted>>

Crashed == phase = "crashed" /\ UNCHANGED vars

LoopStep ==
    \/ Select \/ HubReturns \/ StartClosing \/ Clean
    \/ \E advance, idleDue, hsDue \in BOOLEAN : Timers(advance, idleDue, hsDue)
    \/ \E s \in Servers : Refuse(s)
    \/ \E c \in Conns : \/ WriteEvent(c) \/ ReadEvent(c) \/ Receive(c)
                        \/ Frame(c) \/ EndRead(c) \/ Overlong(c)
                        \/ Accept(c) \/ Kill(c)

HubStep == \E d \in Conns : HubWrite(d) \/ HubKill(d) \/ HubClose(d)

Next == LoopStep \/ HubStep \/ Shutdown \/ Crashed

Spec == Init /\ [][Next]_vars

\* The loop does not stop (the timeout of select bounds a cycle, a handler of
\* the hub returns), a read holds a finite number of frames, and time passes:
\* again and again the clock has advanced with both sweeps due.  A connection
\* with unsent data stays while its peer takes a little now and then; the hub
\* does not feed it for ever after it was closed (users of a hub that is
\* shutting down still get its broadcasts).
FairSpec ==
    /\ Spec
    /\ WF_vars(LoopStep)
    /\ SF_vars(\E c \in Conns : EndRead(c))
    /\ SF_vars(Timers(TRUE, TRUE, TRUE))
    /\ \A c \in Conns : <>[][HubWrite(c) => conn[c].reading # "none"]_vars

(***************************************************************************)
(* Properties.                                                             *)
(***************************************************************************)
\* The slots of an address and of a listener are those of its connections:
\* whichever way a connection ends, it gives both back, once.  A listener takes
\* one connection more than maxconnections, because it compares with ">".  A
\* handshake that is under way has a deadline, and a connection that is through it
\* has none: the sweep can neither miss nor kill the wrong one.
SlotsExact ==
    /\ \A i \in Ips :
        /\ perip[i] = Cardinality({c \in Live : IpOf[c] = i})
        /\ perip[i] <= MaxPerIp
    /\ \A s \in Servers :
        /\ connections[s] = Cardinality({c \in Live : ServerOf(c) = s})
        /\ connections[s] <= MaxConnections + 1
    /\ \A c \in Live :
        /\ conn[c].reading = "handshake" => conn[c].hsAge # "none"
        /\ conn[c].hsAge # "none" => conn[c].sending # "write"

\* A connection that was closed is on the close list, and still to be visited
\* when the list is being worked off; or it has unsent data and a running send
\* timer.  A connection that is neither would never go away: it is not read
\* and the idle sweep does not see it.
NoLostClose ==
    \A c \in Live :
        /\ conn[c].reading = "none" \/ conn[c].toclose =>
            \/ conn[c].listed
            \/ conn[c].toclose /\ conn[c].queued > 0 /\ conn[c].writeAge # "none"
        /\ phase = "close" /\ conn[c].listed => c \in remaining

\* What write() accepted is not forgotten: the socket is in the send list, or
\* the send waits for the peer on a socket that is read, or the send timer will
\* close the connection.  Every entry of the list is the one its socket is indexed
\* under, so that the write handler can take it out again on every write event.
SendScheduled ==
    \A c \in Live :
        /\ conn[c].queued > 0 =>
            \/ conn[c].listed
            \/ InSendList(c)
            \/ /\ conn[c].sendOnRead /\ conn[c].writeAge # "none"
               /\ conn[c].inRead \/ conn[c].toclose
        /\ \A i \in DOMAIN sendlist.seq :
            conn[c].sending = "write" /\ sendlist.seq[i] = c => sendlist.pos[c] = i

\* Every frame finds the user of its connection; `incoming` would raise, and
\* the error would end the hub.
NeverCrashes == phase # "crashed"

\* What the hub relies on: a connection that was closed stays closed, is
\* reported once, and always is in the end, because its peer takes the rest of
\* the data or the send timer runs out.
Stage == [c \in Conns |->
            IF ~conn[c].live THEN "absent"
            ELSE IF conn[c].reading = "none" \/ conn[c].listed \/ conn[c].toclose
                 THEN "closing" ELSE "open"]
Lifecycle == INSTANCE ConnLifecycle WITH stage <- Stage
ImplementsLifecycle == Lifecycle!Spec

\* After shutdown() the last connection goes.
ShutdownDrains == stopping ~> Live = {}

\* A connection that is neither read from nor written to is closed in the end.
Active(c) == current' = c \/ conn'[c].queued > conn[c].queued
IdleIsClosed ==
    \A c \in Conns : <>[][~Active(c)]_vars => []<>(~conn[c].live)
=============================================================================
