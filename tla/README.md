# luadch in TLA+

luadch is an ADC (Advanced Direct Connect) hub: a single-threaded Lua program
on top of a small C launcher. Clients connect over TCP or TLS, introduce
themselves in a short handshake and are then relayed to each other; bots,
plugins and an HTTP API live in the same process. This directory holds TLA+
modules of its core, the TLC runs that check them on small instances, and
TLAPS proofs of what matters most for every instance.

## The system

The process runs one event loop (core/server.lua, `loop`): `select` on the
sockets, then the read and write handlers of the ready ones, then the timers.
Nothing runs in parallel. Concurrency is the order in which the handlers of
different connections run, the callbacks that run inside a handler (plugins,
kills, closes), and what survives between two handlers in tables that several
parts share.

| Component | Source | State it keeps | Operations | What makes it correct |
|---|---|---|---|---|
| Session registry | core/hub.lua, hub_dispatch.lua, hub_user_object.lua, hub_bot_object.lua | login state of each connection, `_usernicks`, `_usercids`, `_normalstatesids`, `_user_count`, pending takeovers, `_regusernicks` | newuser, HSUP, BINF, HPAS, HQUI, disconnect, updatenick, reguser, delreguser, regbot, bot.kill | slots and counters agree with the users online; a nick changes hands only on a proof; registered nicks only behind their password |
| HBRI | core/hbri.lua | one-shot tokens, users parked in state "hbri" | initiate, validate (HTCP), sweep, cancel, postlogin_inf | each token resolves once; a parked user always gets out |
| Frame pipeline | core/iostream.lua, the read loop of server.lua, luasocket's receive buffer | framing stages of a connection, their residual bytes | push, insert_before_terminal, prepend, counted upload, zlib stages | the bytes of the wire arrive as the frames that were sent, also while a stage is added or removed |
| Event loop | core/server.lua | socket lists, close list, send queues, handshake slots, connections per address | accept, handshake, read, write, close, the timers | every accepted connection is closed and reported once, its slots given back |
| Rate limiter | core/ratelimit.lua | token buckets, failure windows, lockouts | accept_ip, release_ip, record_authfail, user_msg, tick | no more than burst + rate; a lockout lasts as configured |
| User database | core/cfg_users.lua, util.atomic_write, hub.updateusers | user.tbl, the array of profiles, the profile each session holds | saveusers, loadusers, updateusers, checkusers, set* of a user | a change that was saved is neither lost nor resurrected; a crash leaves the old file or the new one |
| Plugin manager | core/scripts.lua | listeners per event, the scripts loaded | firelistener, import, start, killscripts, reload | PROCESSED stops the event; a reload ends the event it came with; nothing of a plugin outlives it |
| HTTP events | core/http_events.lua | ring of the last events, long-poll waiters | emit, poll, timeout | a client that polls with its cursor misses nothing or is told so |
| HTTP API | core/http.lua, http_router.lua, http_filter.lua, the HTTP stage of iostream.lua | routes, pending requests, idempotency store | parse, dispatch, respond | one response per request, in order |
| HTTP client | core/http_client.lua | requests in flight, paths being written, redirects | request, drive, stream_to_file | each request is answered and gives its slot back; a file in place is one whole download; Authorization, Cookie and Proxy-Authorization stay with their origin |
| Configuration | core/cfg.lua, cfg_defaults.lua, cfg_lang.lua, cfg_secret.lua | settings, defaults | get, set, reload | a setting that fails its check falls back to the default |
| Block and white lists | core/blocklist.lua, whitelist.lua, ipmatch.lua | entries with expiry, saved to disk | add, remove, match, expire | a failed save leaves the list as it was; the buckets of the lookup agree with the entries |
| Backup, restore, archive | core/backup.lua, restore.lua, backup_archive.lua | the install's files | backup, plan, restore, rollback | a restore that fails leaves the install as it was |
| Launcher, shutdown, restart | hub/hub.c, core/init.lua, `hub.loop`, scripts/cmd_shutdown.lua, cmd_restart.lua | the lock, the exit flag, the loop's signal, countdowns | start, daemonize, run, restart, signals, restore | one process per installation; who is told to exit does |
| GeoIP, audit, secrets, certificates, ADC parser, bloom filter, other plugins | core/mmdb.lua, geoip_update.lua, audit.lua, secrets.lua, *_bootstrap.lua, adc.lua, bloom.lua, scripts/ | little or none | conversions, one-off steps at start, commands | what they compute |

How they interact: server.lua hands decrypted bytes to the pipeline of the
connection, the pipeline hands frames to `incoming` (hub.lua), `incoming`
looks the handler up in the table of the user's state (hub_dispatch.lua),
handlers call the plugins (`firelistener`), and plugins call back into the
registry (`reguser`, `kill`, `updatenick`). A closed socket comes back as
`disconnect`. The registry and the user database share the profile tables;
HBRI and the registry share the user object; the event loop drives the timers
of all of them.

## Modules

| Module | Models | Runs | Proofs |
|---|---|---|---|
| HubSessions | session registry, HBRI | takeover, bots | HubSessionsProofs |
| ServerLoop, which implements ConnLifecycle | event loop, connection slots | serverloop, serveradc | ServerLoopProofs |
| FramePipeline, which implements FrameStream | from the kernel to a frame: receive buffer, stages, splices | pipeline | InboundProofs |
| PluginChain | events, plugins, reload | plugins | HubProcessProofs |
| HttpEvents, which implements EventFeed | event ring and long polls | httpevents | HttpEventsProofs |
| Idempotency | idempotency keys of the HTTP API | idempotency | IdempotencyProofs |
| RateLimit | token buckets, lock-outs | ratelimit | InboundProofs |
| UserStore, which implements AccountStore | profiles, user.tbl and its backup | userstore | UserStoreProofs |
| HttpClient | outbound requests, redirects, downloads | httpclient | HttpClientProofs |
| HubProcess | launcher, lock, restart, shutdown | process | HubProcessProofs |

Every module with an `MC` in front gives the constants of its runs. Definitions
that a comment calls a variant (`FlushedOpen`, `RowsLate`, ...) are the code with
one plausible mistake; they are not part of the specification and show that the
properties notice the mistake.

## Plan

Done: HubSessions; ServerLoop with ConnLifecycle; HttpEvents with EventFeed;
RateLimit; Idempotency; UserStore with AccountStore; FramePipeline with
FrameStream; PluginChain; HubProcess; HttpClient. The safety properties of all are
proved, and that HttpEvents, UserStore and, in their safety part, ServerLoop and
FramePipeline implement their abstract specifications.

## HubSessions

State and actions. A connection's user object is a row of functions over
`Conns` (`state`, `nick`, `firstnick`, `cid`, `profile`, `takeover`, `token`
and the sets `closing`, `claim`, `secondary`); the hub's tables are `nickSlot`
(`_usernicks`), `cidSlot` (`_usercids.TIGR`), `online` (`_normalstatesids`),
`userCount` (`_user_count`) and `account` (`_regusernicks`: which nicks are
registered, and whether as a bot). A connection that is closed and comes back
is the same element of `Conns` with a new object; `Accept` waits until no
takeover refers to the old one.

One action is one handler run to its end with everything it calls: `BINF`
kills the older user of the CID (its `disconnect` included), decides about the
nick, runs the `onConnect` listeners (usr_nick_prefix renames a registered user
to a prefixed nick: `Prefix`) and ends in the password challenge, in "hbri" or
in "normal". `Depart(K)` is `disconnect` of the users of K, with its two
different rules for the nick slot (cleared by its owner only) and the CID slot
(cleared by whoever showed the CID). `user.kill` runs `disconnect` in place;
`client.close` does not: that is `ServerClose`, and the user stays registered
until the loop reports the socket.

Abstractions. Messages, texts, shares and features do not matter to the
registry and are left out; any refusal a client can cause at will (wrong
password, malformed INF, listener that kills) is one nondeterministic branch.
A reload is `KillBot` and `RegBot` in any order, more than `killscripts`
followed by `restartscripts` does. Clients cannot show the CID of a bot because
they have to prove it with a PID that hashes to it.

| Run | Instance | Shows |
|---|---|---|
| takeover | 3 connections, 2 nicks, 2 CIDs, reg_only, nick_change, HBRI, symmetry | NickOwned and HandoverAuthenticated: a takeover (#91) that is won, lost to a third connection or abandoned, next to nick changes and CIDs that meet |
| bots | 2 connections, 1 bot, a prefix, HBRI, an open hub, fair | CidOwned, SlotsLive, CountExact, AuthenticatedNick, TokenMatchesState and the liveness property ParkedLeaves: bots come and go, accounts are made for nicks in use, tokens are used, time out or are dropped |

Bounds. Three connections are needed for a takeover that loses its nick to a
third party, and for the side channel next to two users; two nicks and two
CIDs for a clash and an escape. No counter is bounded: the state space is
finite as it is.

Fairness. `Sweep` is called by the server timer about once a second for every
expired token, and each closed socket is reported; nothing else is fair. In
particular no client has to answer.

Not claimed. With nick_change a user may take its own first nick back although
it was registered meanwhile, so AuthenticatedNick is stated for nick_change
off. A bot that is registered again takes the slot of a user that was logged
in under the bot's nick by a pending takeover, so NickOwned excludes people
who carry the nick of a configured bot. And with nick_change *and* bots
`updatenick` can clear the slot of a bot, so the theorems assume
`NickChange => Bots = {}`.

### Proofs

HubSessionsProofs proves every safety property above, for any finite number of
connections and bots and any nicks and CIDs, from `ConstantsAssumption` and the
hypothesis just named. The inductive invariant `IInv` adds to the properties:
what a connection has in each state (`ConnShape`), that a running bot is in its
slots (`BotShape`), that a connection with an INF and no pending takeover owns
its nick (`NickHeld`) and, in an open hub, its CID (`CidHeld`), and that a guest
owns a nick without account (`Guests`). `NickOwned` alone is not inductive: a
user parked in "hbri" or in "verify" must own its nick already, and the
takeover target must be known to differ from the taker. The argument has two
main lemmas, `DepartKeeps` (users leave) and `ArrivalKeeps` (a connection gets
a free nick and a CID nobody else has, after others left); BINF and HPAS are
instances of the second. `HandoverCorrect` lists the three steps that can give
a connection a slot (`SlotMoves`).

## ServerLoop and ConnLifecycle

State. `conn[c]` is the private state of a handler (`wrapconnection`):
`reading` and `sending` say which function its `readbuffer` and `sendbuffer`
are (the handshake, the real one, or the stubs of `handler.close`),
`queued` is its send queue, `toclose` the pending close, `listed` its entry in
`_closelist`, `inRead` its place in `_readlist`, and the three ages its entries
in `_writetimes`, `_activitytimes` and the handshake table of ratelimit.lua.
`sendlist` is `_sendlist` with both of its halves: the array and the index of
each socket in it. `perip` and `connections` are the counters a connection
occupies a place in.

One cycle of `tick` is a sequence of steps: `Select` picks any of the sockets
that could be ready, `WriteEvent` and `ReadEvent` handle them, `Timers` runs
when all are done, `StartClosing`, `Kill` and `Clean` work off the close list.
`control` says who is running: the loop, the read loop of a handler
(`Receive`, `Frame`, `EndRead`, `Overlong`), or the hub, which was called for a
frame, for a timer, or to be told of a departure. While it runs the hub may
write to anyone (`HubWrite`) and end anyone (`HubKill`, which also forgets the
user, and `HubClose`, which does not). The order of events that matters is kept
exactly: a write may close another handler in the middle of the traversal of the
close list.

`pairs` over a table that grows during the traversal is undefined in Lua:
`Enlist` lets the traversal find or miss the new entry, and lose the others it
has still to visit.

Abstractions. Bytes are counted in writes; `MaxQueue` of them fill the send
buffer. A write that was refused has still been added to `bufferlen`, so later
ones may be refused too (`overrun`). A time stamp is "fresh" or "old"; time
passes when `Timers` finds that it did. An entry of a dead socket in the send
list is `None`. `ssl_wrap` is assumed to succeed. `addserver`, `addclient` and
`killall` are not modelled.

`ConnLifecycle` is what the hub relies on: a connection is opened, closed by
either side, and reported exactly once, and what was closed is reported in the
end. `ServerLoop` implements it with `Stage` as the refinement mapping.

| Run | Instance | Shows |
|---|---|---|
| serverloop | a TLS connection whose sends may wait for reads, a plain one, own addresses; fair | SendScheduled, NeverCrashes, NoLostClose; ImplementsLifecycle, ShutdownDrains, IdleIsClosed |
| serveradc | first cycle of the loop, announced departures, one address, send buffers of one write, a TLS layer that asks to write | SlotsExact: whatever else is lost in this setting, the slots are not |

Bounds. Two connections are what the close list and the refused write need:
one that goes and one that is written to. `MaxQueue` is 2 where partial sends
matter, `HandshakeTries` 2 instead of 10, `MaxList` stops the growth of stray
entries. The runs are small in other respects on purpose: each scenario constant
(`WriteWanters`, `ReadWanters`, `Announced`, `ColdStart`) switches on one part
of the environment.

Fairness. A cycle of the loop ends because `select` has a timeout and handlers
return: weak fairness of `LoopStep`. Strong fairness of `EndRead` says that a
read holds finitely many frames, of `Timers(TRUE, TRUE, TRUE)` that the clock
advances. The last conjunct of `FairSpec` says that the hub does not write to a
connection for ever after it was closed; without it a queue that is always
refilled keeps its connection. No peer has to do anything.

Not claimed. With wantwrite reads a frame may be dispatched to a user that was
killed (NeverCrashes does not hold: the write handler reads without the live
guard). In the first cycle `_currenttime` is nil, so a connection accepted in it
has no idle stamp until it sends something, and IdleIsClosed does not hold with
`ColdStart`. A TLS handshake that is asked to write appends the socket to the send
list without its index (server.lua:803), and no write event can take it out again.
With announced departures a close can be lost (see "Known divergences").

### Proofs

ServerLoopProofs proves, for any connections, addresses, listeners' limits, queue
lengths and handshake attempts that satisfy `ServerAssumption`:

| Theorem | Hypotheses | Establishes |
|---|---|---|
| TypeCorrect, SlotsCorrect | none | TypeOK; SlotsExact: no scenario costs a slot |
| NeverCrashesCorrect | `WriteWanters = {}` | NeverCrashes |
| NoLostCloseCorrect | `Announced = {}`, `~ColdStart` | NoLostClose |
| LifecycleImplemented | `Announced = {}`, `~ColdStart` | every step is one of ConnLifecycle or none |
| SendScheduledCorrect | `WriteWanters = {}`, `Announced = {}`, `~ColdStart` | SendScheduled |

The hypotheses are the settings of the run serverloop, and each leaves out one known
divergence: without it the theorem is false, and TLC shows the counterexample.

The invariant `IInv` holds in every scenario. `Fit` is the shape of a handler: a
handshake under way has a deadline, a connection without a user is not read, one
that is not in `_readlist` has a pending close. `Shelf` is the shape of the send
list: every index leads to its socket, and only sockets whose TLS asks to write have
entries without one. `Slots` are the counters, and `Running` says who runs in which
phase and on which connection, since the reported connections must be live for
`Kill` to give their slots back once. `Closing` adds what is promised of a closed
connection and that the traversal of the close list still has all of the list before
it; `Sending` that queued data is scheduled. NoLostClose alone is not inductive: that
data which waits has a send timer must be known before the close that relies on it.

All but three actions only change handlers of connections that stay. `Moved` is what
they have in common: every handler goes `Onward` (a close is not taken back, what is
promised stays so), its data stays `Served` and the counters are left alone. Each
has a lemma that ends in `Moved /\ Running'`, and the invariants follow from `Moved`
once (`MovedKeeps`, `SteadyClosing`). `Accept`, `Kill` and `Clean` are proved one by
one. In ConnLifecycle a step of the first sort is `Close` of the connections it
closes, or a stutter; `Accept` is `Open`, `Kill` is `Report`.

## HttpEvents and EventFeed

The ring of http_events.lua always holds consecutive ids, so it is the part of
the ghost `history` behind the first `evicted` events. `request[r]` is a request
as the hub or the wire has it: a waiter, or an answer on its way; `open` says
whether the client still holds the connection. `Emit` is `emit` with the
eviction and the resolution of waiters, in that order; `Tick` the deadline
sweep; `Poll` and `Subscribe` the handler of GET /v1/events with a cursor and
with `latest`; `Receive` and `Leave` the client's end. `SetCap` changes the size
of the ring, which `emit` reads each time.

`EventFeed` promises a client that polls with the cursor it was given every event
it may see, once, or a notice that there is a gap. `got` and `told` are the
client's knowledge and appear in both modules under the same names.

| Run | Instance | Shows |
|---|---|---|
| httpevents | 1 client, 2 requests, 3 types, rings of 1 and 2, 4 events; fair | NothingMissed, NoSleeper, WaitersResolved, and that EventFeed is implemented |

Bounds. Clients do not interact, so one is enough; its second request is the
waiter it left behind. Rings of one and two events stand for sizes from 16 up:
what matters is that they evict, and that they shrink. Four events fill the
larger ring twice.

Fairness. The server timer runs about once a second, so every deadline is seen.
Nothing else is fair: events need not happen, clients need not come back.

Not modelled: the fields of an event, and a restart, after which ids begin
again at 1 and a cursor of the previous process means nothing.

### Proofs

HttpEventsProofs proves TypeOK, NothingMissed and NoSleeper and that HttpEvents
implements EventFeed, for any clients, filters, types, ring sizes and bound, with
`Impatient = {}` as a hypothesis (see "Known divergences"). The inductive
invariant says that the ring is a suffix of the history that keeps at least the
last event (`RingShape`), that what a request knows lies between its client's
cursor and the history (`OpenShape`), that an answer on its way holds everything
between its `since` and its cursor, or says `lost` (`ReplyShape`), and that
`got`, `told` and the cursor agree (`NothingMissed`). NothingMissed alone is not
inductive because an answer can be overtaken by evictions. `ReceiveIsFeedStep` is
the heart of the refinement: receiving an answer is `Deliver` or `Skip`. Every
other action is `Emit` or a stutter.

## RateLimit

`bucket[i][k]` is the bucket of an id (an address or a CID) and a kind. Tokens
are counted in the time it takes to refill them, which makes the arithmetic
whole: a bucket holds at most `Full(k) = Burst[k] * Period[k]`, gains one unit
per unit of time and a request costs `Period[k]`. `clock` is
`socket.gettime`, the wall clock, which `SetBack` may set back; `uptime` is the
time that really passed. `AcceptIp`, `ReleaseIp`, `RecordAuthFail`,
`UserRequest` and `Tick` are the functions of ratelimit.lua; a failed login
belongs to a connection that was accepted, which `trying` counts.

The properties speak about any period of time: `from` is chosen at the start and
`spent`, `failed` and `locked` remember what happened since. WithinRate: no
period admits more than a full bucket and its refill. FailuresLock: failures
beyond that were locked out in the period. LockHolds: an address gets no
connection before its lock-out is over, in real time.

`RateAssumption` contains two conditions the settings do not enforce: a burst is
at least one token, and a bucket that idled for `IdleMax` (300 s) would be full.
The defaults satisfy both. With ratelimit_user_search_period = 200 and a burst of
3 the second one fails, and a user who waits 301 seconds gets three searches
instead of one, because the clean-up drops the bucket and a new one is full.

| Run | Instance | Shows |
|---|---|---|
| ratelimit | 1 address, 1 user, 3 kinds, 4 units of time, the clock may go back by 1 | WithinRate, FailuresLock, LockHolds |

Bounds. Addresses and users do not interact. Two connections are needed for a
failure on a connection that was accepted before the lock-out. `IdleMax` is the
smallest the assumption allows, so that the clean-up drops buckets as soon as
it can. Time ends at `MaxTime`, hence no deadlock check.

### Proofs

InboundProofs, which holds the proofs of the two modules of the way in, proves all
three, and TypeOK, for any instance that satisfies `RateAssumption`. The invariant ties each history variable to the bucket:
`Budget` says that what was spent plus what the bucket could give now is at most
a full bucket plus the time since `from`. A clock that was set back only makes
the bucket give less, and a bucket that was dropped or never made counts as full,
which is where `Full(k) <= IdleMax` is used. `FailuresSpent` says that what
failed and did not lock was paid for with tokens, `LockRuns` that a lock-out that
has not run its time is still in `block` and ends no earlier.

## Idempotency

A client may send a write request with an X-Idempotency-Key; dispatch
(http_router.lua) keeps what the handler answered and sends it again when the
request comes back. `map`, `order`, `ordNext` and `size` are `_idem_map`,
`_idem_order`, `_idem_ord_next` and `_idem_size`. An element of `Keys` stands for
token, method, template and key together; an answer is the number of the run of
the handler that gave it. `cap` is the setting, read whenever an answer is
stored.

One action is one pass of dispatch from the look-up on: `Answer` runs the handler
and stores, `AnswerReload` is POST /v1/reload, whose handler clears the store
before its own answer goes in, `Refuse` is a body that is turned down after the
look-up, `Raise` a handler that fails, which has run but leaves no answer. A
look-up that finds an answer changes nothing; one that finds it too old drops the
entry and leaves its slot in the order. `Reload` clears the store from elsewhere.
The eviction loop is the number of slots it drops, `Drops`. The branch of
`idem_store` that replaces an entry is left out: dispatch has always looked the
key up, and nothing runs between the two but the handler.

`owed` is the set of keys a client can rely on: answered, with fewer than `cap`
other keys answered since and no reload.

| Run | Instance | Shows |
|---|---|---|
| idempotency | 4 keys, one of POST /v1/reload, caps 1 and 2, TTL 2, 3 units of time, the clock may go back by 1 | ReplaysLatest, AtMostOnce, EvictsOldest |

Bounds. The stale slots are what could go wrong: a key that expired and is stored
again has two slots, and the older one must neither evict it nor be counted. That
takes a key that is run twice, a third time after an eviction, and two more keys
to fill the store; so `k1` runs three times and the others once. Time and runs
end, hence no deadlock check.

Not claimed. A handler that raises is run again by a retry: docs/HTTP_API.md:619
says that error responses are kept, which is true of those a handler returns.
The length of the order is not bounded by the cap: stale slots stay until the
store is full. TypeOK leaves it open.

### Proofs

IdempotencyProofs proves all three, with TypeOK and the agreement of count, map and
order (`Accounted`), from `IdempotencyAssumption`, for
any finite set of keys, any caps and bounds. The invariant adds to TypeOK that
ordinals in the order rise and every entry has its slot (`Book`), that an answer
in the map is the key's last and its time stamp is off by no more than the clock
was set back (`Dated`), and that what is owed is still there or too old (`Owes`). The main
lemma is `LoopDrops`: an entry the loop drops has cap - 1 younger live entries,
all of keys answered since; with the key that is now stored these are `cap`, so
the entry is not owed any more.

## UserStore and AccountStore

A profile is a Lua table that is referred to from the rows, from the index by
nick and from the methods of users who are logged in. `heap` is what the
references `Ids` refer to; `rows` and `index` are `_regusers` and
`_regusernicks`; `session[s]` is a connection with the profile it took at BINF;
`disk` is user.tbl, its backup, and what went wrong since both were last written.

What of a profile has to survive a restart (password, level, rank, failed
attempts) is one value of `Data`: the properties compare it, so whoever changes a
part of it changes it to any other value.

The actions are the handlers that change profiles or who holds them, each with
all its saves: `Challenge` is BINF of a registered nick, `WrongPassword`, `Login`
and `LoginStopped` are HPAS, `Logout` and `Abandon` the disconnect, `RegUser`,
`DelReg` and `SetPass` the commands, `PluginSetPassword` the method of a user
object, `Rename` cmd_nickchange with `hub.updateusers`, `SaveDates` the saves that
change no account, `Start` checkusers, loadusers and loadregusers. `Lose` deletes or
damages a copy, `Crash` ends the process.

A save writes the file, then the backup, each by a rename. `Save` is the set of
its outcomes: both written, the first refused (the second is then not tried), or
the second refused. A process that dies within a save leaves what one of these and
a crash after the handler leave. A reload makes new tables from the file; the
sessions keep the old ones, so that from then on what they write is not in the
rows. A reference nobody holds is used again; which one `Tables` takes makes no
difference, and the symmetry of the run is sound for that reason.

`AccountStore` is what the database is for: the accounts the hub works with and
those a restart would find. A step changes one account and loses none of the
others, and what a restart finds was saved. Stored is what the file says, or its
backup where the file cannot be read.

| Run | Instance | Shows |
|---|---|---|
| userstore | 2 nicks, 2 values of what must survive, 2 sessions, 4 references | TablesAgree, Saved; ImplementsStore |

Bounds. Two accounts show a step that loses more than it should; two sessions of
one nick make the takeover, and one that holds a table from before a reload while
the other has the new one. Four references are as many as can be held. One thing
goes wrong at a time: after a refused write or a lost copy nothing else fails
until a save went through. No fairness: the database promises nothing in the end.

Not claimed. These hold in the code, and no property contradicts them:
`user.setpassword` after somebody's rename returns true and saves nothing
(docs/PLUGIN_API.md:656); whoever is online when another account is renamed is
shown offline from then on, since `updateusers` resets everybody, and
cmd_usercleaner goes by that flag; docs/PLUGIN_API.md:761 says `updateusers`
persists, while it reads back; `user.setregnick` puts the user object into
`_regusernicks` (hub_user_object.lua:594; no script of the hub calls it);
docs/CONFIGURATION.md:174 calls the backup the previous state, while it is a copy
of the current one.

Left out: the fallback of `util.atomic_write` on Windows, which removes the file
before it renames (a rename refused there, within `Rename`, would load no
accounts); `updateusers` called by a plugin while user.tbl cannot be read, which
does the same; keys of a profile loadusers does not know, for which it refuses the
whole file; the times of bad_pass_timeout; accounts by CID and those of bots.

### Proofs

UserStoreProofs proves TypeOK, TablesAgree, Saved and that UserStore implements
AccountStore, from `StoreAssumption`, for any nicks, values, sessions and references.
The invariant says of the tables (`Memory`) that rows, index and sessions refer to
tables that are in use, that the index leads to the row of its nick and every row is
in the index, and that who is shown online has a session; of the copies
(`DiskShape`) that each has one profile per nick and that no more than one is lost,
none after a refused write; and `Saved` itself. TablesAgree does not say that what a
session holds is still in use, which it must be for a session to write to it. The
lemmas are about tables: `KeptMemory` (what nobody refers to goes), `LoadMemory` (a
reload), `NewTable` (there is a free reference for one more table, which is what the
assumption on the number of references is for), `SameContent` (a step that leaves
nick and data alone leaves the accounts alone). Every handler then is a step of AccountStore: it changes the
account it is about, or none, or goes back to what is stored.

## FramePipeline and FrameStream

A byte is the `at`-th byte of the `of`-th message, deflated or not (`zip`). `wire`
is what the kernel holds, `cbuf` luasocket's buffer, `pipe` the object of
`iostream.newpipeline`: its stages with the bytes each keeps, `input_buf`, the
frames `insert_before_terminal` deferred and the overflow it remembers. `Receive`
is the reading half of `_readbuffer`, `HandFrame` one turn of its loop over the
frames, `EndRead` the end of that loop. Between two turns the handler of the
frame runs (`Dispatched`): ZON puts an inflate stage in front, HSND a counted
stage before the line stage, each with what was read too far already. `Pull` is
`_pull` from the first stage to the last; `Takes` and `Readable` are the two
places where luasocket's buffer shows: `recvraw` fills it by blocks and may leave
bytes in it, and `collect_read` must find them there.

`FrameStream` is the promise: what a peer sends arrives item by item, unchanged
and in order, and in the end all of it does. An item is a frame or a filter, so a
filter that is cut into frames, a frame that is taken into a filter or a plain
byte given to zlib is not a step of it.

| Run | Instance | Shows |
|---|---|---|
| pipeline | up to 5 messages; filters of 3 bytes, luasocket blocks of 2, reads of 4 | Conserved (`BytesKept` on the way, `ClosedAfterAll` at the end), ImplementsStream: whatever the cuts of the stream |

Bounds. A frame is one byte and its newline, so a read of four bytes holds two
frames, a frame and half of the next, or the end of one, ZON and part of what
follows. The blocks are smaller than a read, which leaves bytes behind, and the
filter is longer than what is left of a read, and shorter than two. Five messages
are ZON, HSND and a text before, between and after them.

Fairness. The event loop returns to a socket that is readable, and a handler ends.
The peer sends what it likes; it deflates from ZON on, and may close at any time.

Abstractions. Deflating keeps the number of bytes; a chunk with a byte that is not
deflated is an error of zlib. The peer keeps to the protocol: a client that does not
is cut off by the parser or the limits, which is not what the promise is about.
Left out: the HTTP terminal stage and the passthrough stage, which are never
spliced; ZOF, which the hub refuses by killing the user; the outbound pipeline,
which has no state across writes but that of zlib; a hub without ZLIF.

### Proofs

InboundProofs proves Conserved, PipeTypeOK and the safety part of
ImplementsStream (`StreamImplemented`) for any number of messages, any length of the
filter and any sizes of the buffer and the reads. The theorems assume `~LateZon`,
which is the promise of the peer: the run with `LateZon = TRUE` shows that it is
needed.

The argument. ZON and HSND come once each, so what the peer sent is one stream of
bytes, known from two numbers: `q`, the place of HSND among the messages, and `z`,
that of ZON, each beyond all messages while the message has not come (`SentAs`). The
invariant `PipeIInv` says that this stream lies in the buffers, cut at five places
(`Carried`): `h` items were handed over, those up to `k` are deferred, the bytes up to `e`
have gone through the stages, those up to `i` are in the pipeline, those up to `c` in
luasocket's buffer, and the rest on the wire. The places fix everything else: which stages
stand in the pipeline, what each holds, how much of the filter is missing (`StagesAt`,
`LineNow`), and which bytes are deflated. An action moves places and keeps the
stream: Receive moves `i` and `c`, the first turn of the loop after it takes `e` to `i`, ZON
moves `e` back to the end of its own frame, and HSND, when the line stage behind an inflate
stage has read too far, moves `k` ahead of `h`. `Closing` ties the places to `last` and `control`: the end of the stream is
seen when `i` is its end, and the connection is closed when `h` is all of it; that no stage
overflows follows, as what a line stage keeps is less than a frame, a frame without its
newline is no longer than `MaxReadLen`, and what reaches the inflate stage is behind
ZON.

Conserved and PipeTypeOK are read off the places. For StreamImplemented it is enough
that `SentItems` only grows, that `handed` is a prefix of it before and after a step,
and that it gets longer or stays.

`Joined` and `Pull` are recursive functions over sequences of any length. The
theorems of the library that would give induction over them take an operator as a
parameter; instead, the set of the lengths for which a fact holds is shown to contain 0
and the successor of each of its members, and so to be all of Nat.

## PluginChain

`slots` is `_listeners` and `_scripts`, `meta` the slot `_plugin_meta` has for a
plugin, `stack` the calls of `firelistener` and `restartscripts` that are in
progress: a listener may fire events itself and cmd_reload reloads from inside one.
A walk keeps what `firelistener` keeps: the number of slots read at its start, its
place, the listeners of this slot still due, and its result. `Load` and
`LoadMissing` are one turn of `startscripts` with its outcomes (loaded, raised
half-way with its listeners and its bot left behind, not parsed, not read), each
error an `onError` walk of its own, while the table is half built.

| Run | Instance | Shows |
|---|---|---|
| plugins | 3 plugins, one with two listeners for a command, walks two deep, 1 reload | ChainDecides, ReloadEndsWalk, OwnedByLoaded |

Bounds. Three plugins are one before and one after the plugin that answers, reloads
or fails; one reload, since a generation is told from the one before it only; two
walks, an event and one fired inside it.

Not claimed. A listener that returns something else than nil or PROCESSED decides
the event for those after it: if cmd_reload comes later, its PROCESSED is lost, the
walk goes on over the new, shorter list and raises (ReloadEndsWalk names that
exception). Taps see every event and change nothing, so they are left out. `import`
and the environment of a plugin hold no state of the hub.

### Proofs

HubProcessProofs, which stands for the process and for the plugins it runs, proves
ChainTypeOK, ChainDecides, ReloadEndsWalk and OwnedByLoaded for any plugins, any
finite sets of listeners and any depth of nested walks. ChainAssumption says that the
plugins of `Order` differ and that the event in which a reload may be asked for is not
onStart: cmd_reload listens to commands. The invariant ChainInv has three parts.

- `Books`: there are no more slots than plugins, `meta` points at a slot of its own
  plugin, bots and routes are of this generation.
- `WalkShape` of each walk on the stack. `Decided`: its result is the first answer that
  is not nil, and if that is PROCESSED the walk has not moved since. `Current`, if it
  began with the plugins there are: each slot it passed has given as many answers as it
  has listeners, and at its place those who answered, who runs and who is due add up.
  A walk of an older generation is the outermost one, of a command, and either its
  listener is still inside the reload or its result is not nil.
- `ReloadShape`: a reload is at the bottom of the stack or directly above the walk that
  asked for it, which waits; more slots than entries of the cfg passed there never are.

ChainDecides is not inductive since it counts answers only of slots that were passed;
ReloadEndsWalk alone does not say why a fault needs "other" (the bound `len` of the walk
is that of the slots as long as the generation is the same). `WalkReplaced` and
`ReloadReplaced` reduce each action to what becomes of one frame.

## HubProcess

One installation and the processes started in it. `pc[p]` is where the process is
in `main`, `lock` the processes that hold the description of the lock file,
`lockPid` what stands in it, `doExit` the flag of `signal_handler`, `hub[p]` what
lives in one Lua state: the signal the loop looks at, whether the servers listen,
the plugins loaded and their timers. `AcquireLock` to `RunLua` are the lines of
`main`, `RestartLua` the C function that closes Lua and has it run again at exit,
`EndTick` the end of an iteration of `hub.loop`; `Shutdown`, `Restart`,
`CountdownEnds` and `TimerDue` are cmd_shutdown and cmd_restart, `Reload` drops
their timers. `Signal` and `Crash` come anywhere.

| Run | Instance | Shows |
|---|---|---|
| process | 3 processes, cmd_restart may be switched off; fair | OneInstance, ClosedHubEnds, ExitHonoured |

Bounds. Three processes are a daemon, its parent and somebody else who tries.
Numbers are not used twice: the kernel's are, but only the lock is ever compared.

Fairness. A process runs on, the loop ticks, its timers are called (server.lua
calls each about once a second). Signals, commands and crashes are not fair.

Abstractions. A timer may be due at any time after it was armed. Commands need
somebody logged in, or the HTTP listener; once the servers are closed there is
neither. A directory that cannot be written to has no lock and no guard (hub.c logs
it and goes on): that case is left out, as is Windows, which has no fork and a lock
of the same meaning. The C library allows at least 32 functions to run at exit;
`RestartLua` may fail instead, at any time.

### Proofs

HubProcessProofs proves TypeOK, OneInstance for any number of processes, and
ClosedHubEnds where cmd_shutdown is loaded (`"shutdown" \notin Optional`; see "Known
divergences"), from `ProcessAssumption`. The invariant of OneInstance says that the
holders of the lock are the processes past `AcquireLock` that did not end
(`LockShape`), that all but one of them are parents about to end (`Exclusive`), and that from its boot on the file names the process (`PidShape`): a
fork hands the description on, so the lock alone does not tell the two apart.
ClosedHubEnds needs to know that the plugins which may not be switched off are loaded
whenever the hub runs.

## HttpClient

`phase[r]` is the place of the coroutine of a request; a step is what one phase of
`drive_once` or `stream_to_file` does. `inflight` and `downloading` are `_inflight`
and `_dl_active`; `headers[r]` holds the names of the request headers that are left
and `Given[r]` those it was called with, `at` the origin of the present hop; `tmp`,
`file` and `bak` are the files of a path, each with the requests that wrote to it and
whether the body is complete. `windows` says whether a rename replaces a file. `GiveUp` is the deadline,
looked at by the loops of `Waits`; `Breaks` is any failure a peer, the disk or an
error of Lua causes.

The renames at the end of a download are one step each, so that a crash may come
between them; in the process they run without a break, and other requests cannot
see the difference since they are at other paths.

| Run | Instance | Shows |
|---|---|---|
| httpclient | 2 requests with a sensitive and a custom header, 1 path, 3 origins (2 of one host), 2 redirects, one refused rename or crash; fair | SlotsGivenBack, SensitiveHeadersStay, FilesSafe, Answered |

Bounds. Two requests are two that want the same path, or one that follows another
after a crash that left `.tmp` or `.bak` behind. Three origins give a chain that
leaves and comes back, and a downgrade; a chain longer than two hops visits no
other kind of origin. One fault: FilesSafe is a promise about one (see "Known
divergences").

Fairness. The clock passes the deadline, and the timer resumes the coroutine. Peers
owe nothing: Answered holds with a peer that stalls in any phase.

Abstractions. A body without Content-Length ends where the peer closes and counts as
whole. A refused request leaves no trace and is no step. A callback that makes a
request is a step of its own, since the slot is given back before it is called. A header is
its name, in lower case as `strip_sensitive` compares it: SensitiveHeadersStay is about the
three names the code drops, and says of all others that they go along. Method and body are
sent again on every hop as they were, to another origin too; no variable holds them.

### Proofs

HttpClientProofs proves TypeOK, SlotsGivenBack and SensitiveHeadersStay, and FilesSafe as
long as there was no more than one fault, for any requests, headers, paths, origins,
caps and numbers of redirects, from `ClientAssumption`. FilesSafe is a promise about one fault
(`MaxFaults = 1` in the run); `FilesWhole` is the half of it that holds with any
number: what is in place is one whole download. The invariant follows the phases of
a download: who has a `.tmp` open wrote all of it (`DownloadShape`), a file is
missing only while it is swapped or after a fault, and then `.bak` is whole
(`PathShape`). Slots are proved with the shapes of a step: a request at work goes on,
or ends by `Finish`, which gives back the slot and the path together.

## Known divergences

Places where the code does something else than its comments or docs say, or than a
reader expects. The runs are stated for the settings without them; the constant
named here shows each one: TLC then finds the property violated.

| Where | What happens | To see it |
|---|---|---|
| server.lua:510 | "have to wait to the end of the cycle": a close that comes from inside the traversal of the close list (disconnect sends IQUI, a full send buffer closes its receiver) is entered during `pairs()`, may be missed, and `clean` then drops it. The connection is never read again and leaves the idle sweep, but stays. | serverloop with `Announced = {c1, c2}`: NoLostClose |
| server.lua:765 | the write handler of a TLS connection reads without the live guard: a frame may be dispatched to a user that was killed | serverloop with `WriteWanters = {c1}`: NeverCrashes |
| server.lua:864 | no idle stamp for a connection accepted in the first cycle | serverloop with `ColdStart = TRUE`: IdleIsClosed |
| hub.lua:1406 | disconnect clears the CID slot whoever owns it, and in a reg_only hub HPAS of a pending takeover writes over it: `iscidonline` misses a user that is online, docs/PLUGIN_API.md:370 says "nil if not online" | takeover with CidOwned stated without `RegOnly` |
| http_events.lua:313 | `since=latest` with `wait`: the waiter resumes at 0 and is sent the whole ring; docs/HTTP_API.md:1051 promises "no-replay subscription" | httpevents with `Impatient = {reader}`: ImplementsFeed |
| iostream.lua:350 | prepend moves the residual of the front stage only: a ZON after HSND, while the counted stage is in front, leaves deflated bytes in the line stage; hub.lua:1286 says they are re-routed | pipeline with `LateZon = TRUE`: ImplementsStream |
| hub.lua:1861 | SIGTERM without cmd_shutdown loaded: the hub closes its servers once and nothing ends the loop; docs/CHANGELOG:1025 gives SIGTERM as the way to terminate it | process with `Optional = {"shutdown"}`: ExitHonoured, ClosedHubEnds |
| http_client.lua:598 | on Windows the `.bak` a crash left behind is removed before the next download is in place: a second fault loses the last good file | httpclient with 3 requests and `MaxFaults = 2`: FilesSafe |
| http_client.lua:119, :388 | only Authorization, Cookie and Proxy-Authorization are dropped on the way to another origin: a credential in a custom header survives the hop, and method and body are sent again. The comment there says so, and asks callers not to combine them with `max_redirects` | httpclient with SensitiveHeadersStay stated for all of `Headers` |
| ratelimit.lua:416 | a bucket that needs more than 300 s to refill is dropped full | RateAssumption fails |

## What is only model-checked

Liveness (ParkedLeaves, ShutdownDrains, IdleIsClosed, WaitersResolved, ExitHonoured,
Answered, and the liveness part of ImplementsLifecycle and ImplementsStream) is out of
the prover's reach, as is anything under ENABLED.

## Not modelled

The hub's own logic is the Lua in core/ and scripts/; of the C and C++ in the
repository hub.c is the hub's, and adclib, zlib_stream and the changed parts of
luasocket are small. The rest is the Lua interpreter, LuaSocket and LuaSec, taken
over from their authors: the modules rely on what they promise (a `pairs` that is
undefined when its table grows, a `select` that returns, a rename that is atomic)
and do not describe how they do it. Modelled of C are hub.c, the receive buffer and
the collection of readable sockets in luasocket, and `inflate_push`.

- *Configuration, language files*: a table of checked settings. Modules take what
  they need as constants, or as something that changes where the code reads it again
  (the size of the event ring, the cap of the idempotency store, the plugins).
- *At-rest encryption*: to UserStore a file that cannot be opened is a lost file.
- *Block and white lists*: add, remove and replace change a table, save it and undo
  the change if the write was refused, within one handler. Matching of addresses is
  conversion of data.
- *Backup and restore*: a restore runs by itself before any hub exists, which is
  OneInstance; what it does to the files is one sequential pass with a roll-back.
- *GeoIP, CA bundle*: their downloads are those of HttpClient.
- *Audit log, certificates, secrets, utilities*: appends, steps at start, helpers.
- *ADC parser, bloom filter, hashes, JSON*: conversion of data. The modules take the
  verdict (a frame that parses, a password that matches) as a choice.
- *HTTP routing, tokens, filters*: read-only look-ups in front of the handlers that
  are modelled.
- *Relaying of messages*: stateless but for the send queues, which are ServerLoop's.
- *A product of ServerLoop and HubSessions*: ConnLifecycle is the interface between
  them (a connection is reported once, after it was closed), ServerLoop implements
  it, and HubSessions is written against it: `ServerClose` leaves the user until
  `FinishClose`. The product has no step that neither of them has.
- *Timers of the process across a reload*: POST /v1/reload in the middle of a
  countdown forgets the countdown. HubProcess has that step; that nobody is told is
  not a property.

Hazards without a property: the clean-up of ratelimit.lua:410 for settings outside
`RateAssumption`; a handler that raises half-way (http_router.lua:866); the wait
after wrong passwords, which is counted from the last login that succeeded
(hub_dispatch.lua:603), since UserStore has no times.
