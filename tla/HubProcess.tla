----------------------------- MODULE HubProcess -----------------------------
(***************************************************************************)
(* The life of hub processes in one installation: the launcher (hub/hub.c),*)
(* which takes the lock, becomes a daemon, restores a backup, runs Lua and *)
(* runs it again after a restart; the loop of the hub (hub.loop, init.lua);*)
(* and the plugins cmd_shutdown and cmd_restart, without which it does not *)
(* end.  Signals, crashes and second starts come at any time.              *)
(*                                                                         *)
(* Of the loop only what starts and ends it is modelled: the end of a tick,*)
(* the timers of the two plugins (due at any time after they were armed)   *)
(* and reloads, which forget the timers.  The installation can be written  *)
(* to: without a lock file the guard is off, and that case is left out.    *)
(***************************************************************************)
EXTENDS Integers, FiniteSets

CONSTANTS
    MaxPid,         \* processes that may be started: the bound
    Optional        \* those of the two plugins the operator may switch off

Both == {"shutdown", "restart"}

ASSUME ProcessAssumption == Optional \subseteq Both /\ MaxPid \in Nat

\* Numbers are given out in turn, and not again.
Pids == 1..MaxPid
None == 0

VARIABLES
    pc,             \* where each process is
    mode,           \* how it was called: "hub", "daemon" (-d), "restore"
    lock,           \* processes that hold the lock file's description open
    lockPid,        \* the number in it
    doExit,         \* do_exit, per process
    hub             \* the state of its Lua hub

vars == <<pc, mode, lock, lockPid, doExit, hub>>

\* The hub of a fresh Lua state, with these plugins.
NewHub(plugins) ==
    [signal |-> "run",      \* signal "hub"
     asked |-> FALSE,       \* signal "external_exit_request"
     open |-> TRUE,         \* its servers listen (hub.shutdown not called yet)
     fresh |-> TRUE,        \* no tick has ended: nobody can have logged in
     plugins |-> plugins,   \* which of the two are loaded
     busy |-> {},           \* in_progress of the two
     counting |-> {},       \* countdown timers
     armed |-> {}]          \* do_exit timers

Hubs == [signal : {"run", "restart", "exit"}, asked : BOOLEAN, open : BOOLEAN,
         fresh : BOOLEAN, plugins : SUBSET Both, busy : SUBSET Both,
         counting : SUBSET Both, armed : SUBSET Both]

TypeOK ==
    /\ pc \in [Pids -> {"none", "exec", "main", "locked", "parent", "ready", "boot",
                        "restore", "run", "closing", "dead"}]
    /\ mode \in [Pids -> {"hub", "daemon", "restore"}]
    /\ lock \subseteq Pids /\ lockPid \in Pids \cup {None}
    /\ doExit \in [Pids -> BOOLEAN] /\ hub \in [Pids -> Hubs]

Goes(p, from, to) == pc[p] = from /\ pc' = [pc EXCEPT ![p] = to]
Plugins == {Both \ off : off \in SUBSET Optional}

----------------------------------------------------------------------------
(* The launcher.  A process that ends gives up the lock and its memory. *)

Exit(p, from) ==
    /\ Goes(p, from, "dead")
    /\ lock' = lock \ {p}
    /\ mode' = [mode EXCEPT ![p] = "hub"]
    /\ doExit' = [doExit EXCEPT ![p] = FALSE]
    /\ hub' = [hub EXCEPT ![p] = NewHub({})]
    /\ UNCHANGED lockPid

Fresh(p) == pc[p] = "none" /\ \A q \in 1..(p - 1) : pc[q] # "none"

Start(p, how) ==
    /\ Fresh(p) /\ Goes(p, "none", "exec")
    /\ mode' = [mode EXCEPT ![p] = how]
    /\ UNCHANGED <<lock, lockPid, doExit, hub>>

\* handle_signals, handle_args.
HandleSignals(p) ==
    /\ Goes(p, "exec", "main")
    /\ UNCHANGED <<mode, lock, lockPid, doExit, hub>>

\* SIGTERM and the like: by default the end, once handled a flag.
Signal(p) ==
    \/ Exit(p, "exec")
    \/ /\ pc[p] \notin {"none", "exec", "dead"}
       /\ doExit' = [doExit EXCEPT ![p] = TRUE]
       /\ UNCHANGED <<pc, mode, lock, lockPid, hub>>

\* flock(LOCK_EX | LOCK_NB) on a description of one's own.
LockFree == lock = {}

\* acquire_single_instance_lock: got it, or held by another.
AcquireLock(p) ==
    \/ /\ LockFree /\ Goes(p, "main", "locked")
       /\ lock' = lock \cup {p}
       /\ UNCHANGED <<mode, lockPid, doExit, hub>>
    \/ ~LockFree /\ Exit(p, "main")

RunRestore(p) ==
    /\ mode[p] = "restore" /\ Goes(p, "locked", "restore")
    /\ UNCHANGED <<mode, lock, lockPid, doExit, hub>>

Foreground(p) ==
    /\ mode[p] = "hub" /\ Goes(p, "locked", "ready")
    /\ UNCHANGED <<mode, lock, lockPid, doExit, hub>>

\* Variant: the child has to take a lock of its own (fcntl locks).
ForkWithoutLock(p, q) == lock

\* fork: the child shares the description.
ForkShares(p, q) == lock \cup {q}

\* daemonize: the child goes on, the parent will exit.
Daemonize(p, q) ==
    /\ mode[p] = "daemon" /\ pc[p] = "locked" /\ Fresh(q)
    /\ pc' = [pc EXCEPT ![p] = "parent", ![q] = "ready"]
    /\ mode' = [mode EXCEPT ![q] = "daemon"]
    /\ doExit' = [doExit EXCEPT ![q] = doExit[p]]
    /\ lock' = ForkShares(p, q)
    /\ UNCHANGED <<lockPid, hub>>

ForkFails(p) == mode[p] = "daemon" /\ Exit(p, "locked")

\* write_lock_pid.
PidWritten(p) == p

WriteLockPid(p) ==
    /\ Goes(p, "ready", "boot")
    /\ lockPid' = PidWritten(p)
    /\ UNCHANGED <<mode, lock, doExit, hub>>

\* Variant: run_lua starts with a clean flag.
ExitForgotten(p) == [doExit EXCEPT ![p] = FALSE]

\* The flag outlives the Lua state.
ExitKept(p) == doExit

\* run_lua and init.lua: the hub of a new Lua state.
RunLua(p) ==
    /\ Goes(p, "boot", "run")
    /\ \E plugins \in Plugins : hub' = [hub EXCEPT ![p] = NewHub(plugins)]
    /\ doExit' = ExitKept(p)
    /\ UNCHANGED <<mode, lock, lockPid>>

\* restart: the Lua state is closed, and run_lua registered with atexit, to run once
\* more; or that fails.
RestartLua(p) ==
    /\ hub[p].signal = "restart"
    /\ \/ /\ Goes(p, "closing", "boot")
          /\ hub' = [hub EXCEPT ![p] = NewHub({})]
          /\ UNCHANGED <<mode, lock, lockPid, doExit>>
       \/ Exit(p, "closing")

\* The end of main: a restore is done, a parent has its child, the loop has ended
\* for good.
End(p) ==
    \/ Exit(p, "restore") \/ Exit(p, "parent")
    \/ hub[p].signal # "restart" /\ Exit(p, "closing")

\* A failed malloc, boot or tick, SIGKILL.
Crash(p) == pc[p] \notin {"none", "dead"} /\ Exit(p, pc[p])

----------------------------------------------------------------------------
(* The hub. *)

Sets(p, h) ==
    /\ hub' = [hub EXCEPT ![p] = h]
    /\ UNCHANGED <<pc, mode, lock, lockPid>>

Runs(p) == pc[p] = "run" /\ hub[p].signal = "run"

\* Commands come from people who are logged in and over HTTP; hub.shutdown closes
\* all connections.
Serves(p) == Runs(p) /\ hub[p].open /\ ~hub[p].fresh

\* cmd_restart: do_exit closes the servers and leaves a timer.
Arm(h, what) == [h EXCEPT !.open = FALSE, !.armed = @ \cup {what}]

\* +shutdown and POST /v1/shutdown: a countdown, or requestexit at once.
Shutdown(p) ==
    /\ Serves(p) /\ "shutdown" \in hub[p].plugins \ hub[p].busy
    /\ LET h == [hub[p] EXCEPT !.busy = @ \cup {"shutdown"}] IN
       \/ Sets(p, [h EXCEPT !.counting = @ \cup {"shutdown"}]) /\ UNCHANGED doExit
       \/ Sets(p, h) /\ doExit' = [doExit EXCEPT ![p] = TRUE]

\* +restart and POST /v1/restart.
Restart(p) ==
    /\ Serves(p) /\ "restart" \in hub[p].plugins \ hub[p].busy
    /\ LET h == [hub[p] EXCEPT !.busy = @ \cup {"restart"}] IN
       \/ Sets(p, [h EXCEPT !.counting = @ \cup {"restart"}])
       \/ Sets(p, Arm(h, "restart"))
    /\ UNCHANGED doExit

\* POST /v1/reload, +reload: the plugins are loaded anew, their timers are gone.
Reload(p) ==
    /\ Serves(p)
    /\ \E plugins \in Plugins :
        Sets(p, [hub[p] EXCEPT !.plugins = plugins, !.busy = {}, !.counting = {},
                               !.armed = {}])
    /\ UNCHANGED doExit

\* A countdown is at zero: cmd_restart arms its timer, cmd_shutdown requests the
\* exit.
CountdownEnds(p) ==
    /\ Runs(p)
    /\ \/ /\ "restart" \in hub[p].counting
          /\ Sets(p, Arm([hub[p] EXCEPT !.counting = @ \ {"restart"}], "restart"))
          /\ UNCHANGED doExit
       \/ /\ "shutdown" \in hub[p].counting
          /\ Sets(p, [hub[p] EXCEPT !.counting = @ \ {"shutdown"}])
          /\ doExit' = [doExit EXCEPT ![p] = TRUE]

\* hub.exit or hub.restart, from the timer.  The walk over the timers goes on: the
\* other one may be due in the same tick.
TimerDue(p) ==
    /\ pc[p] = "run"
    /\ \E what \in hub[p].armed :
        Sets(p, [hub[p] EXCEPT !.armed = @ \ {what},
                    !.signal = IF what = "shutdown" THEN "exit" ELSE "restart"])
    /\ UNCHANGED doExit

\* Variant: onShutdown is fired before the plugin that answers it is asked.
OnShutdownUnarmed(h) == [h EXCEPT !.open = FALSE]

\* onShutdown: cmd_shutdown closes the servers and leaves a timer; without it
\* shutdown() closes the servers.
OnShutdown(h) ==
    IF "shutdown" \in h.plugins THEN Arm(h, "shutdown") ELSE [h EXCEPT !.open = FALSE]

\* The end of a tick: a requested exit is seen once per Lua state, the loop ends
\* when the signal is no longer "run".
EndTick(p) ==
    /\ pc[p] = "run"
    /\ LET h == IF doExit[p] /\ ~hub[p].asked
                THEN [OnShutdown(hub[p]) EXCEPT !.asked = TRUE] ELSE hub[p] IN
       hub' = [hub EXCEPT ![p] = [h EXCEPT !.fresh = FALSE]]
    /\ pc' = IF hub[p].signal = "run" THEN pc ELSE [pc EXCEPT ![p] = "closing"]
    /\ UNCHANGED <<mode, lock, lockPid, doExit>>

----------------------------------------------------------------------------
Init ==
    /\ pc = [p \in Pids |-> "none"] /\ mode = [p \in Pids |-> "hub"]
    /\ lock = {} /\ lockPid = None
    /\ doExit = [p \in Pids |-> FALSE] /\ hub = [p \in Pids |-> NewHub({})]

Launch(p) ==
    \/ HandleSignals(p) \/ AcquireLock(p) \/ RunRestore(p) \/ Foreground(p)
    \/ ForkFails(p) \/ \E q \in Pids : Daemonize(p, q)
    \/ WriteLockPid(p) \/ RunLua(p) \/ RestartLua(p) \/ End(p)

Timers(p) == CountdownEnds(p) \/ TimerDue(p)

Next == \E p \in Pids :
    \/ \E how \in {"hub", "daemon", "restore"} : Start(p, how)
    \/ Launch(p) \/ Signal(p) \/ Crash(p)
    \/ Shutdown(p) \/ Restart(p) \/ Reload(p) \/ Timers(p) \/ EndTick(p)

\* A process runs on, the loop ticks and its timers are called.
Spec ==
    /\ Init /\ [][Next]_vars
    /\ \A p \in Pids : WF_vars(Launch(p)) /\ WF_vars(Timers(p)) /\ WF_vars(EndTick(p))

----------------------------------------------------------------------------
Works(p) == pc[p] \in {"boot", "restore", "run", "closing"}

\* One process at a time works on the files of an installation: hubs in the
\* foreground, daemons, restarting ones and a restore exclude each other (hub.c at
\* the lock).  The lock file names the hub that runs, not its parent or one before.
OneInstance ==
    /\ \A p, q \in Pids : Works(p) /\ Works(q) => p = q
    /\ \A p \in Pids : Works(p) /\ mode[p] # "restore" => lockPid = p

\* A hub that has closed its servers has a timer that ends it: commands, signals and
\* reloads in any order do not leave one that holds the lock and serves nobody.
ClosedHubEnds ==
    \A p \in Pids : pc[p] = "run" /\ ~hub[p].open =>
        hub[p].armed # {} \/ hub[p].signal # "run"

\* A process that was told to exit ends, also when the signal comes while it is
\* started or restarted, or while a restart is counted down (docs/CHANGELOG:1025).
ExitHonoured ==
    \A p \in Pids : doExit[p] ~> pc[p] = "dead"
=============================================================================
