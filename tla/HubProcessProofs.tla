-------------------------- MODULE HubProcessProofs --------------------------
(***************************************************************************)
(* Proofs about HubProcess, for any number of processes: the hubs of an    *)
(* installation exclude each other, and one that closed its servers ends.  *)
(* And about the plugins such a process runs (PluginChain), for any plugins*)
(* and listeners: who sees an event, and what a reload leaves behind.      *)
(***************************************************************************)
EXTENDS HubProcess, PluginChain, FiniteSetTheorems, SequenceTheorems, TLAPS

----------------------------------------------------------------------------
(* The inductive invariant. *)

\* Where a process holds the description of the lock file.
Holding == {"locked", "parent", "ready", "boot", "restore", "run", "closing"}

\* The lock is held where the program says so.
LockShape == \A p \in Pids : p \in lock <=> pc[p] \in Holding

\* Of those who hold it, all but one are parents that wait for their end.
Exclusive ==
    \A p, q \in Pids :
        p \in lock /\ q \in lock /\ pc[p] # "parent" /\ pc[q] # "parent" => p = q

\* A hub has written its number, and nobody after it.
PidShape == \A p \in Pids : pc[p] \in {"boot", "run", "closing"} => lockPid = p

RestoreShape == \A p \in Pids : pc[p] = "restore" => mode[p] = "restore"

LockInv == TypeOK /\ LockShape /\ Exclusive /\ PidShape /\ RestoreShape

\* The plugins the operator may not switch off are loaded.
PluginShape == \A p \in Pids : pc[p] = "run" => Both \ Optional \subseteq hub[p].plugins

EndInv == TypeOK /\ PluginShape /\ ClosedHubEnds

----------------------------------------------------------------------------
LEMMA PluginsType == \A plugins \in Plugins : plugins \in SUBSET Both /\ Both \ Optional \subseteq plugins
BY DEF Plugins

LEMMA NewHubType ==
    ASSUME NEW plugins \in SUBSET Both
    PROVE  NewHub(plugins) \in Hubs
BY DEF NewHub, Hubs

LEMMA ArmType ==
    ASSUME NEW h \in Hubs, NEW what \in Both
    PROVE  /\ Arm(h, what) \in Hubs
           /\ Arm(h, what).armed # {}
           /\ Arm(h, what).plugins = h.plugins
           /\ Arm(h, what).signal = h.signal
BY DEF Arm, Hubs

LEMMA OnShutdownType ==
    ASSUME NEW h \in Hubs
    PROVE  /\ OnShutdown(h) \in Hubs
           /\ OnShutdown(h).plugins = h.plugins
           /\ OnShutdown(h).signal = h.signal
           /\ "shutdown" \in h.plugins => OnShutdown(h).armed # {}
BY ArmType DEF OnShutdown, Hubs, Both

----------------------------------------------------------------------------
(* What the steps of the Lua hub are to the launcher. *)

\* A step of the hub: only its Lua state and the exit flag, until the loop ends.
HubOnly(p) ==
    /\ pc[p] = "run" /\ UNCHANGED <<mode, lock, lockPid>>
    /\ pc' = pc \/ pc' = [pc EXCEPT ![p] = "closing"]

HubStep(p) == Shutdown(p) \/ Restart(p) \/ Reload(p) \/ Timers(p) \/ EndTick(p)

LEMMA HubStepIsHubOnly == \A p \in Pids : HubStep(p) => HubOnly(p)
BY DEF HubStep, HubOnly, Shutdown, Restart, Reload, Timers, CountdownEnds, TimerDue,
       EndTick, Serves, Runs, Sets

----------------------------------------------------------------------------
(* Types. *)

\* A process that ends.
LEMMA ExitType ==
    ASSUME TypeOK, NEW p \in Pids, NEW from, Exit(p, from)
    PROVE  TypeOK'
BY NewHubType DEF Exit, Goes, TypeOK, Both

\* The steps of the launcher.
LEMMA LaunchType ==
    ASSUME TypeOK, NEW p \in Pids, Launch(p)
    PROVE  TypeOK'
<1>1. CASE HandleSignals(p)
  BY <1>1 DEF HandleSignals, Goes, TypeOK
<1>2. CASE AcquireLock(p)
  BY <1>2, ExitType DEF AcquireLock, Goes, TypeOK
<1>3. CASE RunRestore(p)
  BY <1>3 DEF RunRestore, Goes, TypeOK
<1>4. CASE Foreground(p)
  BY <1>4 DEF Foreground, Goes, TypeOK
<1>5. CASE ForkFails(p)
  BY <1>5, ExitType DEF ForkFails
<1>6. ASSUME NEW q \in Pids, Daemonize(p, q) PROVE TypeOK'
  BY <1>6 DEF Daemonize, ForkShares, TypeOK
<1>7. CASE WriteLockPid(p)
  BY <1>7 DEF WriteLockPid, PidWritten, Goes, TypeOK
<1>8. CASE RunLua(p)
  <2>1. PICK plugins \in Plugins : hub' = [hub EXCEPT ![p] = NewHub(plugins)]
    BY <1>8 DEF RunLua
  <2>2. NewHub(plugins) \in Hubs
    BY <2>1, PluginsType, NewHubType
  <2> QED BY <1>8, <2>1, <2>2 DEF RunLua, ExitKept, Goes, TypeOK
<1>9. CASE RestartLua(p)
  <2>1. NewHub({}) \in Hubs
    BY NewHubType
  <2> QED BY <1>9, <2>1, ExitType DEF RestartLua, Goes, TypeOK
<1>10. CASE End(p)
  BY <1>10, ExitType DEF End
<1> QED BY <1>1, <1>2, <1>3, <1>4, <1>5, <1>6, <1>7, <1>8, <1>9, <1>10 DEF Launch

\* The steps of the hub.
LEMMA HubStepType ==
    ASSUME TypeOK, NEW p \in Pids, HubStep(p)
    PROVE  TypeOK'
<1> USE DEF TypeOK
<1>0. hub[p] \in Hubs
  OBVIOUS
<1>1. ASSUME NEW h \in Hubs, Sets(p, h), doExit' \in [Pids -> BOOLEAN] PROVE TypeOK'
  BY <1>1 DEF Sets
<1>2. CASE Shutdown(p)
  <2>1. [hub[p] EXCEPT !.busy = @ \cup {"shutdown"}] \in Hubs
    BY <1>0 DEF Hubs, Both
  <2>2. [[hub[p] EXCEPT !.busy = @ \cup {"shutdown"}]
            EXCEPT !.counting = @ \cup {"shutdown"}] \in Hubs
    BY <2>1 DEF Hubs, Both
  <2> QED BY <1>1, <1>2, <2>1, <2>2 DEF Shutdown
<1>3. CASE Restart(p)
  <2>1. [hub[p] EXCEPT !.busy = @ \cup {"restart"}] \in Hubs
    BY <1>0 DEF Hubs, Both
  <2>2. [[hub[p] EXCEPT !.busy = @ \cup {"restart"}]
            EXCEPT !.counting = @ \cup {"restart"}] \in Hubs
    BY <2>1 DEF Hubs, Both
  <2>3. Arm([hub[p] EXCEPT !.busy = @ \cup {"restart"}], "restart") \in Hubs
    BY <2>1, ArmType DEF Both
  <2> QED BY <1>1, <1>3, <2>2, <2>3 DEF Restart
<1>4. CASE Reload(p)
  <2>1. PICK plugins \in Plugins :
            Sets(p, [hub[p] EXCEPT !.plugins = plugins, !.busy = {}, !.counting = {},
                                   !.armed = {}])
    BY <1>4 DEF Reload
  <2>2. [hub[p] EXCEPT !.plugins = plugins, !.busy = {}, !.counting = {},
                       !.armed = {}] \in Hubs
    BY <1>0, <2>1, PluginsType DEF Hubs
  <2> QED BY <1>1, <1>4, <2>1, <2>2 DEF Reload
<1>5. CASE CountdownEnds(p)
  <2>1. /\ [hub[p] EXCEPT !.counting = @ \ {"restart"}] \in Hubs
        /\ [hub[p] EXCEPT !.counting = @ \ {"shutdown"}] \in Hubs
    BY <1>0 DEF Hubs
  <2>2. Arm([hub[p] EXCEPT !.counting = @ \ {"restart"}], "restart") \in Hubs
    BY <2>1, ArmType DEF Both
  <2> QED BY <1>1, <1>5, <2>1, <2>2 DEF CountdownEnds
<1>6. CASE TimerDue(p)
  <2>1. PICK what \in hub[p].armed :
            Sets(p, [hub[p] EXCEPT !.armed = @ \ {what},
                        !.signal = IF what = "shutdown" THEN "exit" ELSE "restart"])
    BY <1>6 DEF TimerDue
  <2>2. [hub[p] EXCEPT !.armed = @ \ {what},
            !.signal = IF what = "shutdown" THEN "exit" ELSE "restart"] \in Hubs
    BY <1>0 DEF Hubs
  <2> QED BY <1>1, <1>6, <2>1, <2>2 DEF TimerDue
<1>7. CASE EndTick(p)
  <2> DEFINE h == IF doExit[p] /\ ~hub[p].asked
                  THEN [OnShutdown(hub[p]) EXCEPT !.asked = TRUE] ELSE hub[p]
  <2>1. OnShutdown(hub[p]) \in Hubs
    BY <1>0, OnShutdownType
  <2>2. h \in Hubs
    BY <1>0, <2>1 DEF Hubs
  <2>3. [h EXCEPT !.fresh = FALSE] \in Hubs
    BY <2>2 DEF Hubs
  <2>4. hub' = [hub EXCEPT ![p] = [h EXCEPT !.fresh = FALSE]]
    BY <1>7 DEF EndTick
  <2> HIDE DEF h
  <2> QED BY <1>7, <2>3, <2>4 DEF EndTick
<1> QED BY <1>2, <1>3, <1>4, <1>5, <1>6, <1>7 DEF HubStep, Timers

LEMMA TypeStep ==
    ASSUME TypeOK, [Next]_vars
    PROVE  TypeOK'
<1>1. CASE UNCHANGED vars
  BY <1>1 DEF vars, TypeOK
<1>2. ASSUME NEW p \in Pids, NEW how \in {"hub", "daemon", "restore"}, Start(p, how)
      PROVE  TypeOK'
  BY <1>2 DEF Start, Goes, TypeOK
<1>3. ASSUME NEW p \in Pids, Signal(p) PROVE TypeOK'
  BY <1>3, ExitType DEF Signal, TypeOK
<1>4. ASSUME NEW p \in Pids, Crash(p) PROVE TypeOK'
  BY <1>4, ExitType DEF Crash
<1> QED BY <1>1, <1>2, <1>3, <1>4, LaunchType, HubStepType DEF Next, HubStep

LEMMA TypeInit == Init => TypeOK
BY NewHubType DEF Init, TypeOK

\* The state of every process has its type.
THEOREM TypeCorrect == Spec => []TypeOK
BY TypeInit, TypeStep, PTL DEF Spec

----------------------------------------------------------------------------
(* One instance. *)

\* A process that ends leaves the lock to the others.
LEMMA ExitLock ==
    ASSUME LockInv, NEW p \in Pids, NEW from, Exit(p, from)
    PROVE  LockInv'
<1>1. TypeOK'
  BY ExitType DEF LockInv
<1>2. \A q \in Pids \ {p} : pc'[q] = pc[q] /\ mode'[q] = mode[q] /\ (q \in lock' <=> q \in lock)
  BY DEF Exit, Goes, LockInv, TypeOK
<1>3. pc'[p] = "dead" /\ p \notin lock' /\ lockPid' = lockPid
  BY DEF Exit, Goes, LockInv, TypeOK
<1> QED BY <1>1, <1>2, <1>3 DEF LockInv, LockShape, Exclusive, PidShape, RestoreShape, Holding

\* A process that goes from one place to another, keeping what it holds.
Moves(p) ==
    /\ lock' = lock /\ mode' = mode
    /\ \A q \in Pids \ {p} : pc'[q] = pc[q]
    /\ pc[p] \in Holding \ {"parent"} <=> pc'[p] \in Holding \ {"parent"}
    /\ pc[p] = "parent" <=> pc'[p] = "parent"
    /\ pc'[p] \in {"boot", "run", "closing"} => lockPid' = p
    /\ pc'[p] = "restore" => mode[p] = "restore"
    /\ lockPid' # lockPid => pc[p] \in Holding \ {"parent"}

LEMMA MovesLock ==
    ASSUME LockInv, TypeOK', NEW p \in Pids, Moves(p)
    PROVE  LockInv'
<1>1. \A q \in Pids : pc'[q] \in Holding <=> pc[q] \in Holding
  BY DEF Moves, Holding
<1>2. \A q \in Pids : pc'[q] = "parent" <=> pc[q] = "parent"
  BY DEF Moves
<1>3. LockShape' /\ Exclusive'
  BY <1>1, <1>2 DEF Moves, LockInv, LockShape, Exclusive
<1>4. ASSUME NEW q \in Pids, pc'[q] \in {"boot", "run", "closing"} PROVE lockPid' = q
  <2>1. CASE q = p
    BY <1>4, <2>1 DEF Moves
  <2>2. CASE q # p /\ lockPid' = lockPid
    BY <1>4, <2>2 DEF Moves, LockInv, PidShape
  <2>3. CASE q # p /\ lockPid' # lockPid
    <3>1. p \in lock /\ q \in lock /\ pc[p] # "parent" /\ pc[q] # "parent"
      BY <1>4, <2>3 DEF Moves, LockInv, LockShape, Holding
    <3> QED BY <3>1, <2>3 DEF LockInv, Exclusive
  <2> QED BY <2>1, <2>2, <2>3
<1>5. RestoreShape'
  BY DEF Moves, LockInv, RestoreShape
<1> QED BY <1>3, <1>4, <1>5 DEF LockInv, PidShape

\* A free lock is taken by one.
LEMMA AcquireLockStep ==
    ASSUME LockInv, NEW p \in Pids, AcquireLock(p)
    PROVE  LockInv'
<1>1. CASE LockFree /\ Goes(p, "main", "locked") /\ lock' = lock \cup {p}
           /\ UNCHANGED <<mode, lockPid, doExit, hub>>
  <2>1. TypeOK'
    BY <1>1 DEF LockInv, TypeOK, Goes
  <2>2. lock' = {p} /\ pc'[p] = "locked" /\ \A q \in Pids \ {p} : pc'[q] = pc[q]
    BY <1>1 DEF LockFree, Goes, LockInv, TypeOK
  <2>3. \A q \in Pids : pc[q] \notin Holding
    BY <1>1 DEF LockFree, LockInv, LockShape
  <2> QED BY <1>1, <2>1, <2>2, <2>3
       DEF LockInv, LockShape, Exclusive, PidShape, RestoreShape, Holding
<1> QED BY <1>1, ExitLock DEF AcquireLock

\* A daemon takes its parent's place.
LEMMA DaemonizeStep ==
    ASSUME LockInv, NEW p \in Pids, NEW q \in Pids, Daemonize(p, q)
    PROVE  LockInv'
<1>1. TypeOK'
  BY DEF LockInv, TypeOK, Daemonize, ForkShares
<1>2. p # q /\ pc[p] = "locked" /\ pc[q] = "none"
  BY DEF Daemonize, Fresh
<1>3. pc'[p] = "parent" /\ pc'[q] = "ready" /\ lock' = lock \cup {q} /\ lockPid' = lockPid
  BY <1>2 DEF LockInv, TypeOK, Daemonize, ForkShares
<1>4. \A r \in Pids \ {p, q} : pc'[r] = pc[r] /\ mode'[r] = mode[r]
  BY DEF LockInv, TypeOK, Daemonize
<1>5. \A r \in Pids \ {p} : r \in lock => pc[r] = "parent"
  BY <1>2 DEF LockInv, LockShape, Exclusive, Holding
<1> QED BY <1>1, <1>2, <1>3, <1>4, <1>5
     DEF LockInv, LockShape, Exclusive, PidShape, RestoreShape, Holding

LEMMA LockLaunch ==
    ASSUME LockInv, NEW p \in Pids, Launch(p)
    PROVE  LockInv'
<1> USE DEF LockInv, TypeOK, Goes, Moves, Holding
<1>0. TypeOK'
  BY LaunchType DEF LockInv
<1>1. CASE HandleSignals(p)
  <2>1. Moves(p)
    BY <1>1 DEF HandleSignals
  <2> QED BY <1>0, <2>1, MovesLock
<1>2. CASE RunRestore(p)
  <2>1. Moves(p)
    BY <1>2 DEF RunRestore
  <2> QED BY <1>0, <2>1, MovesLock
<1>3. CASE Foreground(p)
  <2>1. Moves(p)
    BY <1>3 DEF Foreground
  <2> QED BY <1>0, <2>1, MovesLock
<1>4. CASE WriteLockPid(p)
  <2>1. Moves(p)
    BY <1>4 DEF WriteLockPid, PidWritten
  <2> QED BY <1>0, <2>1, MovesLock
<1>5. CASE RunLua(p)
  <2>1. Moves(p)
    BY <1>5 DEF RunLua, PidShape
  <2> QED BY <1>0, <2>1, MovesLock
<1>6. CASE RestartLua(p)
  <2>1. ASSUME Goes(p, "closing", "boot"), UNCHANGED <<mode, lock, lockPid, doExit>>
        PROVE  LockInv'
    <3>1. Moves(p)
      BY <2>1 DEF PidShape
    <3> QED BY <1>0, <3>1, MovesLock
  <2> QED BY <1>6, <2>1, ExitLock DEF RestartLua
<1> QED BY <1>1, <1>2, <1>3, <1>4, <1>5, <1>6, AcquireLockStep, DaemonizeStep, ExitLock
     DEF Launch, ForkFails, End

LEMMA LockStep ==
    ASSUME LockInv, [Next]_vars
    PROVE  LockInv'
<1>0. TypeOK'
  BY TypeStep DEF LockInv
<1>1. CASE UNCHANGED vars
  BY <1>0, <1>1 DEF vars, LockInv, LockShape, Exclusive, PidShape, RestoreShape
<1>2. ASSUME NEW p \in Pids, NEW how \in {"hub", "daemon", "restore"}, Start(p, how)
      PROVE  LockInv'
  <2>1. /\ pc[p] = "none" /\ pc'[p] = "exec" /\ lock' = lock /\ lockPid' = lockPid
        /\ \A q \in Pids \ {p} : pc'[q] = pc[q] /\ mode'[q] = mode[q]
    BY <1>2 DEF Start, Goes, LockInv, TypeOK
  <2> QED BY <1>0, <2>1
       DEF LockInv, LockShape, Exclusive, PidShape, RestoreShape, Holding
<1>3. ASSUME NEW p \in Pids, Signal(p) PROVE LockInv'
  <2>1. CASE Exit(p, "exec")
    BY <2>1, ExitLock
  <2>2. CASE UNCHANGED <<pc, mode, lock, lockPid>>
    BY <1>0, <2>2 DEF LockInv, LockShape, Exclusive, PidShape, RestoreShape
  <2> QED BY <1>3, <2>1, <2>2 DEF Signal
<1>4. ASSUME NEW p \in Pids, Crash(p) PROVE LockInv'
  BY <1>4, ExitLock DEF Crash
<1>5. ASSUME NEW p \in Pids, HubStep(p) PROVE LockInv'
  <2>1. HubOnly(p)
    BY <1>5, HubStepIsHubOnly
  <2>2. Moves(p)
    BY <2>1 DEF HubOnly, Moves, LockInv, TypeOK, PidShape, Holding
  <2> QED BY <1>0, <2>2, MovesLock
<1> QED BY <1>1, <1>2, <1>3, <1>4, <1>5, LockLaunch DEF Next, HubStep

LEMMA LockInit == Init => LockInv
BY TypeInit DEF Init, LockInv, LockShape, Exclusive, PidShape, RestoreShape, Holding

LEMMA LockInvCorrect == Spec => []LockInv
BY LockInit, LockStep, PTL DEF Spec

LEMMA LockInvOneInstance == LockInv => OneInstance
<1> SUFFICES ASSUME LockInv PROVE OneInstance
  OBVIOUS
<1>1. \A p \in Pids : Works(p) => p \in lock /\ pc[p] # "parent"
  BY DEF Works, LockInv, LockShape, Holding
<1>2. \A p, q \in Pids : Works(p) /\ Works(q) => p = q
  BY <1>1 DEF LockInv, Exclusive
<1>3. \A p \in Pids : Works(p) /\ mode[p] # "restore" => lockPid = p
  BY DEF Works, LockInv, PidShape, RestoreShape
<1> QED BY <1>2, <1>3 DEF OneInstance

\* One process at a time works on the files of an installation, and the lock file
\* names it: for any number of starts, forks, signals and crashes.
THEOREM OneInstanceCorrect == Spec => []OneInstance
BY LockInvCorrect, LockInvOneInstance, PTL

----------------------------------------------------------------------------
(* A hub that closed its servers ends. *)

\* What a step leaves to show of the process it is about.
EndsWell(p) ==
    pc'[p] = "run" =>
        /\ Both \ Optional \subseteq hub'[p].plugins
        /\ ~hub'[p].open => hub'[p].armed # {} \/ hub'[p].signal # "run"

LEMMA EndsWellStep ==
    ASSUME EndInv, TypeOK', NEW p \in Pids, EndsWell(p),
           \A q \in Pids \ {p} : pc'[q] = "run" => pc[q] = "run" /\ hub'[q] = hub[q]
    PROVE  EndInv'
BY DEF EndInv, PluginShape, ClosedHubEnds, EndsWell

\* A launcher's step starts a Lua state anew or leaves it alone.
LEMMA LaunchEnds ==
    ASSUME EndInv, NEW p \in Pids, Launch(p)
    PROVE  EndInv'
<1> USE DEF EndInv, TypeOK, Goes, EndsWell
<1>0. TypeOK'
  BY LaunchType
<1>1. ASSUME NEW q \in Pids, Daemonize(p, q) PROVE EndInv'
  BY <1>0, <1>1 DEF Daemonize, PluginShape, ClosedHubEnds
<1>2. CASE RunLua(p)
  <2>1. PICK plugins \in Plugins : hub' = [hub EXCEPT ![p] = NewHub(plugins)]
    BY <1>2 DEF RunLua
  <2>2. hub'[p] = NewHub(plugins) /\ Both \ Optional \subseteq plugins
    BY <2>1, PluginsType
  <2>3. NewHub(plugins).plugins = plugins /\ NewHub(plugins).open
    BY DEF NewHub
  <2>4. EndsWell(p)
    BY <2>2, <2>3
  <2>5. \A q \in Pids \ {p} : pc'[q] = "run" => pc[q] = "run" /\ hub'[q] = hub[q]
    BY <1>2, <2>1 DEF RunLua
  <2> QED BY <1>0, <2>4, <2>5, EndsWellStep
<1>3. ASSUME pc'[p] # "run", pc' = [pc EXCEPT ![p] = pc'[p]],
             \A q \in Pids \ {p} : hub'[q] = hub[q]
      PROVE  EndInv'
  <2>1. \A q \in Pids \ {p} : pc'[q] = "run" => pc[q] = "run" /\ hub'[q] = hub[q]
    BY <1>3
  <2> QED BY <1>0, <1>3, <2>1, EndsWellStep
<1>4. CASE HandleSignals(p) \/ AcquireLock(p) \/ RunRestore(p) \/ Foreground(p)
           \/ ForkFails(p) \/ WriteLockPid(p) \/ RestartLua(p) \/ End(p)
  <2>1. /\ pc'[p] # "run" /\ pc' = [pc EXCEPT ![p] = pc'[p]]
        /\ \A q \in Pids \ {p} : hub'[q] = hub[q]
    BY <1>4 DEF HandleSignals, AcquireLock, RunRestore, Foreground, ForkFails,
                WriteLockPid, RestartLua, End, Exit
  <2> QED BY <1>3, <2>1
<1> QED BY <1>1, <1>2, <1>4 DEF Launch

\* cmd_shutdown answers onShutdown with a timer, cmd_restart arms one itself; a
\* reload that would forget it is not served any more.
LEMMA HubEnds ==
    ASSUME EndInv, "shutdown" \notin Optional, NEW p \in Pids, HubStep(p)
    PROVE  EndInv'
<1>0. TypeOK' /\ hub[p] \in Hubs /\ hub[p].plugins \in SUBSET Both
  BY HubStepType DEF EndInv, TypeOK, Hubs
<1>1. /\ pc[p] = "run" /\ Both \ Optional \subseteq hub[p].plugins
      /\ ~hub[p].open => hub[p].armed # {} \/ hub[p].signal # "run"
  BY HubStepIsHubOnly DEF HubOnly, EndInv, PluginShape, ClosedHubEnds
<1>2. ASSUME NEW h, hub' = [hub EXCEPT ![p] = h], Both \ Optional \subseteq h.plugins,
             ~h.open => h.armed # {} \/ h.signal # "run"
      PROVE  EndInv'
  <2>1. hub'[p] = h /\ \A q \in Pids \ {p} : hub'[q] = hub[q]
    BY <1>2 DEF EndInv, TypeOK
  <2>2. \A q \in Pids \ {p} : pc'[q] = pc[q]
    BY HubStepIsHubOnly DEF HubOnly, EndInv, TypeOK
  <2>3. EndsWell(p)
    BY <1>2, <2>1 DEF EndsWell
  <2> QED BY <1>0, <2>1, <2>2, <2>3, EndsWellStep
<1>3. CASE Shutdown(p)
  <2>1. PICK h : /\ hub' = [hub EXCEPT ![p] = h] /\ h.plugins = hub[p].plugins
                 /\ h.open = hub[p].open /\ hub[p].open
    BY <1>0, <1>3 DEF Shutdown, Sets, Serves, Hubs
  <2> QED BY <1>1, <1>2, <2>1
<1>4. CASE Restart(p)
  <2> DEFINE h == [hub[p] EXCEPT !.busy = @ \cup {"restart"}]
  <2>1. h \in Hubs /\ h.plugins = hub[p].plugins /\ h.open = hub[p].open
    BY <1>0 DEF Hubs, Both
  <2>2. CASE Sets(p, [h EXCEPT !.counting = @ \cup {"restart"}])
    <3>1. hub[p].open
      BY <1>4 DEF Restart, Serves
    <3> QED BY <1>1, <1>2, <2>1, <2>2, <3>1 DEF Sets, Hubs
  <2>3. CASE Sets(p, Arm(h, "restart"))
    <3>1. Arm(h, "restart").armed # {} /\ Arm(h, "restart").plugins = hub[p].plugins
      BY <2>1, ArmType DEF Both
    <3> QED BY <1>1, <1>2, <2>3, <3>1 DEF Sets
  <2> QED BY <1>4, <2>2, <2>3 DEF Restart
<1>5. CASE Reload(p)
  <2>1. PICK plugins \in Plugins :
            Sets(p, [hub[p] EXCEPT !.plugins = plugins, !.busy = {}, !.counting = {},
                                   !.armed = {}])
    BY <1>5 DEF Reload
  <2>2. hub[p].open
    BY <1>5 DEF Reload, Serves
  <2> QED BY <1>0, <1>2, <2>1, <2>2, PluginsType DEF Sets, Hubs
<1>6. CASE CountdownEnds(p)
  <2> DEFINE h(what) == [hub[p] EXCEPT !.counting = @ \ {what}]
  <2>1. \A what : /\ h(what) \in Hubs /\ h(what).plugins = hub[p].plugins
                  /\ h(what).open = hub[p].open /\ h(what).armed = hub[p].armed
                  /\ h(what).signal = hub[p].signal
    BY <1>0 DEF Hubs
  <2>2. CASE Sets(p, Arm(h("restart"), "restart"))
    <3>1. /\ Arm(h("restart"), "restart").armed # {}
          /\ Arm(h("restart"), "restart").plugins = h("restart").plugins
      <4> HIDE DEF h
      <4> QED BY <2>1, ArmType DEF Both
    <3> QED BY <1>1, <1>2, <2>1, <2>2, <3>1 DEF Sets
  <2>3. CASE Sets(p, h("shutdown"))
    BY <1>1, <1>2, <2>1, <2>3 DEF Sets
  <2> QED BY <1>6, <2>2, <2>3 DEF CountdownEnds
<1>7. CASE TimerDue(p)
  <2>1. PICK what \in hub[p].armed :
            Sets(p, [hub[p] EXCEPT !.armed = @ \ {what},
                        !.signal = IF what = "shutdown" THEN "exit" ELSE "restart"])
    BY <1>7 DEF TimerDue
  <2> QED BY <1>0, <1>1, <1>2, <2>1 DEF Sets, Hubs
<1>8. CASE EndTick(p)
  <2> DEFINE h == IF doExit[p] /\ ~hub[p].asked
                  THEN [OnShutdown(hub[p]) EXCEPT !.asked = TRUE] ELSE hub[p]
  <2>1. /\ OnShutdown(hub[p]) \in Hubs /\ OnShutdown(hub[p]).armed # {}
        /\ OnShutdown(hub[p]).plugins = hub[p].plugins
    BY <1>0, <1>1, OnShutdownType DEF Both
  <2>2. /\ h \in Hubs /\ h.plugins = hub[p].plugins
        /\ ~h.open => h.armed # {} \/ h.signal # "run"
    BY <1>0, <1>1, <2>1 DEF Hubs
  <2>3. hub' = [hub EXCEPT ![p] = [h EXCEPT !.fresh = FALSE]]
    BY <1>8 DEF EndTick
  <2> HIDE DEF h
  <2>4. /\ [h EXCEPT !.fresh = FALSE].plugins = h.plugins
        /\ [h EXCEPT !.fresh = FALSE].open = h.open
        /\ [h EXCEPT !.fresh = FALSE].armed = h.armed
        /\ [h EXCEPT !.fresh = FALSE].signal = h.signal
    BY <2>2 DEF Hubs
  <2> QED BY <1>1, <1>2, <2>2, <2>3, <2>4
<1> QED BY <1>3, <1>4, <1>5, <1>6, <1>7, <1>8 DEF HubStep, Timers

LEMMA EndStep ==
    ASSUME EndInv, "shutdown" \notin Optional, [Next]_vars
    PROVE  EndInv'
<1>0. TypeOK'
  BY TypeStep DEF EndInv
<1>1. CASE UNCHANGED vars
  BY <1>0, <1>1 DEF vars, EndInv, PluginShape, ClosedHubEnds
<1>2. ASSUME NEW p \in Pids, NEW how \in {"hub", "daemon", "restore"}, Start(p, how)
      PROVE  EndInv'
  BY <1>0, <1>2 DEF Start, Goes, EndInv, TypeOK, PluginShape, ClosedHubEnds
<1>3. ASSUME NEW p \in Pids, NEW from, Exit(p, from) PROVE EndInv'
  BY <1>0, <1>3 DEF Exit, Goes, EndInv, TypeOK, PluginShape, ClosedHubEnds
<1>4. ASSUME NEW p \in Pids, Signal(p) PROVE EndInv'
  BY <1>0, <1>3, <1>4 DEF Signal, EndInv, PluginShape, ClosedHubEnds
<1>5. ASSUME NEW p \in Pids, Crash(p) PROVE EndInv'
  BY <1>3, <1>5 DEF Crash
<1> QED BY <1>1, <1>2, <1>4, <1>5, LaunchEnds, HubEnds DEF Next, HubStep

LEMMA EndInit == Init => EndInv
BY TypeInit DEF Init, EndInv, PluginShape, ClosedHubEnds

\* Where cmd_shutdown is loaded, a hub that closed its servers has a timer that ends
\* it, or its loop already ends.
THEOREM ClosedHubEndsCorrect ==
    ASSUME "shutdown" \notin Optional
    PROVE  Spec => []ClosedHubEnds
<1>1. EndInv /\ [Next]_vars => EndInv'
  BY EndStep
<1>2. EndInv => ClosedHubEnds
  BY DEF EndInv
<1> QED BY <1>1, <1>2, EndInit, PTL DEF Spec

----------------------------------------------------------------------------
(* The plugins.  The inductive invariant. *)

ListenerIds == UNION {Listens[p][ev] : p \in Scripts, ev \in AllEvents}

Slot == [plugin : Scripts, outcome : {"loaded", "raised", "syntax"}]
WalkFrame ==
    [kind : {"walk"}, event : AllEvents, k : Nat \ {0}, len : Nat,
     due : SUBSET ListenerIds, ret : Results, running : ListenerIds \cup {Nothing},
     reloaded : BOOLEAN, gen : Nat, asked : Seq([k : Nat, r : Results])]
ReloadFrame == [kind : {"reload"}, at : 0..Len(Order) + 1]
Frames == WalkFrame \cup ReloadFrame

Books ==
    /\ enabled \subseteq Scripts /\ generation \in 1..MaxReloads + 1
    /\ slots \in Seq(Slot) /\ Len(slots) <= Len(Order)
    /\ meta \in [Scripts -> 0..Len(slots)]
    /\ \A p \in Scripts : meta[p] # 0 => slots[meta[p]] = [plugin |-> p, outcome |-> "loaded"]
    /\ bots \subseteq Scripts \X {generation} /\ routes \subseteq Scripts \X {generation}
    /\ fault \in {Nothing, "other"}

\* A walk was decided by the first result that is not nil, at the slot it has reached
\* if that is PROCESSED.
Decided(w) ==
    /\ w.ret = "nil" <=> \A n \in DOMAIN w.asked : w.asked[n].r = "nil"
    /\ \A n \in DOMAIN w.asked :
        w.asked[n].r # "nil" /\ (\A l \in 1..n - 1 : w.asked[l].r = "nil") =>
            w.asked[n].r = w.ret /\ (w.ret = "PROCESSED" => w.asked[n].k = w.k)

\* The answers a walk has from slot k, and who has yet to answer there.
Given(w, k) == {n \in DOMAIN w.asked : w.asked[n].k = k}
Pending(w) == w.due \cup (IF w.running = Nothing THEN {} ELSE {w.running})

\* A walk over the slots there are now.
Current(q, w) ==
    /\ w.len = Len(q) /\ (w.k = 1 \/ w.k <= w.len)
    /\ Pending(w) \subseteq ListenersOf(q, w.k, w.event) /\ w.running \notin w.due
    /\ \A n \in DOMAIN w.asked : w.asked[n].k <= w.k
    /\ \A j \in 1..w.k - 1 : Cardinality(Given(w, j)) = Cardinality(ListenersOf(q, j, w.event))
    /\ Cardinality(Given(w, w.k)) + Cardinality(Pending(w))
            = Cardinality(ListenersOf(q, w.k, w.event))

\* Only the outermost walk can be older than the plugins: the one whose listener
\* asked for the reload.
WalkShape(q, g, i, w) ==
    /\ w.gen \in 1..g
    /\ w.reloaded => w.running # Nothing /\ w.event = Command
    /\ w.gen # g => /\ i = 1 /\ w.event = Command
                    /\ w.reloaded \/ w.ret \in {"PROCESSED", "other"}
    /\ Decided(w)
    /\ w.gen = g => Current(q, w)

ReloadShape(q, g, i, f, first) ==
    /\ i = 1 \/ (i = 2 /\ first.kind = "walk" /\ first.reloaded)
    /\ f.at = 0 => g <= MaxReloads
    /\ f.at > 0 => Len(q) < f.at /\ (i = 2 => first.gen # g)

FrameShape(q, g, i, f, first) ==
    /\ f \in Frames
    /\ f.kind = "walk" => f \in WalkFrame /\ WalkShape(q, g, i, f)
    /\ f.kind = "reload" => f \in ReloadFrame /\ ReloadShape(q, g, i, f, first)

ChainInv ==
    /\ Books
    /\ stack \in Seq(Frames)
    /\ \A i \in 1..Len(stack) : FrameShape(slots, generation, i, stack[i], stack[1])

----------------------------------------------------------------------------
(* The plugins: walks. *)

LEMMA FrameKinds ==
    /\ \A f \in Frames : f.kind = "walk" => f \in WalkFrame
    /\ \A f \in Frames : f.kind = "reload" => f \in ReloadFrame
    /\ \A f \in WalkFrame : f.kind = "walk" /\ f \in Frames
    /\ \A f \in ReloadFrame : f.kind = "reload" /\ f \in Frames
BY DEF Frames, WalkFrame, ReloadFrame

\* Listeners are finitely many, and none is Nothing.
LEMMA ListenersType ==
    ASSUME NEW q \in Seq(Slot), NEW k \in Nat, NEW ev \in AllEvents
    PROVE  /\ ListenersOf(q, k, ev) \in SUBSET ListenerIds
           /\ IsFiniteSet(ListenersOf(q, k, ev)) /\ Nothing \notin ListenersOf(q, k, ev)
<1>1. CASE k \notin DOMAIN q \/ q[k].outcome = "syntax"
  <2>1. ListenersOf(q, k, ev) = {}
    BY <1>1 DEF ListenersOf
  <2> QED BY <2>1, FS_EmptySet
<1>2. CASE k \in DOMAIN q /\ q[k].outcome # "syntax"
  <2>1. q[k] \in Slot
    BY <1>2
  <2>2. q[k].plugin \in Scripts
    BY <2>1 DEF Slot
  <2>3. ListenersOf(q, k, ev) = Listens[q[k].plugin][ev]
    BY <1>2 DEF ListenersOf
  <2>4. Listens[q[k].plugin][ev] \in SUBSET ListenerIds
    <3>1. ASSUME NEW x \in Listens[q[k].plugin][ev] PROVE x \in ListenerIds
      <4>1. Listens[q[k].plugin][ev] \in {Listens[p][e] : p \in Scripts, e \in AllEvents}
        BY <2>2
      <4> QED BY <4>1 DEF ListenerIds
    <3> QED BY <3>1
  <2> QED BY <2>2, <2>3, <2>4, ChainAssumption
<1> QED BY <1>1, <1>2

\* The answers of a walk are finitely many.
LEMMA GivenFinite ==
    ASSUME NEW w \in WalkFrame, NEW k
    PROVE  IsFiniteSet(Given(w, k))
<1>1. w.asked \in Seq([k : Nat, r : Results])
  BY DEF WalkFrame
<1>2. Len(w.asked) \in Nat /\ Given(w, k) \in SUBSET (1..Len(w.asked))
  BY <1>1 DEF Given
<1>3. IsFiniteSet(1..Len(w.asked))
  BY <1>2, FS_Interval
<1> QED BY <1>2, <1>3, FS_Subset

\* A new walk has all before it.
LEMMA NewWalk ==
    ASSUME NEW q \in Seq(Slot), generation \in Nat \ {0}, NEW ev \in AllEvents, NEW i
    PROVE  /\ WalkOver(q, ev) \in WalkFrame
           /\ WalkShape(q, generation, i, WalkOver(q, ev))
<1> DEFINE w == WalkOver(q, ev)
           g == generation
<1>1. ListenersOf(q, 1, ev) \in SUBSET ListenerIds /\ IsFiniteSet(ListenersOf(q, 1, ev))
      /\ Nothing \notin ListenersOf(q, 1, ev)
  BY ListenersType
<1>2. w \in WalkFrame
  BY <1>1 DEF WalkOver, WalkFrame, Results
<1>3. /\ w.k = 1 /\ w.len = Len(q) /\ w.due = ListenersOf(q, 1, ev) /\ w.ret = "nil"
      /\ w.running = Nothing /\ w.reloaded = FALSE /\ w.gen = g /\ w.asked = <<>> /\ w.event = ev
  BY DEF WalkOver
<1> HIDE DEF w
<1>4. Pending(w) = ListenersOf(q, 1, ev)
  BY <1>3 DEF Pending
<1>5. Given(w, 1) = {} /\ DOMAIN w.asked = {}
  BY <1>3 DEF Given
<1>6. Cardinality(Given(w, 1)) = 0 /\ Cardinality(ListenersOf(q, 1, ev)) \in Nat
  BY <1>1, <1>5, FS_EmptySet, FS_CardinalityType
<1>7. Current(q, w)
  BY <1>1, <1>3, <1>4, <1>5, <1>6 DEF Current
<1>8. Decided(w)
  BY <1>3, <1>5 DEF Decided
<1>9. g \in 1..g
  OBVIOUS
<1> QED BY <1>2, <1>3, <1>7, <1>8, <1>9 DEF w, WalkShape

\* The next listener is called.
LEMMA CallKeeps ==
    ASSUME NEW q \in Seq(Slot), NEW g \in Nat \ {0}, NEW i, NEW w \in WalkFrame,
           WalkShape(q, g, i, w), w.running = Nothing, NEW id \in w.due,
           NEW v, v = [w EXCEPT !.running = id, !.due = @ \ {id}]
    PROVE  v \in WalkFrame /\ WalkShape(q, g, i, v)
<1>0. w.due \in SUBSET ListenerIds
  BY DEF WalkFrame
<1>1. v \in WalkFrame
  BY <1>0 DEF WalkFrame
<1>2. /\ v.k = w.k /\ v.len = w.len /\ v.due = w.due \ {id} /\ v.ret = w.ret
      /\ v.running = id /\ v.reloaded = w.reloaded /\ v.gen = w.gen /\ v.asked = w.asked
      /\ v.event = w.event
  BY DEF WalkFrame
<1>3. Decided(v)
  BY <1>2 DEF Decided, WalkShape
<1>4. ASSUME w.gen = g PROVE Current(q, v)
  <2>1. Current(q, w)
    BY <1>4 DEF WalkShape
  <2>2. w.event \in AllEvents /\ w.k \in Nat
    BY DEF WalkFrame
  <2>3. id # Nothing
    BY <2>1, <2>2, ListenersType DEF Current, Pending
  <2>4. Pending(v) = Pending(w)
    BY <1>2, <2>3 DEF Pending
  <2>5. \A j : Given(v, j) = Given(w, j)
    BY <1>2 DEF Given
  <2> QED BY <1>2, <2>1, <2>4, <2>5 DEF Current
<1>5. ~w.reloaded
  BY DEF WalkShape
<1> QED BY <1>1, <1>2, <1>3, <1>4, <1>5 DEF WalkShape

\* A listener has answered.
LEMMA AnsweredKeeps ==
    ASSUME NEW q \in Seq(Slot), NEW g \in Nat \ {0}, NEW i, NEW w \in WalkFrame,
           WalkShape(q, g, i, w), w.running # Nothing,
           NEW r \in Results, w.reloaded => r = "PROCESSED"
    PROVE  Answered(w, r) \in WalkFrame /\ WalkShape(q, g, i, Answered(w, r))
<1> DEFINE v == Answered(w, r)
           a == [k |-> w.k, r |-> r]
           n == Len(w.asked)
           ret == FirstTruthy(w.ret, r)
<1>0. /\ w.asked \in Seq([k : Nat, r : Results]) /\ n \in Nat /\ DOMAIN w.asked = 1..n
      /\ a \in [k : Nat, r : Results] /\ w.k \in Nat \ {0} /\ w.due \in SUBSET ListenerIds
      /\ w.ret \in Results /\ w.event \in AllEvents /\ w.gen \in Nat
  BY DEF WalkFrame
<1>1. /\ ret \in Results /\ (w.ret # "nil" => ret = w.ret) /\ (w.ret = "nil" => ret = r)
  BY <1>0 DEF FirstTruthy
<1>2. /\ Append(w.asked, a) \in Seq([k : Nat, r : Results])
      /\ DOMAIN Append(w.asked, a) = 1..n + 1
      /\ Append(w.asked, a)[n + 1] = a
      /\ \A j \in 1..n : Append(w.asked, a)[j] = w.asked[j]
  BY <1>0
<1>3. v = [w EXCEPT !.ret = ret, !.running = Nothing, !.reloaded = FALSE,
                    !.asked = Append(w.asked, a)]
  BY DEF Answered
<1> HIDE DEF v, a, ret
<1>4. v \in WalkFrame
  BY <1>1, <1>2, <1>3 DEF WalkFrame
<1>5. /\ v.k = w.k /\ v.len = w.len /\ v.due = w.due /\ v.ret = ret
      /\ v.running = Nothing /\ v.reloaded = FALSE /\ v.gen = w.gen
      /\ v.asked = Append(w.asked, a) /\ v.event = w.event
  BY <1>3 DEF WalkFrame
<1>6. a.k = w.k /\ a.r = r
  BY DEF a
<1> HIDE DEF n
<1>7. Decided(v)
  <2>0. Decided(w)
    BY DEF WalkShape
  <2>1. v.ret = "nil" <=> \A j \in DOMAIN v.asked : v.asked[j].r = "nil"
    <3>0. /\ DOMAIN v.asked = 1..n + 1 /\ DOMAIN w.asked = 1..n /\ v.asked[n + 1].r = r
          /\ \A j \in 1..n : v.asked[j].r = w.asked[j].r
          /\ \A j \in 1..n + 1 : j \in 1..n \/ j = n + 1
          /\ \A j \in 1..n : j \in 1..n + 1
          /\ n + 1 \in 1..n + 1
      BY <1>0, <1>2, <1>5, <1>6
    <3>1. (\A j \in DOMAIN v.asked : v.asked[j].r = "nil")
            <=> r = "nil" /\ \A j \in DOMAIN w.asked : w.asked[j].r = "nil"
      BY <3>0, Zenon
    <3> QED BY <1>1, <1>5, <2>0, <3>1 DEF Decided
  <2>2. ASSUME NEW j \in DOMAIN v.asked, v.asked[j].r # "nil",
               \A l \in 1..j - 1 : v.asked[l].r = "nil"
        PROVE  v.asked[j].r = v.ret /\ (v.ret = "PROCESSED" => v.asked[j].k = v.k)
    <3>1. CASE j \in 1..n
      <4>1. w.asked[j].r # "nil" /\ \A l \in 1..j - 1 : w.asked[l].r = "nil"
        BY <1>0, <1>2, <1>5, <2>2, <3>1
      <4>2. w.asked[j].r = w.ret /\ (w.ret = "PROCESSED" => w.asked[j].k = w.k)
        BY <1>0, <2>0, <3>1, <4>1 DEF Decided
      <4>3. v.asked[j] = w.asked[j] /\ v.ret = w.ret
        BY <1>1, <1>2, <1>5, <3>1, <4>1, <4>2
      <4> QED BY <1>5, <4>2, <4>3
    <3>2. CASE j = n + 1
      <4>1. \A l \in 1..n : w.asked[l].r = "nil"
        BY <1>0, <1>2, <1>5, <2>2, <3>2
      <4>2. w.ret = "nil" /\ v.asked[j] = a
        BY <1>0, <1>2, <1>5, <2>0, <3>2, <4>1 DEF Decided
      <4> QED BY <1>1, <1>5, <1>6, <4>2
    <3> QED BY <1>0, <1>2, <1>5, <3>1, <3>2
  <2> QED BY <2>1, <2>2 DEF Decided
<1>8. ASSUME w.gen = g PROVE Current(q, v)
  <2>1. Current(q, w)
    BY <1>8 DEF WalkShape
  <2>2. ListenersOf(q, w.k, w.event) \in SUBSET ListenerIds
        /\ IsFiniteSet(ListenersOf(q, w.k, w.event))
        /\ Nothing \notin ListenersOf(q, w.k, w.event)
    BY <1>0, ListenersType
  <2>3. Pending(w) = Pending(v) \cup {w.running} /\ w.running \notin Pending(v)
        /\ Pending(v) = w.due
    BY <1>5, <2>1 DEF Pending, Current
  <2>4. /\ IsFiniteSet(Pending(v)) /\ Cardinality(Pending(v)) \in Nat
        /\ Cardinality(Pending(w)) = Cardinality(Pending(v)) + 1
    BY <2>1, <2>2, <2>3, FS_Subset, FS_AddElement, FS_CardinalityType DEF Current
  <2>5. /\ Given(v, w.k) = Given(w, w.k) \cup {n + 1} /\ n + 1 \notin Given(w, w.k)
        /\ \A j \in 1..w.k - 1 : Given(v, j) = Given(w, j)
    <3>1. \A j : Given(v, j) = {l \in 1..n + 1 : v.asked[l].k = j}
                 /\ Given(w, j) = {l \in 1..n : w.asked[l].k = j}
      BY <1>0, <1>2, <1>5 DEF Given
    <3>2. v.asked[n + 1].k = w.k /\ \A l \in 1..n : v.asked[l].k = w.asked[l].k
      BY <1>2, <1>5, <1>6
    <3>3. \A l : l \in 1..n + 1 <=> l \in 1..n \/ l = n + 1
      BY <1>0
    <3>4. n + 1 \notin 1..n
      BY <1>0
    <3>5. Given(v, w.k) = Given(w, w.k) \cup {n + 1}
      BY <3>1, <3>2, <3>3
    <3>6. ASSUME NEW j \in 1..w.k - 1 PROVE Given(v, j) = Given(w, j)
      <4>1. j # w.k
        BY <1>0
      <4>2. \A l \in 1..n + 1 : v.asked[l].k = j => l \in 1..n
        BY <3>2, <3>3, <4>1
      <4>3. {l \in 1..n + 1 : v.asked[l].k = j} = {l \in 1..n : w.asked[l].k = j}
        BY <3>2, <3>3, <4>2
      <4> QED BY <3>1, <4>3
    <3>7. n + 1 \notin Given(w, w.k)
      BY <3>1, <3>4
    <3> QED BY <3>5, <3>6, <3>7
  <2>6. /\ Cardinality(Given(w, w.k)) \in Nat
        /\ Cardinality(Given(v, w.k)) = Cardinality(Given(w, w.k)) + 1
    BY <2>5, GivenFinite, FS_AddElement, FS_CardinalityType
  <2>7. Cardinality(Given(v, v.k)) + Cardinality(Pending(v))
            = Cardinality(ListenersOf(q, v.k, v.event))
    BY <1>5, <2>1, <2>4, <2>6 DEF Current
  <2>8. \A l \in DOMAIN v.asked : v.asked[l].k <= v.k
    BY <1>0, <1>2, <1>5, <1>6, <2>1 DEF Current
  <2>9. Pending(v) \subseteq ListenersOf(q, v.k, v.event) /\ v.running \notin v.due
    BY <1>5, <2>1, <2>2, <2>3 DEF Current
  <2> QED BY <1>5, <2>1, <2>5, <2>7, <2>8, <2>9 DEF Current
<1>9. WalkShape(q, g, i, v)
  <2>1. w.gen # g => /\ i = 1 /\ w.event = Command /\ v.ret \in {"PROCESSED", "other"}
    BY <1>0, <1>1, <1>5 DEF WalkShape, Results
  <2> QED BY <1>5, <1>7, <1>8, <2>1 DEF WalkShape
<1> QED BY <1>4, <1>9 DEF v

\* All listeners of the slot have answered, and the walk goes on to the next.
LEMMA AdvanceKeeps ==
    ASSUME NEW q \in Seq(Slot), NEW g \in Nat \ {0}, NEW i, NEW w \in WalkFrame,
           WalkShape(q, g, i, w), w.running = Nothing, w.due = {}, ~Ends(w),
           NEW next, next \in SUBSET ListenerIds,
           w.gen = g => next = ListenersOf(q, w.k + 1, w.event),
           NEW v, v = [w EXCEPT !.k = @ + 1, !.due = next]
    PROVE  v \in WalkFrame /\ WalkShape(q, g, i, v)
<1>0. /\ w.k \in Nat \ {0} /\ w.len \in Nat /\ w.event \in AllEvents /\ w.gen \in Nat
      /\ w.asked \in Seq([k : Nat, r : Results])
  BY DEF WalkFrame
<1>1. v \in WalkFrame
  <2>1. w.k + 1 \in Nat \ {0}
    BY <1>0
  <2> QED BY <2>1 DEF WalkFrame
<1>2. /\ v.k = w.k + 1 /\ v.len = w.len /\ v.due = next /\ v.ret = w.ret
      /\ v.running = Nothing /\ v.reloaded = w.reloaded /\ v.gen = w.gen /\ v.asked = w.asked
      /\ v.event = w.event
  BY DEF WalkFrame
<1>3. w.ret # "PROCESSED" /\ w.k + 1 <= w.len
  BY <1>0 DEF Ends
<1>4. Decided(v)
  BY <1>2, <1>3 DEF Decided, WalkShape
<1>5. ASSUME w.gen = g PROVE Current(q, v)
  <2>1. Current(q, w) /\ next = ListenersOf(q, w.k + 1, w.event)
    BY <1>5 DEF WalkShape
  <2>0. \A l \in DOMAIN w.asked : w.asked[l].k \in Nat /\ w.asked[l].k <= w.k
    <3>1. ASSUME NEW l \in DOMAIN w.asked PROVE w.asked[l] \in [k : Nat, r : Results]
      <4> DEFINE S == [k : Nat, r : Results]
      <4>1. w.asked \in Seq(S)
        BY <1>0
      <4> HIDE DEF S
      <4>2. w.asked[l] \in S
        BY <4>1
      <4> QED BY <4>2 DEF S
    <3> QED BY <2>1, <3>1 DEF Current
  <2>2. Pending(w) = {} /\ Pending(v) = next
    BY <1>2 DEF Pending
  <2>3. \A j : Given(v, j) = Given(w, j)
    BY <1>2 DEF Given
  <2>4. Given(w, w.k + 1) = {}
    <3>1. \A l \in DOMAIN w.asked : w.asked[l].k # w.k + 1
      BY <1>0, <2>0
    <3> QED BY <3>1 DEF Given
  <2>5. /\ IsFiniteSet(next) /\ Cardinality(next) \in Nat /\ Cardinality({}) = 0
        /\ Nothing \notin next
    <3>1. w.k + 1 \in Nat
      BY <1>0
    <3>2. IsFiniteSet(next) /\ Nothing \notin next
      BY <1>0, <2>1, <3>1, ListenersType
    <3> QED BY <3>2, FS_CardinalityType, FS_EmptySet
  <2>6. Cardinality(Given(v, v.k)) + Cardinality(Pending(v))
            = Cardinality(ListenersOf(q, v.k, v.event))
    <3>1. Given(v, v.k) = {} /\ Pending(v) = ListenersOf(q, v.k, v.event)
      BY <1>2, <2>1, <2>2, <2>3, <2>4
    <3>2. Cardinality(Given(v, v.k)) = 0 /\ Cardinality(Pending(v)) = Cardinality(next)
      BY <2>2, <2>5, <3>1
    <3> QED BY <2>2, <2>5, <3>1, <3>2
  <2>7. Cardinality(Given(w, w.k)) = Cardinality(ListenersOf(q, w.k, w.event))
    <3>1. Cardinality(Given(w, w.k)) \in Nat
      BY GivenFinite, FS_CardinalityType
    <3> QED BY <2>1, <2>2, <2>5, <3>1 DEF Current
  <2>8. \A j \in 1..v.k - 1 : Cardinality(Given(v, j)) = Cardinality(ListenersOf(q, j, v.event))
    <3>1. \A j \in 1..v.k - 1 : j \in 1..w.k - 1 \/ j = w.k
      BY <1>0, <1>2
    <3> QED BY <1>2, <2>1, <2>3, <2>7, <3>1 DEF Current
  <2>9. \A l \in DOMAIN v.asked : v.asked[l].k <= v.k
    <3>1. \A l \in DOMAIN w.asked : w.asked[l].k <= w.k + 1
      BY <1>0, <2>0
    <3> QED BY <1>2, <3>1
  <2> QED BY <1>2, <1>3, <2>1, <2>2, <2>5, <2>6, <2>8, <2>9 DEF Current
<1> QED BY <1>1, <1>2, <1>4, <1>5 DEF WalkShape

\* A listener has asked for a reload.
LEMMA ReloadedKeeps ==
    ASSUME NEW q \in Seq(Slot), NEW g \in Nat \ {0}, NEW i, NEW w \in WalkFrame,
           WalkShape(q, g, i, w), w.running # Nothing, w.event = Command,
           NEW v, v = [w EXCEPT !.reloaded = TRUE]
    PROVE  v \in WalkFrame /\ WalkShape(q, g, i, v) /\ v.reloaded
<1>1. v \in WalkFrame
  BY DEF WalkFrame
<1>2. /\ v.k = w.k /\ v.len = w.len /\ v.due = w.due /\ v.ret = w.ret
      /\ v.running = w.running /\ v.reloaded = TRUE /\ v.gen = w.gen /\ v.asked = w.asked
      /\ v.event = w.event
  BY DEF WalkFrame
<1>3. Decided(v)
  BY <1>2 DEF Decided, WalkShape
<1>4. Current(q, w) => Current(q, v)
  BY <1>2 DEF Current, Given, Pending
<1> QED BY <1>1, <1>2, <1>3, <1>4 DEF WalkShape

\* A walk that waits for its reload is not touched by what happens to the plugins.
LEMMA OutlivesReload ==
    ASSUME NEW q, NEW p, NEW g \in Nat, NEW h \in Nat, NEW w \in WalkFrame,
           WalkShape(q, g, 1, w), w.reloaded, g <= h, w.gen # h
    PROVE  WalkShape(p, h, 1, w)
<1>1. w.gen \in 1..h
  BY DEF WalkShape
<1> QED BY <1>1 DEF WalkShape

----------------------------------------------------------------------------
(* The plugins: the stack. *)

\* The sequence below the last element, and with another one in its place.
LEMMA BelowLast ==
    ASSUME NEW S, NEW s \in Seq(S), s # <<>>, NEW f \in S
    PROVE  LET b == SubSeq(s, 1, Len(s) - 1) IN
           /\ b \in Seq(S) /\ Len(b) = Len(s) - 1 /\ Len(s) \in Nat \ {0}
           /\ \A i \in 1..Len(s) - 1 : b[i] = s[i]
           /\ Append(b, f) \in Seq(S) /\ Len(Append(b, f)) = Len(s)
           /\ Append(b, f)[Len(s)] = f
           /\ \A i \in 1..Len(s) - 1 : Append(b, f)[i] = s[i]
<1> DEFINE b == SubSeq(s, 1, Len(s) - 1)
<1>1. Len(s) \in Nat \ {0}
  BY EmptySeq
<1>2. b \in Seq(S) /\ Len(b) = Len(s) - 1 /\ \A i \in 1..Len(s) - 1 : b[i] = s[i]
  <2>1. \A i \in 1..Len(s) - 1 : s[i] \in S
    BY <1>1
  <2>2. 1 \in Int /\ Len(s) - 1 \in Int
    BY <1>1
  <2>3. /\ b \in Seq(S) /\ Len(b) = IF 1 <= Len(s) - 1 THEN Len(s) - 1 - 1 + 1 ELSE 0
        /\ \A i \in 1..Len(s) - 1 - 1 + 1 : b[i] = s[1 + i - 1]
    BY <2>1, <2>2, SubSeqProperties
  <2> HIDE DEF b
  <2>4. Len(b) = Len(s) - 1
    <3>1. ASSUME NEW m \in Nat \ {0}, NEW l, l = IF 1 <= m - 1 THEN m - 1 - 1 + 1 ELSE 0
          PROVE  l = m - 1
      <4>1. CASE m = 1
        BY <3>1, <4>1
      <4>2. CASE m > 1
        BY <3>1, <4>2
      <4> QED BY <4>1, <4>2
    <3> QED BY <1>1, <2>3, <3>1
  <2>5. ASSUME NEW i \in 1..Len(s) - 1 PROVE b[i] = s[i]
    <3>1. i \in 1..Len(s) - 1 - 1 + 1 /\ 1 + i - 1 = i
      BY <1>1
    <3>2. b[i] = s[1 + i - 1]
      BY <2>3, <3>1
    <3> QED BY <3>1, <3>2
  <2> QED BY <2>3, <2>4, <2>5
<1> HIDE DEF b
<1>3. /\ Append(b, f) \in Seq(S) /\ Len(Append(b, f)) = Len(s)
      /\ Append(b, f)[Len(s)] = f
      /\ \A i \in 1..Len(s) - 1 : Append(b, f)[i] = b[i]
  BY <1>1, <1>2
<1> QED BY <1>1, <1>2, <1>3 DEF b

LEMMA TopWalk ==
    ASSUME ChainInv, Walking
    PROVE  /\ Len(stack) \in Nat \ {0} /\ Top \in WalkFrame
           /\ WalkShape(slots, generation, Len(stack), Top)
<1>1. Len(stack) \in Nat \ {0}
  BY EmptySeq DEF ChainInv, Walking
<1> QED BY <1>1 DEF ChainInv, Walking, Top, FrameShape

LEMMA TopReload ==
    ASSUME ChainInv, Reloading
    PROVE  /\ Len(stack) \in {1, 2} /\ Top \in ReloadFrame
           /\ ReloadShape(slots, generation, Len(stack), Top, stack[1])
<1>1. Len(stack) \in Nat \ {0}
  BY EmptySeq DEF ChainInv, Reloading
<1>2. Top \in ReloadFrame /\ ReloadShape(slots, generation, Len(stack), Top, stack[1])
  BY <1>1 DEF ChainInv, Reloading, Top, FrameShape
<1> QED BY <1>2 DEF ReloadShape

LEMMA FrameOfWalk ==
    ASSUME NEW q, NEW g, NEW i, NEW first, NEW w \in WalkFrame, WalkShape(q, g, i, w)
    PROVE  FrameShape(q, g, i, w, first)
<1>1. w.kind = "walk" /\ w \in Frames
  BY FrameKinds
<1> QED BY <1>1 DEF FrameShape

LEMMA FrameOfReload ==
    ASSUME NEW q, NEW g, NEW i, NEW first, NEW f \in ReloadFrame, ReloadShape(q, g, i, f, first)
    PROVE  FrameShape(q, g, i, f, first)
<1>1. f.kind = "reload" /\ f \in Frames
  BY FrameKinds
<1> QED BY <1>1 DEF FrameShape

\* A walk that begins now.
LEMMA WalkBegins ==
    ASSUME Books, NEW ev \in AllEvents
    PROVE  /\ Walk(ev) \in Frames
           /\ \A i, first : FrameShape(slots, generation, i, Walk(ev), first)
<1>1. slots \in Seq(Slot) /\ generation \in Nat \ {0}
  BY ChainAssumption DEF Books
<1>2. \A i : Walk(ev) \in WalkFrame /\ WalkShape(slots, generation, i, Walk(ev))
  BY <1>1, NewWalk DEF Walk
<1> QED BY <1>2, FrameOfWalk, FrameKinds

\* A step that leaves the plugins alone and the stack below its top.
LEMMA StackStep ==
    ASSUME ChainInv, Books', slots' = slots, generation' = generation,
           stack' \in Seq(Frames),
           \A i \in 1..Len(stack') : i < Len(stack) => stack'[i] = stack[i],
           \A i \in 1..Len(stack') :
               i >= Len(stack) => FrameShape(slots, generation, i, stack'[i], stack'[1])
    PROVE  ChainInv'
<1>1. Len(stack) \in Nat /\ Len(stack') \in Nat
  BY DEF ChainInv
<1>2. ASSUME NEW i \in 1..Len(stack')
      PROVE  FrameShape(slots, generation, i, stack'[i], stack'[1])
  <2>1. CASE i >= Len(stack)
    BY <2>1
  <2>2. CASE i < Len(stack)
    <3>1. i \in 1..Len(stack) /\ 1 \in 1..Len(stack') /\ 1 < Len(stack)
      BY <1>1, <2>2
    <3>2. stack'[i] = stack[i] /\ stack'[1] = stack[1]
      BY <2>2, <3>1
    <3>3. FrameShape(slots, generation, i, stack[i], stack[1])
      BY <3>1 DEF ChainInv
    <3> QED BY <3>2, <3>3
  <2> QED BY <1>1, <2>1, <2>2
<1>3. \A i \in 1..Len(stack') : FrameShape(slots', generation', i, stack'[i], stack'[1])
  BY <1>2
<1> QED BY <1>3 DEF ChainInv

LEMMA TopReplaced ==
    ASSUME ChainInv, Books', slots' = slots, generation' = generation, stack # <<>>,
           NEW f \in Frames,
           FrameShape(slots, generation, Len(stack), f, IF Len(stack) = 1 THEN f ELSE stack[1]),
           NEW more, more = <<>> \/ \E w \in Frames :
                /\ more = <<w>>
                /\ \A i, first : FrameShape(slots, generation, i, w, first),
           stack' = Append(Below, f) \o more
    PROVE  ChainInv'
<1> DEFINE n == Len(stack)
           t == Append(Below, f)
<1>1. /\ n \in Nat \ {0} /\ t \in Seq(Frames) /\ Len(t) = n /\ t[n] = f
      /\ \A i \in 1..n - 1 : t[i] = stack[i]
  BY BelowLast DEF ChainInv, Below
<1>2. t[1] = IF n = 1 THEN f ELSE stack[1]
  BY <1>1
<1>3. FrameShape(slots, generation, n, t[n], t[1])
  BY <1>1, <1>2
<1> HIDE DEF t
<1>4. CASE more = <<>>
  <2>1. stack' = t
    BY <1>1, <1>4 DEF t
  <2>2. \A i \in 1..n : i < n => i \in 1..n - 1
    BY <1>1
  <2>3. \A i \in 1..n : i >= n => i = n
    BY <1>1
  <2> QED BY <1>1, <1>3, <2>1, <2>2, <2>3, StackStep
<1>5. ASSUME NEW w \in Frames, more = <<w>>,
             \A i, first : FrameShape(slots, generation, i, w, first)
      PROVE  ChainInv'
  <2>1. /\ stack' \in Seq(Frames) /\ Len(stack') = n + 1 /\ stack'[n + 1] = w
        /\ \A i \in 1..n : stack'[i] = t[i]
    <3>1. <<w>> \in Seq(Frames) /\ Len(<<w>>) = 1 /\ <<w>>[1] = w /\ n + 1 - n = 1
      BY <1>1
    <3>2. stack' = t \o <<w>>
      BY <1>5 DEF t
    <3>3. /\ stack' \in Seq(Frames) /\ Len(stack') = n + 1
          /\ \A i \in 1..n + 1 : stack'[i] = IF i <= n THEN t[i] ELSE <<w>>[i - n]
      BY <1>1, <3>1, <3>2, ConcatProperties
    <3>4. n + 1 \in 1..n + 1 /\ ~(n + 1 <= n) /\ \A i \in 1..n : i \in 1..n + 1 /\ i <= n
      BY <1>1
    <3> QED BY <3>1, <3>3, <3>4
  <2>2. 1 \in 1..n /\ n \in 1..n
    BY <1>1
  <2>3. \A i \in 1..n + 1 : i < n => stack'[i] = stack[i]
    BY <1>1, <2>1
  <2>4. ASSUME NEW i \in 1..n + 1, i >= n
        PROVE  FrameShape(slots, generation, i, stack'[i], stack'[1])
    <3>1. i = n \/ i = n + 1
      BY <1>1, <2>4
    <3> QED BY <1>3, <1>5, <2>1, <2>2, <3>1
  <2> QED BY <2>1, <2>3, <2>4, StackStep
<1> QED BY <1>4, <1>5

----------------------------------------------------------------------------
(* The plugins: the steps. *)

\* The books stay, if only the stack changes.
LEMMA BooksKept ==
    ASSUME Books, UNCHANGED <<enabled, generation, slots, meta, bots, routes, fault>>
    PROVE  Books'
BY DEF Books

\* In a walk: its frame is replaced, and another walk may begin above it.
LEMMA WalkReplaced ==
    ASSUME ChainInv, Walking, Books', slots' = slots, generation' = generation,
           NEW w \in WalkFrame, WalkShape(slots, generation, Len(stack), w),
           NEW more, more = <<>> \/ \E ev \in AllEvents : more = <<Walk(ev)>>,
           stack' = Append(Below, w) \o more
    PROVE  ChainInv'
<1>1. w \in Frames /\ stack # <<>>
  BY FrameKinds DEF Walking
<1>2. \A first : FrameShape(slots, generation, Len(stack), w, first)
  BY FrameOfWalk
<1>3. \A ev \in AllEvents : /\ Walk(ev) \in Frames
                            /\ \A i, first : FrameShape(slots, generation, i, Walk(ev), first)
  BY WalkBegins DEF ChainInv
<1>4. more = <<>> \/ \E v \in Frames :
        more = <<v>> /\ \A i, first : FrameShape(slots, generation, i, v, first)
  BY <1>3
<1> QED BY <1>1, <1>2, <1>4, TopReplaced

\* Append(Below, f) is one with nothing above it.
LEMMA NothingAbove ==
    ASSUME ChainInv, stack # <<>>, NEW f \in Frames
    PROVE  Append(Below, f) \o <<>> = Append(Below, f)
<1>1. Append(Below, f) \in Seq(Frames)
  BY BelowLast DEF ChainInv, Below
<1> QED BY <1>1, ConcatEmptySeq

LEMMA FireKeeps ==
    ASSUME ChainInv, NEW ev \in Events, Fire(ev)
    PROVE  ChainInv'
<1>1. ev \in AllEvents
  BY DEF AllEvents
<1>2. Books' /\ slots' = slots /\ generation' = generation
  BY BooksKept DEF Fire, ChainInv
<1>3. /\ Walk(ev) \in Frames
      /\ \A i, first : FrameShape(slots, generation, i, Walk(ev), first)
  BY <1>1, WalkBegins DEF ChainInv
<1>4. stack' = <<Walk(ev)>> /\ Len(stack) = 0
  BY DEF Fire
<1>5. stack' \in Seq(Frames) /\ Len(stack') = 1 /\ stack'[1] = Walk(ev)
  BY <1>3, <1>4
<1>6. \A i \in 1..1 : i = 1 /\ ~(i < 0)
  OBVIOUS
<1> QED BY <1>2, <1>3, <1>4, <1>5, <1>6, StackStep

LEMMA CallStep ==
    ASSUME ChainInv, NEW id, Call(id)
    PROVE  ChainInv'
<1> DEFINE w == [Top EXCEPT !.running = id, !.due = @ \ {id}]
<1>1. Books' /\ slots' = slots /\ generation' = generation
  BY BooksKept DEF Call, ChainInv
<1>2. Top \in WalkFrame /\ WalkShape(slots, generation, Len(stack), Top)
  BY TopWalk DEF Call
<1>3. slots \in Seq(Slot) /\ generation \in Nat \ {0}
  BY ChainAssumption DEF Books, ChainInv
<1>4. w \in WalkFrame /\ WalkShape(slots, generation, Len(stack), w)
  BY <1>2, <1>3, CallKeeps DEF Call
<1>5. Walking /\ stack # <<>> /\ stack' = Append(Below, w)
  BY DEF Call, Walking
<1> HIDE DEF w
<1>6. stack' = Append(Below, w) \o <<>>
  BY <1>4, <1>5, NothingAbove, FrameKinds
<1> QED BY <1>1, <1>4, <1>5, <1>6, WalkReplaced

LEMMA FireInsideKeeps ==
    ASSUME ChainInv, NEW ev \in Inner, FireInside(ev)
    PROVE  ChainInv'
<1> DEFINE n == Len(stack)
<1>1. ev \in AllEvents
  BY DEF AllEvents
<1>2. Books' /\ slots' = slots /\ generation' = generation
  BY BooksKept DEF FireInside, ChainInv
<1>3. /\ Walk(ev) \in Frames
      /\ \A i, first : FrameShape(slots, generation, i, Walk(ev), first)
  BY <1>1, WalkBegins DEF ChainInv
<1>4. n \in Nat \ {0} /\ stack' = Append(stack, Walk(ev)) /\ stack \in Seq(Frames)
  BY TopWalk DEF FireInside, Running, ChainInv
<1>5. /\ stack' \in Seq(Frames) /\ Len(stack') = n + 1 /\ stack'[n + 1] = Walk(ev)
      /\ \A i \in 1..n : stack'[i] = stack[i]
  BY <1>3, <1>4
<1>6. \A i \in 1..n + 1 : i < n => i \in 1..n
  BY <1>4
<1>7. ASSUME NEW i \in 1..n + 1, i >= n
      PROVE  FrameShape(slots, generation, i, stack'[i], stack'[1])
  <2>1. i = n \/ i = n + 1
    BY <1>4, <1>7
  <2>2. n \in 1..n /\ 1 \in 1..n
    BY <1>4
  <2>3. FrameShape(slots, generation, n, stack[n], stack[1])
    BY <2>2 DEF ChainInv
  <2> QED BY <1>3, <1>5, <2>1, <2>2, <2>3
<1> QED BY <1>2, <1>5, <1>6, <1>7, StackStep

\* A plugin that is called is in its slot.
LEMMA RunningHasSlot ==
    ASSUME ChainInv, Running, Top.gen = generation
    PROVE  slots[Top.k].plugin \in Scripts
<1>1. Top \in WalkFrame /\ Current(slots, Top)
  BY TopWalk DEF Running, WalkShape
<1>2. Top.running \in ListenersOf(slots, Top.k, Top.event)
  BY <1>1 DEF Current, Pending, Running
<1>3. Top.k \in DOMAIN slots
  BY <1>2 DEF ListenersOf
<1>4. slots \in Seq(Slot)
  BY DEF ChainInv, Books
<1>5. slots[Top.k] \in Slot
  BY <1>3, <1>4
<1> QED BY <1>5 DEF Slot

LEMMA ReturnKeeps ==
    ASSUME ChainInv, NEW r \in Results, Return(r)
    PROVE  ChainInv'
<1> DEFINE w == Answered(Top, r)
<1>1. Top \in WalkFrame /\ WalkShape(slots, generation, Len(stack), Top)
      /\ Walking /\ stack # <<>> /\ Top.running # Nothing
  BY TopWalk DEF Return, Running, Walking
<1>2. slots \in Seq(Slot) /\ generation \in Nat \ {0}
  BY ChainAssumption DEF Books, ChainInv
<1>3. w \in WalkFrame /\ WalkShape(slots, generation, Len(stack), w)
  BY <1>1, <1>2, AnsweredKeeps DEF Return
<1> HIDE DEF w
<1>4. stack' = Append(Below, w) \o <<>>
  BY <1>1, <1>3, NothingAbove, FrameKinds DEF Return, w
<1>5. routes' \subseteq Scripts \X {generation}
  <2>1. routes \subseteq Scripts \X {generation}
    BY DEF ChainInv, Books
  <2>2. CASE Top.event = "onStart"
    <3>1. Top.gen = generation
      BY <1>1, <2>2, ChainAssumption DEF WalkShape
    <3>2. <<slots[Top.k].plugin, Top.gen>> \in Scripts \X {generation}
      BY <3>1, RunningHasSlot DEF Return
    <3> QED BY <2>1, <3>2 DEF Return
  <2>3. CASE Top.event # "onStart"
    BY <2>1, <2>3 DEF Return
  <2> QED BY <2>2, <2>3
<1>6. Books' /\ slots' = slots /\ generation' = generation
  BY <1>5 DEF ChainInv, Books, Return
<1> QED BY <1>1, <1>3, <1>4, <1>6, WalkReplaced

LEMMA RaiseKeeps ==
    ASSUME ChainInv, Raise
    PROVE  ChainInv'
<1> DEFINE w == Answered(Top, "nil")
           more == IF Top.event = "onError" THEN <<>> ELSE <<Walk("onError")>>
<1>1. Top \in WalkFrame /\ WalkShape(slots, generation, Len(stack), Top)
      /\ Walking /\ Top.running # Nothing /\ ~Top.reloaded
  BY TopWalk DEF Raise, Running
<1>2. slots \in Seq(Slot) /\ generation \in Nat \ {0} /\ "nil" \in Results
  BY ChainAssumption DEF Books, ChainInv, Results
<1>3. w \in WalkFrame /\ WalkShape(slots, generation, Len(stack), w)
  BY <1>1, <1>2, AnsweredKeeps
<1>4. stack' = Append(Below, w) \o more
  BY DEF Raise
<1>5. more = <<>> \/ \E ev \in AllEvents : more = <<Walk(ev)>>
  BY DEF AllEvents
<1>6. Books' /\ slots' = slots /\ generation' = generation
  BY BooksKept DEF Raise, ChainInv
<1> HIDE DEF w, more
<1> QED BY <1>1, <1>3, <1>4, <1>5, <1>6, WalkReplaced

LEMMA AdvanceStep ==
    ASSUME ChainInv, Advance
    PROVE  ChainInv'
<1> DEFINE next == Listeners(Top.k + 1, Top.event)
           w == [Top EXCEPT !.k = @ + 1, !.due = next]
<1>1. Top \in WalkFrame /\ WalkShape(slots, generation, Len(stack), Top)
      /\ Walking /\ stack # <<>> /\ Top.running = Nothing /\ Top.due = {}
      /\ Top.k \in Nat \ {0} /\ Top.event \in AllEvents /\ Top.len \in Nat
      /\ Top.ret \in Results
  BY TopWalk DEF Advance, Walking, WalkFrame
<1>2. slots \in Seq(Slot) /\ generation \in Nat \ {0}
  BY ChainAssumption DEF Books, ChainInv
<1>3. slots' = slots /\ generation' = generation
  BY DEF Advance
<1>4. Books'
  <2>1. fault' \in {Nothing, "other"}
    <3>1. CASE Ends(Top) \/ Top.k + 1 \in DOMAIN slots
      BY <3>1 DEF Advance
    <3>2. CASE ~Ends(Top) /\ Top.k + 1 \notin DOMAIN slots
      <4>1. Top.ret # "PROCESSED" /\ Top.k + 1 <= Top.len
        BY <1>1, <3>2 DEF Ends
      <4>2. DOMAIN slots = 1..Len(slots) /\ Top.k + 1 \in 1..Top.len
        BY <1>1, <1>2, <4>1
      <4>3. Top.gen # generation
        BY <1>1, <3>2, <4>2 DEF WalkShape, Current
      <4>4. Top.ret = "other"
        BY <1>1, <4>1, <4>3 DEF WalkShape
      <4>5. fault' = Top.ret
        BY <3>2 DEF Advance
      <4> QED BY <4>4, <4>5
    <3> QED BY <3>1, <3>2
  <2> QED BY <2>1 DEF ChainInv, Books, Advance
<1>5. CASE Ends(Top)
  <2>1. stack' = Below
    BY <1>5 DEF Advance
  <2>2. /\ stack' \in Seq(Frames) /\ Len(stack') = Len(stack) - 1 /\ Len(stack) \in Nat \ {0}
        /\ \A i \in 1..Len(stack) - 1 : stack'[i] = stack[i]
    BY <1>1, <2>1, BelowLast, FrameKinds DEF ChainInv, Below
  <2>3. \A i \in 1..Len(stack) - 1 : ~(i >= Len(stack))
    BY <2>2
  <2> QED BY <1>3, <1>4, <2>2, <2>3, StackStep
<1>6. CASE ~Ends(Top)
  <2>1. next = ListenersOf(slots, Top.k + 1, Top.event)
    BY DEF Listeners
  <2>2. Top.k + 1 \in Nat
    BY <1>1
  <2>3. next \in SUBSET ListenerIds
    BY <1>1, <1>2, <2>1, <2>2, ListenersType
  <2> HIDE DEF next
  <2>4. w \in WalkFrame /\ WalkShape(slots, generation, Len(stack), w)
    BY <1>1, <1>2, <1>6, <2>1, <2>3, AdvanceKeeps
  <2>5. stack' = Append(Below, w)
    BY <1>6 DEF Advance, next
  <2> HIDE DEF w
  <2>6. stack' = Append(Below, w) \o <<>>
    BY <1>1, <2>4, <2>5, NothingAbove, FrameKinds
  <2> QED BY <1>1, <1>3, <1>4, <2>4, <2>6, WalkReplaced
<1> QED BY <1>5, <1>6

\* In a reload: the plugins and its frame change, and a walk may begin above it.
LEMMA ReloadReplaced ==
    ASSUME ChainInv, Reloading, Books', generation' \in Nat, generation <= generation',
           Len(stack) = 2 => stack[1].gen # generation',
           NEW f \in ReloadFrame, ReloadShape(slots', generation', Len(stack), f, stack[1]),
           NEW more, more = <<>> \/ \E w \in Frames :
                /\ more = <<w>>
                /\ \A i, first : FrameShape(slots', generation', i, w, first),
           stack' = Append(Below, f) \o more
    PROVE  ChainInv'
<1> DEFINE n == Len(stack)
           t == Append(Below, f)
<1>0. f \in Frames /\ f.kind = "reload" /\ generation \in Nat
  BY FrameKinds, ChainAssumption DEF ChainInv, Books
<1>1. /\ n \in {1, 2} /\ t \in Seq(Frames) /\ Len(t) = n /\ t[n] = f
      /\ \A i \in 1..n - 1 : t[i] = stack[i]
  BY <1>0, TopReload, BelowLast DEF ChainInv, Below, Reloading
<1>2. FrameShape(slots', generation', n, f, stack[1])
  BY FrameOfReload
<1>3. \A i \in 1..n : FrameShape(slots', generation', i, t[i], t[1])
  <2>1. CASE n = 1
    <3>1. ReloadShape(slots', generation', 1, f, f)
      BY <2>1 DEF ReloadShape
    <3>2. FrameShape(slots', generation', 1, f, f)
      BY <3>1, FrameOfReload
    <3>3. \A i \in 1..1 : i = 1
      OBVIOUS
    <3> QED BY <1>1, <2>1, <3>2, <3>3
  <2>2. CASE n = 2
    <3>1. t[1] = stack[1] /\ t[2] = f
      BY <1>1, <2>2
    <3>2. ReloadShape(slots, generation, 2, Top, stack[1])
      BY <2>2, TopReload
    <3>3. stack[1].kind = "walk" /\ stack[1].reloaded
      BY <3>2 DEF ReloadShape
    <3>4. stack[1] \in WalkFrame /\ WalkShape(slots, generation, 1, stack[1])
      BY <2>2, <3>3 DEF ChainInv, FrameShape
    <3>5. WalkShape(slots', generation', 1, stack[1])
      BY <1>0, <2>2, <3>3, <3>4, OutlivesReload
    <3>6. FrameShape(slots', generation', 1, stack[1], stack[1])
      BY <3>4, <3>5, FrameOfWalk
    <3>7. \A i \in 1..2 : i = 1 \/ i = 2
      OBVIOUS
    <3> QED BY <1>2, <2>2, <3>1, <3>6, <3>7
  <2> QED BY <1>1, <2>1, <2>2
<1> HIDE DEF t
<1>4. CASE more = <<>>
  <2>1. stack' = t
    BY <1>1, <1>4, ConcatEmptySeq DEF t
  <2> QED BY <1>1, <1>3, <2>1 DEF ChainInv
<1>5. ASSUME NEW w \in Frames, more = <<w>>,
             \A i, first : FrameShape(slots', generation', i, w, first)
      PROVE  ChainInv'
  <2>1. /\ stack' \in Seq(Frames) /\ Len(stack') = n + 1 /\ stack'[n + 1] = w
        /\ \A i \in 1..n : stack'[i] = t[i]
    <3>1. <<w>> \in Seq(Frames) /\ Len(<<w>>) = 1 /\ <<w>>[1] = w /\ n + 1 - n = 1
      BY <1>1
    <3>2. stack' = t \o <<w>>
      BY <1>5 DEF t
    <3>3. /\ stack' \in Seq(Frames) /\ Len(stack') = n + 1
          /\ \A i \in 1..n + 1 : stack'[i] = IF i <= n THEN t[i] ELSE <<w>>[i - n]
      BY <1>1, <3>1, <3>2, ConcatProperties
    <3>4. n + 1 \in 1..n + 1 /\ ~(n + 1 <= n) /\ \A i \in 1..n : i \in 1..n + 1 /\ i <= n
      BY <1>1
    <3> QED BY <3>1, <3>3, <3>4
  <2>2. ASSUME NEW i \in 1..n + 1
        PROVE  FrameShape(slots', generation', i, stack'[i], stack'[1])
    <3>1. (i \in 1..n \/ i = n + 1) /\ 1 \in 1..n
      BY <1>1
    <3> QED BY <1>3, <1>5, <2>1, <3>1
  <2> QED BY <2>1, <2>2 DEF ChainInv
<1> QED BY <1>4, <1>5

\* The walk for an error in a plugin that is loaded.
LEMMA ErrorWalkBegins ==
    ASSUME slots' \in Seq(Slot), generation \in Nat \ {0}
    PROVE  /\ ErrorWalk \in Frames
           /\ \A i, first : FrameShape(slots', generation, i, ErrorWalk, first)
<1>1. "onError" \in AllEvents
  BY DEF AllEvents
<1>2. \A i : /\ ErrorWalk \in WalkFrame
             /\ WalkShape(slots', generation, i, ErrorWalk)
  BY <1>1, NewWalk DEF ErrorWalk
<1> QED BY <1>2, FrameOfWalk, FrameKinds

LEMMA RestartKeeps ==
    ASSUME ChainInv, RestartScripts
    PROVE  ChainInv'
<1>1. Books' /\ slots' = slots /\ generation' = generation /\ generation <= MaxReloads
  BY BooksKept DEF RestartScripts, ChainInv
<1>2. /\ Walk("onExit") \in Frames
      /\ \A i, first : FrameShape(slots, generation, i, Walk("onExit"), first)
  <2>1. "onExit" \in AllEvents
    BY DEF AllEvents
  <2> QED BY <2>1, WalkBegins DEF ChainInv
<1>3. ReloadBegins \in ReloadFrame /\ ReloadBegins \in Frames /\ ReloadBegins.at = 0
  <2>1. Len(Order) \in Nat
    BY ChainAssumption
  <2> QED BY <2>1, FrameKinds DEF ReloadBegins, ReloadFrame
<1>4. CASE stack = <<>> /\ stack' = <<ReloadBegins, Walk("onExit")>>
  <2>1. /\ stack' \in Seq(Frames) /\ Len(stack') = 2 /\ Len(stack) = 0
        /\ stack'[1] = ReloadBegins /\ stack'[2] = Walk("onExit")
    BY <1>2, <1>3, <1>4
  <2>2. ReloadShape(slots, generation, 1, ReloadBegins, ReloadBegins)
    BY <1>1, <1>3 DEF ReloadShape
  <2>3. FrameShape(slots, generation, 1, ReloadBegins, ReloadBegins)
    BY <1>3, <2>2, FrameOfReload
  <2>4. \A i \in 1..2 : (i = 1 \/ i = 2) /\ ~(i < 0)
    OBVIOUS
  <2> QED BY <1>1, <1>2, <2>1, <2>3, <2>4, StackStep
<1>5. CASE /\ Running /\ Len(stack) = 1 /\ Top.event = Command
           /\ stack' = <<[Top EXCEPT !.reloaded = TRUE], ReloadBegins, Walk("onExit")>>
  <2> DEFINE w == [Top EXCEPT !.reloaded = TRUE]
  <2>1. slots \in Seq(Slot) /\ generation \in Nat \ {0}
    BY ChainAssumption DEF Books, ChainInv
  <2>2. Top \in WalkFrame /\ WalkShape(slots, generation, 1, Top)
    BY <1>5, TopWalk DEF Running
  <2>3. w \in WalkFrame /\ WalkShape(slots, generation, 1, w) /\ w.reloaded
    BY <1>5, <2>1, <2>2, ReloadedKeeps DEF Running
  <2> HIDE DEF w
  <2>4. w \in Frames /\ w.kind = "walk" /\ FrameShape(slots, generation, 1, w, w)
    BY <2>3, FrameKinds, FrameOfWalk
  <2>5. stack' = <<w, ReloadBegins, Walk("onExit")>>
    BY <1>5 DEF w
  <2>6. /\ stack' \in Seq(Frames) /\ Len(stack') = 3 /\ stack'[1] = w
        /\ stack'[2] = ReloadBegins /\ stack'[3] = Walk("onExit")
    BY <1>2, <1>3, <2>4, <2>5
  <2>7. ReloadShape(slots, generation, 2, ReloadBegins, w)
    BY <1>1, <1>3, <2>3, <2>4 DEF ReloadShape
  <2>8. FrameShape(slots, generation, 2, ReloadBegins, w)
    BY <1>3, <2>7, FrameOfReload
  <2>9. \A i \in 1..3 : (i = 1 \/ i = 2 \/ i = 3) /\ ~(i < 1)
    OBVIOUS
  <2>10. \A i \in 1..3 : FrameShape(slots, generation, i, stack'[i], stack'[1])
    BY <1>2, <2>4, <2>6, <2>8, <2>9
  <2> QED BY <1>1, <1>5, <2>6, <2>9, <2>10, StackStep
<1> QED BY <1>4, <1>5 DEF RestartScripts

LEMMA ClearKeeps ==
    ASSUME ChainInv, Clear
    PROVE  ChainInv'
<1> DEFINE f == [Top EXCEPT !.at = 1]
<1>1. /\ Len(stack) \in {1, 2} /\ Top \in ReloadFrame /\ Reloading /\ stack # <<>>
      /\ ReloadShape(slots, generation, Len(stack), Top, stack[1]) /\ Top.at = 0
  BY TopReload DEF Clear, Reloading
<1>2. generation \in Nat \ {0} /\ MaxReloads \in Nat /\ Len(Order) \in Nat
  BY ChainAssumption DEF ChainInv, Books
<1>3. generation <= MaxReloads /\ generation' = generation + 1 /\ slots' = <<>>
  BY <1>1 DEF ReloadShape, Clear
<1>4. Books'
  <2>1. slots' \in Seq(Slot) /\ Len(slots') = 0
    BY <1>3
  <2>2. meta' \in [Scripts -> 0..Len(slots')] /\ \A p \in Scripts : meta'[p] = 0
    BY <2>1 DEF Clear
  <2>3. generation' \in 1..MaxReloads + 1
    BY <1>2, <1>3
  <2>4. enabled' \subseteq Scripts /\ bots' = {} /\ routes' = {} /\ fault' = fault
    BY DEF Clear, ClearOwned
  <2> QED BY <1>2, <2>1, <2>2, <2>3, <2>4 DEF ChainInv, Books
<1>5. f \in ReloadFrame /\ f.at = 1
  BY <1>1, <1>2 DEF ReloadFrame
<1>6. Len(stack) = 2 => /\ stack[1].kind = "walk" /\ stack[1].reloaded
                        /\ stack[1].gen # generation'
  <2>1. ASSUME Len(stack) = 2 PROVE /\ stack[1].kind = "walk" /\ stack[1].reloaded
                                    /\ stack[1].gen # generation'
    <3>1. stack[1].kind = "walk" /\ stack[1].reloaded
      BY <1>1, <2>1 DEF ReloadShape
    <3>2. WalkShape(slots, generation, 1, stack[1])
      BY <2>1, <3>1 DEF ChainInv, FrameShape
    <3>3. stack[1].gen \in 1..generation
      BY <3>2 DEF WalkShape
    <3>4. stack[1].gen # generation'
      BY <1>2, <1>3, <3>3
    <3> QED BY <3>1, <3>4
  <2> QED BY <2>1
<1>7. ReloadShape(slots', generation', Len(stack), f, stack[1])
  <2>1. Len(slots') < f.at /\ f.at # 0
    BY <1>3, <1>5
  <2> QED BY <1>1, <1>6, <2>1 DEF ReloadShape
<1>8. stack' = Append(Below, f)
  BY DEF Clear
<1> HIDE DEF f
<1>9. stack' = Append(Below, f) \o <<>>
  BY <1>1, <1>5, <1>8, NothingAbove, FrameKinds
<1>10. generation' \in Nat /\ generation <= generation'
  BY <1>2, <1>3
<1> QED BY <1>1, <1>4, <1>5, <1>6, <1>7, <1>9, <1>10, ReloadReplaced

\* The reload goes on to the next plugin, with q loaded.
LEMMA NextFrame ==
    ASSUME ChainInv, Reloading, Top.at \in DOMAIN Order,
           NEW q, Len(q) \in Nat, Len(q) <= Len(slots) + 1
    PROVE  /\ Next1(Top.at) \in ReloadFrame
           /\ ReloadShape(q, generation, Len(stack), Next1(Top.at), stack[1])
           /\ Len(stack) = 2 => stack[1].gen # generation
           /\ Len(slots) < Len(Order)
<1>1. /\ Len(stack) \in {1, 2} /\ Top \in ReloadFrame
      /\ ReloadShape(slots, generation, Len(stack), Top, stack[1])
  BY TopReload
<1>2. Len(Order) \in Nat /\ DOMAIN Order = 1..Len(Order) /\ Len(slots) \in Nat
  BY ChainAssumption DEF ChainInv, Books
<1>3. Top.at \in Nat /\ Top.at > 0 /\ Top.at <= Len(Order) /\ Top.at + 1 \in 0..Len(Order) + 1
  BY <1>2
<1>4. Next1(Top.at) \in ReloadFrame /\ Next1(Top.at).at = Top.at + 1
  BY <1>1, <1>3 DEF Next1, ReloadFrame
<1>5. Len(slots) < Top.at /\ (Len(stack) = 2 => stack[1].gen # generation)
  BY <1>1, <1>3 DEF ReloadShape
<1>6. Len(q) < Top.at + 1 /\ Top.at + 1 # 0 /\ Len(slots) < Len(Order)
  BY <1>2, <1>3, <1>5
<1>7. ReloadShape(q, generation, Len(stack), Next1(Top.at), stack[1])
  BY <1>1, <1>4, <1>5, <1>6 DEF ReloadShape
<1> QED BY <1>4, <1>5, <1>6, <1>7

LEMMA SkipDisabledKeeps ==
    ASSUME ChainInv, SkipDisabled
    PROVE  ChainInv'
<1> DEFINE f == Next1(Top.at)
<1>1. Books' /\ slots' = slots /\ generation' = generation /\ Reloading /\ stack # <<>>
      /\ Top.at \in DOMAIN Order
  BY BooksKept DEF SkipDisabled, ChainInv, Reloading
<1>2. Len(slots) \in Nat /\ Len(slots) <= Len(slots) + 1 /\ generation \in Nat
      /\ generation <= generation
  BY ChainAssumption DEF ChainInv, Books
<1>3. /\ f \in ReloadFrame /\ ReloadShape(slots, generation, Len(stack), f, stack[1])
      /\ Len(stack) = 2 => stack[1].gen # generation
  BY <1>1, <1>2, NextFrame
<1>4. stack' = Append(Below, f)
  BY DEF SkipDisabled
<1> HIDE DEF f
<1>5. stack' = Append(Below, f) \o <<>>
  BY <1>1, <1>3, <1>4, NothingAbove, FrameKinds
<1> QED BY <1>1, <1>2, <1>3, <1>5, ReloadReplaced

LEMMA LoadMissingKeeps ==
    ASSUME ChainInv, LoadMissing
    PROVE  ChainInv'
<1> DEFINE f == Next1(Top.at)
<1>1. Books' /\ slots' = slots /\ generation' = generation /\ Reloading
      /\ Top.at \in DOMAIN Order
  BY BooksKept DEF LoadMissing, ChainInv
<1>2. Len(slots) \in Nat /\ Len(slots) <= Len(slots) + 1 /\ generation \in Nat \ {0}
      /\ generation <= generation /\ slots' \in Seq(Slot)
  BY <1>1, ChainAssumption DEF ChainInv, Books
<1>3. /\ f \in ReloadFrame /\ ReloadShape(slots, generation, Len(stack), f, stack[1])
      /\ Len(stack) = 2 => stack[1].gen # generation
  BY <1>1, <1>2, NextFrame
<1>4. /\ ErrorWalk \in Frames
      /\ \A i, first : FrameShape(slots', generation, i, ErrorWalk, first)
  BY <1>2, ErrorWalkBegins
<1>5. stack' = Append(Below, f) \o <<ErrorWalk>>
  BY DEF LoadMissing
<1> HIDE DEF f
<1> QED BY <1>1, <1>2, <1>3, <1>4, <1>5, ReloadReplaced

LEMMA LoadKeeps ==
    ASSUME ChainInv, NEW outcome \in {"loaded", "raised", "syntax"}, Load(outcome)
    PROVE  ChainInv'
<1> DEFINE f == Next1(Top.at)
           p == Order[Top.at]
           s == [plugin |-> p, outcome |-> outcome]
           more == IF outcome = "loaded" THEN <<>> ELSE <<ErrorWalk>>
<1>1. /\ generation' = generation /\ Reloading /\ Top.at \in DOMAIN Order
      /\ slots' = Append(slots, s) /\ UNCHANGED <<enabled, routes, fault>>
      /\ meta' = IF outcome = "loaded" THEN [meta EXCEPT ![p] = Key] ELSE meta
      /\ bots' = IF outcome = "syntax" THEN bots ELSE bots \cup {<<p, generation>>}
      /\ stack' = Append(Below, f) \o more
  BY DEF Load
<1>2. /\ Len(slots) \in Nat /\ generation \in Nat \ {0} /\ slots \in Seq(Slot)
      /\ generation <= generation
  BY ChainAssumption DEF ChainInv, Books
<1>3. p \in Scripts
  BY <1>1 DEF Scripts
<1>4. s \in Slot
  BY <1>3 DEF Slot
<1>5. /\ slots' \in Seq(Slot) /\ Len(slots') = Len(slots) + 1 /\ slots'[Len(slots) + 1] = s
      /\ \A k \in 1..Len(slots) : slots'[k] = slots[k]
  BY <1>1, <1>2, <1>4
<1>6. Len(slots') \in Nat /\ Len(slots') <= Len(slots) + 1
  BY <1>2, <1>5
<1>7. /\ f \in ReloadFrame /\ ReloadShape(slots', generation, Len(stack), f, stack[1])
      /\ Len(stack) = 2 => stack[1].gen # generation
      /\ Len(slots) < Len(Order)
  BY <1>1, <1>6, NextFrame
<1>8. Books'
  <2>1. Len(slots') <= Len(Order)
    <3>1. Len(Order) \in Nat
      BY ChainAssumption
    <3> QED BY <1>2, <1>5, <1>7, <3>1
  <2>2. meta' \in [Scripts -> 0..Len(slots')]
    <3>1. meta \in [Scripts -> 0..Len(slots')]
      BY <1>2, <1>5 DEF ChainInv, Books
    <3>2. Key \in 0..Len(slots')
      BY <1>2, <1>5 DEF Key
    <3> QED BY <1>1, <3>1, <3>2
  <2>3. ASSUME NEW o \in Scripts, meta'[o] # 0
        PROVE  slots'[meta'[o]] = [plugin |-> o, outcome |-> "loaded"]
    <3>1. meta \in [Scripts -> 0..Len(slots)]
      BY DEF ChainInv, Books
    <3>2. CASE o = p /\ outcome = "loaded"
      <4>1. meta'[o] = Len(slots) + 1
        BY <1>1, <1>3, <3>1, <3>2 DEF Key
      <4> QED BY <1>5, <3>2, <4>1
    <3>3. CASE ~(o = p /\ outcome = "loaded")
      <4>1. meta'[o] = meta[o]
        BY <1>1, <3>1, <3>3
      <4>2. meta[o] \in 1..Len(slots)
        BY <1>2, <2>3, <3>1, <4>1
      <4>3. slots[meta[o]] = [plugin |-> o, outcome |-> "loaded"]
        BY <2>3, <4>1 DEF ChainInv, Books
      <4> QED BY <1>5, <4>1, <4>2, <4>3
    <3> QED BY <3>2, <3>3
  <2>4. bots' \subseteq Scripts \X {generation}
    <3>1. bots \subseteq Scripts \X {generation}
      BY DEF ChainInv, Books
    <3> QED BY <1>1, <1>3, <3>1
  <2> QED BY <1>1, <1>5, <2>1, <2>2, <2>3, <2>4 DEF ChainInv, Books
<1>9. more = <<>> \/ \E w \in Frames :
        more = <<w>> /\ \A i, first : FrameShape(slots', generation', i, w, first)
  BY <1>1, <1>2, <1>5, ErrorWalkBegins
<1>10. stack' = Append(Below, f) \o more
  BY <1>1
<1> HIDE DEF f, more
<1> QED BY <1>1, <1>2, <1>7, <1>8, <1>9, <1>10, ReloadReplaced

LEMMA StartKeeps ==
    ASSUME ChainInv, FireOnStart
    PROVE  ChainInv'
<1>1. Books' /\ slots' = slots /\ generation' = generation /\ stack # <<>>
  BY BooksKept DEF FireOnStart, ChainInv, Reloading
<1>2. "onStart" \in AllEvents
  BY DEF AllEvents
<1>3. /\ Walk("onStart") \in Frames
      /\ \A i, first : FrameShape(slots, generation, i, Walk("onStart"), first)
  BY <1>2, WalkBegins DEF ChainInv
<1>4. stack' = Append(Below, Walk("onStart")) \o <<>>
  BY <1>1, <1>3, NothingAbove DEF FireOnStart
<1> QED BY <1>1, <1>3, <1>4, TopReplaced

----------------------------------------------------------------------------
(* The plugins: the theorems. *)

LEMMA ChainInitInv == ChainInit => ChainInv
<1> SUFFICES ASSUME ChainInit PROVE ChainInv
  OBVIOUS
<1> DEFINE f == [kind |-> "reload", at |-> 1]
<1>1. Len(Order) \in Nat /\ MaxReloads \in Nat
  BY ChainAssumption
<1>2. slots = <<>> /\ Len(slots) = 0 /\ generation = 1
  BY DEF ChainInit
<1>3. Books
  <2>1. slots \in Seq(Slot) /\ 1 \in 1..MaxReloads + 1
    BY <1>1, <1>2
  <2>2. meta \in [Scripts -> 0..Len(slots)] /\ \A p \in Scripts : meta[p] = 0
    BY <1>2 DEF ChainInit
  <2> QED BY <1>1, <1>2, <2>1, <2>2 DEF ChainInit, Books
<1>4. f \in ReloadFrame /\ f.at = 1 /\ f \in Frames
  BY <1>1, FrameKinds DEF ReloadFrame
<1>5. ReloadShape(slots, generation, 1, f, f)
  BY <1>2, <1>4 DEF ReloadShape
<1>6. FrameShape(slots, generation, 1, f, f)
  BY <1>4, <1>5, FrameOfReload
<1>7. stack = <<f>>
  BY DEF ChainInit
<1> HIDE DEF f
<1>8. stack \in Seq(Frames) /\ Len(stack) = 1 /\ stack[1] = f
  BY <1>4, <1>7
<1> QED BY <1>3, <1>6, <1>8 DEF ChainInv

\* The invariant of the walks and of the reload holds: every step of the code keeps it.
THEOREM ChainInvCorrect == ChainSpec => []ChainInv
<1>1. ChainInit => ChainInv
  BY ChainInitInv
<1>2. ChainInv /\ [ChainNext]_chainVars => ChainInv'
  <2> SUFFICES ASSUME ChainInv, [ChainNext]_chainVars PROVE ChainInv'
    OBVIOUS
  <2>1. ASSUME NEW ev \in Events, Fire(ev) PROVE ChainInv'
    BY <2>1, FireKeeps
  <2>2. ASSUME NEW id, Call(id) PROVE ChainInv'
    BY <2>2, CallStep
  <2>3. ASSUME NEW ev \in Inner, FireInside(ev) PROVE ChainInv'
    BY <2>3, FireInsideKeeps
  <2>4. ASSUME NEW r \in Results, Return(r) PROVE ChainInv'
    BY <2>4, ReturnKeeps
  <2>5. CASE Raise
    BY <2>5, RaiseKeeps
  <2>6. CASE Advance
    BY <2>6, AdvanceStep
  <2>7. CASE RestartScripts
    BY <2>7, RestartKeeps
  <2>8. CASE Clear
    BY <2>8, ClearKeeps
  <2>9. CASE SkipDisabled
    BY <2>9, SkipDisabledKeeps
  <2>10. CASE LoadMissing
    BY <2>10, LoadMissingKeeps
  <2>11. ASSUME NEW outcome \in {"loaded", "raised", "syntax"}, Load(outcome) PROVE ChainInv'
    BY <2>11, LoadKeeps
  <2>12. CASE FireOnStart
    BY <2>12, StartKeeps
  <2>13. CASE UNCHANGED chainVars
    BY <2>13 DEF chainVars, ChainInv, Books
  <2> QED BY <2>1, <2>2, <2>3, <2>4, <2>5, <2>6, <2>7, <2>8, <2>9, <2>10, <2>11, <2>12, <2>13
          DEF ChainNext
<1> QED BY <1>1, <1>2, PTL DEF ChainSpec

\* The books of the plugin manager hold what they are meant to.
THEOREM ChainTypeCorrect == ChainSpec => []ChainTypeOK
<1>1. ChainInv => ChainTypeOK
  <2> SUFFICES ASSUME ChainInv PROVE ChainTypeOK
    OBVIOUS
  <2>1. Books
    BY DEF ChainInv
  <2>2. Len(Order) \in Nat /\ Len(slots) \in Nat /\ generation \in Nat \ {0}
    BY <2>1, ChainAssumption DEF Books
  <2>3. \A k \in DOMAIN slots : slots[k] \in Slot
    BY <2>1 DEF Books
  <2>4. meta \in [Scripts -> 0..Len(Order)]
    BY <2>1, <2>2 DEF Books
  <2>5. generation \in 1..generation
    BY <2>2
  <2>6. bots \cup routes \subseteq Scripts \X (1..generation)
    BY <2>1, <2>5 DEF Books
  <2> QED BY <2>1, <2>3, <2>4, <2>6 DEF ChainTypeOK, Books, Slot, Results
<1> QED BY <1>1, ChainInvCorrect, PTL

\* ChainDecides: the first result that is not nil decides the event.
THEOREM ChainDecidesCorrect == ChainSpec => []ChainDecides
<1>1. ChainInv => ChainDecides
  <2> SUFFICES ASSUME ChainInv, NEW i \in Walks
               PROVE  LET walk == stack[i]
                          truthy == {n \in DOMAIN walk.asked : walk.asked[n].r # "nil"}
                          decides(n) == n \in truthy /\ \A l \in truthy : n <= l IN
                      /\ \A n \in truthy :
                          decides(n) /\ walk.asked[n].r = "PROCESSED"
                              => walk.k = walk.asked[n].k
                      /\ walk.gen = generation =>
                          \A k \in 1..walk.k - 1 :
                              Cardinality({n \in DOMAIN walk.asked : walk.asked[n].k = k})
                                  = Cardinality(Listeners(k, walk.event))
    BY Zenon DEF ChainDecides
  <2> DEFINE walk == stack[i]
             truthy == {n \in DOMAIN walk.asked : walk.asked[n].r # "nil"}
  <2>1. walk \in WalkFrame /\ WalkShape(slots, generation, i, walk)
    <3>1. i \in 1..Len(stack) /\ walk.kind = "walk"
      BY DEF ChainInv, Walks
    <3> QED BY <3>1 DEF ChainInv, FrameShape
  <2> HIDE DEF walk
  <2>2. walk.asked \in Seq([k : Nat, r : Results]) /\ DOMAIN walk.asked = 1..Len(walk.asked)
        /\ Len(walk.asked) \in Nat
    BY <2>1 DEF WalkFrame
  <2>3. ASSUME NEW n \in truthy, \A l \in truthy : n <= l, walk.asked[n].r = "PROCESSED"
        PROVE  walk.k = walk.asked[n].k
    <3>1. n \in 1..Len(walk.asked) /\ walk.asked[n].r # "nil"
      BY <2>2
    <3>2. ASSUME NEW l \in 1..n - 1 PROVE walk.asked[l].r = "nil"
      <4>1. l \in DOMAIN walk.asked /\ ~(n <= l)
        BY <2>2, <3>1
      <4> QED BY <2>3, <4>1
    <3> QED BY <2>1, <2>2, <2>3, <3>1, <3>2 DEF WalkShape, Decided
  <2>4. ASSUME walk.gen = generation, NEW k \in 1..walk.k - 1
        PROVE  Cardinality({n \in DOMAIN walk.asked : walk.asked[n].k = k})
                    = Cardinality(Listeners(k, walk.event))
    <3>1. Listeners(k, walk.event) = ListenersOf(slots, k, walk.event)
      BY DEF Listeners
    <3>2. Current(slots, walk)
      BY <2>1, <2>4 DEF WalkShape
    <3> QED BY <3>1, <3>2 DEF Current, Given
  <2> QED BY <2>3, <2>4 DEF walk
<1> QED BY <1>1, ChainInvCorrect, PTL

\* ReloadEndsWalk: a reload ends the walk it was asked for in, and no walk leaves the
\* slots, unless an earlier listener had taken the result away.
THEOREM ReloadEndsWalkCorrect == ChainSpec => []ReloadEndsWalk
<1>1. ChainInv => ReloadEndsWalk
  <2> SUFFICES ASSUME ChainInv PROVE ReloadEndsWalk
    OBVIOUS
  <2>1. fault \in {Nothing, "other"}
    BY DEF ChainInv, Books
  <2>2. ASSUME NEW i \in Walks, stack[i].gen # generation, stack[i].ret # "other"
        PROVE  stack[i].running # Nothing \/ stack[i].ret = "PROCESSED"
    <3>1. i \in 1..Len(stack) /\ stack[i].kind = "walk"
      BY DEF ChainInv, Walks
    <3>2. WalkShape(slots, generation, i, stack[i])
      BY <3>1 DEF ChainInv, FrameShape
    <3> QED BY <2>2, <3>2 DEF WalkShape
  <2> QED BY <2>1, <2>2 DEF ReloadEndsWalk
<1> QED BY <1>1, ChainInvCorrect, PTL

\* OwnedByLoaded: bots and routes are of the plugins there are, and each plugin that is
\* loaded has the slot that is its own.
THEOREM OwnedByLoadedCorrect == ChainSpec => []OwnedByLoaded
<1>1. ChainInv => OwnedByLoaded
  BY DEF ChainInv, Books, OwnedByLoaded
<1> QED BY <1>1, ChainInvCorrect, PTL

=============================================================================
