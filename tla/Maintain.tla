------------------------------- MODULE Maintain -------------------------------
(***************************************************************************)
(* The application's maintain loop (app.rs): it keeps one AirPlay receiver *)
(* (airplay/mod.rs) and one warm Cast worker thread (cast/pool.rs) per     *)
(* registered speaker, while sessions start and end, an ownership notice   *)
(* ends a session and kicks its sender, and the program shuts down.        *)
(*                                                                         *)
(* The loop takes one lock at a time and awaits in between, so every step  *)
(* below is what it does up to the next await or the next lock that others *)
(* take.                                                                   *)
(***************************************************************************)
EXTENDS Naturals, FiniteSets

CONSTANTS
  Devices, Versions,
  Nobody,       \* no device
  RestartMax,   \* MAINTAIN_RESTART_MAX
  MaxSightings, \* bound: times discovery registers or marks a speaker
  MaxSessions,  \* bound: sessions that start
  MaxSteals,    \* bound: ownership notices
  MaxFaults,    \* bound: panics, receivers that fail to start, terminal
                \* Cast failures and joins that time out
  Exits         \* whether the program is told to shut down

ASSUME DeviceAssumption == Nobody \notin Devices /\ Versions \subseteq Nat \ {0}
ASSUME BoundsAssumption ==
  /\ RestartMax \in Nat /\ MaxSightings \in Nat /\ MaxSessions \in Nat
  /\ MaxSteals \in Nat /\ MaxFaults \in Nat /\ Exits \in BOOLEAN

VARIABLES
  os,            \* the platform the program was built for
  registry, cancellations,
  receivers,     \* receivers[d]: name version of d's AirPlay receiver, or 0
  kicking,       \* devices AirPlayManager::ensure leaves alone
  workers,       \* workers[d]: the pool's entry, a tombstone while exiting
  threads,       \* threads[d]: Cast worker threads that run for d
  terminal,      \* workers that latched a terminal failure
  reaping,       \* reaping[d]: who waits for d's thread to exit
  session,       \* session[d]: bridge session; cut: its receiver was removed
  since,         \* since[d]: not_desired_since, within the floor or beyond
  blocked,       \* session_blocked
  tick,          \* where the maintain task is, and its locals
  restarts,
  kick,          \* the ownership watch: where it is, the device, the name
  notices,       \* ownership notices in the channel
  stage,         \* how far App::run has come
  sightings, started, steals, faults,
  held           \* history: sessions that live since the tick began
vars == <<os, registry, cancellations, receivers, kicking, workers, threads,
          terminal, reaping, session, since, blocked, tick, restarts, kick,
          notices, stage, sightings, started, steals, faults, held>>

R == INSTANCE Registry

registryVars == <<os, registry, cancellations>>
airplay == <<receivers, kicking>>
pool    == <<workers, threads, terminal, reaping>>
guards  == <<since, blocked>>
watch   == <<kick, notices>>
counts  == <<sightings, started, steals, faults>>

NoWorker == [state |-> "none", ver |-> 0]
Live(v)  == [state |-> "live", ver |-> v]
NoKick   == [pc |-> "idle", dev |-> Nobody, name |-> 0]
Idle     == [pc |-> "idle", at |-> Nobody, todo |-> {}, then |-> "idle",
             devices |-> [d \in Devices |-> 0], prev |-> {}]
TickPcs  == {"idle", "expire", "stale", "list", "snapshot", "warm", "hide", "guard",
             "look", "build", "decide", "withdraw", "unwarm", "join",
             "orphans", "exit", "done", "dead"}

TypeOK ==
  /\ R!TypeOK /\ os \in {"macos", "linux"}
  /\ receivers \in [Devices -> Versions \union {0}]
  /\ kicking \subseteq Devices
  /\ workers \in [Devices -> [state: {"none", "live", "exiting"},
                              ver: Versions \union {0}]]
  /\ threads \in [Devices -> 0..2] /\ terminal \subseteq Devices
  /\ reaping \in [Devices -> {"no", "join", "reaper"}]
  /\ session \in [Devices -> {"none", "live", "cut"}]
  /\ since \in [Devices -> {"unset", "recent", "old"}]
  /\ blocked \subseteq Devices
  /\ tick \in [pc: TickPcs, at: Devices \union {Nobody}, todo: SUBSET Devices,
               then: {"idle", "stale", "decide", "orphans"},
               devices: [Devices -> Versions \union {0}], prev: SUBSET Devices]
  /\ restarts \in Nat
  /\ kick \in [pc: {"idle", "ended", "stop", "hold"},
               dev: Devices \union {Nobody}, name: Versions \union {0}]
  /\ notices \subseteq Devices
  /\ stage \in {"run", "signal", "bridge", "pool", "down"}
  /\ held \subseteq Devices

Init ==
  /\ R!Init /\ os \in {"macos", "linux"}
  /\ receivers = [d \in Devices |-> 0] /\ kicking = {}
  /\ workers = [d \in Devices |-> NoWorker]
  /\ threads = [d \in Devices |-> 0] /\ terminal = {}
  /\ reaping = [d \in Devices |-> "no"]
  /\ session = [d \in Devices |-> "none"]
  /\ since = [d \in Devices |-> "unset"] /\ blocked = {}
  /\ tick = Idle /\ restarts = 0
  /\ kick = NoKick /\ notices = {} /\ stage = "run"
  /\ sightings = 0 /\ started = 0 /\ steals = 0 /\ faults = 0 /\ held = {}

-----------------------------------------------------------------------------
(* What others do: discovery, senders, the speakers, time. *)

Discovers ==
  /\ stage \in {"run", "signal"} /\ sightings < MaxSightings
  /\ sightings' = sightings + 1
  /\ \E d \in Devices :
       \/ \E v \in Versions : R!Appear(d, v)
       \/ os = "macos" /\ R!MarkPendingLeave(d)
       \/ R!Leave(d)
  /\ UNCHANGED <<os, airplay, pool, guards, watch, session, tick, restarts,
                 stage, started, steals, faults, held>>

TimePasses(d) ==
  /\ R!Pass({d}, {}) \/ R!Pass({}, {d})
  /\ UNCHANGED <<os, airplay, pool, guards, watch, session, tick, restarts,
                 stage, counts, held>>

\* SESSION_GUARD_GONE has passed since since[d] was set.
FloorPasses(d) ==
  /\ since[d] = "recent" /\ since' = [since EXCEPT ![d] = "old"]
  /\ UNCHANGED <<registryVars, airplay, pool, blocked, watch, session, tick,
                 restarts, stage, counts, held>>

HasSession(d) == session[d] # "none"

\* A sender connects to the receiver and the bridge accepts its session.
SessionStarts(d) ==
  /\ receivers[d] # 0 /\ ~HasSession(d) /\ started < MaxSessions
  /\ stage \in {"run", "signal"}
  /\ session' = [session EXCEPT ![d] = "live"] /\ started' = started + 1
  /\ UNCHANGED <<registryVars, airplay, pool, guards, watch, tick, restarts,
                 stage, sightings, steals, faults, held>>

\* The sender leaves, or its connection was closed with the receiver.
SessionEnds(d) ==
  /\ HasSession(d)
  /\ session' = [session EXCEPT ![d] = "none"] /\ held' = held \ {d}
  /\ UNCHANGED <<registryVars, airplay, pool, guards, watch, tick, restarts,
                 stage, counts>>

\* A worker latches a terminal failure (B4) for its lifetime.
CastBreaks(d) ==
  /\ workers[d].state # "none" /\ d \notin terminal /\ faults < MaxFaults
  /\ terminal' = terminal \union {d} /\ faults' = faults + 1
  /\ UNCHANGED <<registryVars, airplay, workers, threads, reaping, guards,
                 watch, session, tick, restarts, stage, sightings, started,
                 steals, held>>

-----------------------------------------------------------------------------
(* The Cast worker pool. *)

\* (mutant) a worker that is unwinding does not count
EnsureOverTombstone(d, v) ==
  IF workers[d].state = "live"
  THEN workers' = [workers EXCEPT ![d] = Live(v)] /\ UNCHANGED threads
  ELSE /\ workers' = [workers EXCEPT ![d] = Live(v)]
       /\ threads' = [threads EXCEPT ![d] = @ + 1]

\* A live worker is retargeted, a tombstone left alone, a missing one spawned.
EnsureWorker(d, v) ==
  CASE workers[d].state = "exiting" -> UNCHANGED <<workers, threads>>
    [] workers[d].state = "live" ->
         workers' = [workers EXCEPT ![d] = Live(v)] /\ UNCHANGED threads
    [] OTHER -> /\ workers' = [workers EXCEPT ![d] = Live(v)]
                /\ threads' = [threads EXCEPT ![d] = @ + 1]

IsReachable(d)      == workers[d].state = "live" /\ d \notin terminal
IsTerminalFailed(d) == workers[d].state # "none" /\ d \in terminal

\* The entry turns into a tombstone and the thread is told to stop.
RemoveWorkers(gone) ==
  LET live == {d \in gone : workers[d].state = "live"}
  IN  /\ workers' = [d \in Devices |->
           IF d \in live THEN [workers[d] EXCEPT !.state = "exiting"]
                         ELSE workers[d]]
      /\ reaping' = [d \in Devices |-> IF d \in live THEN "join"
                                                      ELSE reaping[d]]
      /\ UNCHANGED <<threads, terminal>>

\* The thread ends, and whoever waits for it removes the entry.
WorkerExits(d) ==
  /\ reaping[d] # "no"
  /\ threads' = [threads EXCEPT ![d] = @ - 1]
  /\ workers' = [workers EXCEPT ![d] = NoWorker]
  /\ terminal' = terminal \ {d} /\ reaping' = [reaping EXCEPT ![d] = "no"]
  /\ UNCHANGED <<registryVars, airplay, guards, watch, session, tick, restarts,
                 stage, counts, held>>

\* JOIN_TIMEOUT: the tombstone stays and a reaper thread waits on.
JoinTimesOut(d) ==
  /\ reaping[d] = "join" /\ faults < MaxFaults /\ faults' = faults + 1
  /\ reaping' = [reaping EXCEPT ![d] = "reaper"]
  /\ UNCHANGED <<registryVars, airplay, workers, threads, terminal, guards,
                 watch, session, tick, restarts, stage, sightings, started,
                 steals, held>>

-----------------------------------------------------------------------------
(* The maintain task.  At(pc, d) moves it on; next(pc) is the loop's head. *)

Running == stage = "run"
others  == <<os, kicking, watch, stage, counts>>

Goto(pc)          == tick' = [tick EXCEPT !.pc = pc, !.at = Nobody]
GotoAt(pc, d)     == tick' = [tick EXCEPT !.pc = pc, !.at = d, !.todo = @ \ {d}]
Loop(pc, over)    == tick' = [tick EXCEPT !.pc = pc, !.at = Nobody, !.todo = over]
Skip(d)           == tick' = [tick EXCEPT !.todo = @ \ {d}]

\* receivers.remove and its hard stop: the sender's connection is closed.
Withdrawn(gone) ==
  /\ receivers' = [d \in Devices |-> IF d \in gone THEN 0 ELSE receivers[d]]
  /\ session' = [d \in Devices |->
       IF d \in gone /\ receivers[d] # 0 /\ session[d] = "live" THEN "cut"
                                                            ELSE session[d]]

\* apply_due_leaves: the floor counts from when the leave began.
BeginTick ==
  /\ tick.pc = "idle" /\ Running
  /\ R!TakeDueLeaves
  /\ since' = [d \in Devices |-> IF d \in R!DueLeaves THEN "recent"
                                                     ELSE since[d]]
  /\ Loop("expire", {})
  /\ held' = {d \in Devices : session[d] = "live"}
  /\ UNCHANGED <<others, receivers, pool, blocked, session, restarts>>

\* On Linux only entries whose Cast worker is not reachable expire.
ExpireStale ==
  /\ tick.pc = "expire"
  /\ \E keep \in SUBSET (IF os = "linux" THEN {d \in Devices : IsReachable(d)}
                                         ELSE {}) :
       R!ExpireStale(keep) /\ Loop("stale", R!Stale \ keep)
  /\ UNCHANGED <<others, receivers, pool, guards, session, restarts, held>>

StaleDevice(d) ==
  /\ tick.pc = "stale" /\ d \in tick.todo
  /\ since' = [since EXCEPT ![d] = "old"]
  /\ IF HasSession(d)
     THEN blocked' = blocked \union {d} /\ Skip(d)
     ELSE /\ tick' = [tick EXCEPT !.pc = "withdraw", !.at = d,
                                  !.todo = @ \ {d}, !.then = "stale"]
          /\ UNCHANGED blocked
  /\ UNCHANGED <<others, registry, cancellations, receivers, pool, session,
                 restarts, held>>

StaleDone == tick.pc = "stale" /\ tick.todo = {} /\ Goto("list")
             /\ UNCHANGED <<others, registry, cancellations, receivers, pool,
                            guards, session, restarts, held>>

List ==
  /\ tick.pc = "list" /\ R!DrainCancellations
  /\ tick' = [tick EXCEPT !.pc = "snapshot",
                          !.devices = [d \in Devices |-> registry[d].ver]]
  /\ UNCHANGED <<others, receivers, pool, guards, session, restarts, held>>

Active == {d \in Devices : receivers[d] # 0}
Desired(d) == tick.devices[d] # 0

Snapshot ==
  /\ tick.pc = "snapshot"
  /\ tick' = [tick EXCEPT !.pc = "warm", !.prev = Active,
                          !.todo = {d \in Devices : Desired(d)}]
  /\ UNCHANGED <<others, registry, cancellations, receivers, pool, guards,
                 session, restarts, held>>

Warm(d) ==
  /\ tick.pc = "warm" /\ d \in tick.todo
  /\ EnsureWorker(d, tick.devices[d])
  /\ GotoAt("guard", d)
  /\ UNCHANGED <<others, registry, cancellations, receivers, terminal, reaping,
                 guards, session, restarts, held>>

\* (mutant) a rename rebuilds the receiver under a session
GuardNoSession(d) == IF IsTerminalFailed(d) THEN "hide"
                     ELSE IF d \in kicking THEN "warm" ELSE "look"

\* A broken Cast sink is hidden; a session or a kick leaves the ad as it is.
AfterGuard(d) ==
  IF IsTerminalFailed(d) THEN "hide"
  ELSE IF (d \in tick.prev /\ HasSession(d)) \/ d \in kicking THEN "warm"
  ELSE "look"

Guard ==
  /\ tick.pc = "guard"
  /\ tick' = [tick EXCEPT !.pc = AfterGuard(tick.at)]
  /\ UNCHANGED <<others, registry, cancellations, receivers, pool, guards,
                 session, restarts, held>>

Hide ==
  /\ tick.pc = "hide" /\ Withdrawn({tick.at}) /\ Goto("warm")
  /\ UNCHANGED <<others, registry, cancellations, pool, guards, restarts, held>>

\* AirPlayManager::ensure: another name removes the receiver first.
Look ==
  /\ tick.pc = "look"
  /\ IF receivers[tick.at] = tick.devices[tick.at]
     THEN Goto("warm") /\ UNCHANGED <<receivers, session>>
     ELSE Withdrawn({tick.at}) /\ tick' = [tick EXCEPT !.pc = "build"]
  /\ UNCHANGED <<others, registry, cancellations, pool, guards, restarts, held>>

Build ==
  /\ tick.pc = "build" /\ Goto("warm")
  /\ \/ /\ receivers' = [receivers EXCEPT ![tick.at] = tick.devices[tick.at]]
        /\ UNCHANGED faults
     \/ /\ faults < MaxFaults /\ faults' = faults + 1
        /\ UNCHANGED receivers
  /\ UNCHANGED <<registryVars, kicking, watch, stage, sightings, started,
                 steals, pool, guards, session, restarts, held>>

WarmDone ==
  /\ tick.pc = "warm" /\ tick.todo = {} /\ Loop("decide", Active)
  /\ UNCHANGED <<others, registry, cancellations, receivers, pool, guards,
                 session, restarts, held>>

\* (mutant) the time of leaving is not filled in when none was recorded
DecideRecorded(d) ==
  /\ tick.pc = "decide" /\ d \in tick.todo
  /\ UNCHANGED guards
  /\ IF Desired(d) \/ R!Registered(d) \/ HasSession(d) \/ since[d] = "unset"
     THEN Skip(d)
     ELSE tick' = [tick EXCEPT !.pc = "withdraw", !.at = d,
                               !.todo = @ \ {d}, !.then = "decide"]
  /\ UNCHANGED <<others, registry, cancellations, receivers, pool, session,
                 restarts, held>>

\* withdraw_undesired, for one receiver.
Decide(d) ==
  /\ tick.pc = "decide" /\ d \in tick.todo
  /\ IF Desired(d) \/ R!Registered(d)
     THEN /\ since' = [since EXCEPT ![d] = "unset"]
          /\ blocked' = blocked \ {d} /\ Skip(d)
     ELSE /\ since' = [since EXCEPT ![d] = IF @ = "unset" THEN "recent" ELSE @]
          /\ blocked' = IF HasSession(d) THEN blocked \union {d} ELSE blocked
          /\ IF HasSession(d) \/ (d \in blocked /\ since'[d] = "recent")
             THEN Skip(d)
             ELSE tick' = [tick EXCEPT !.pc = "withdraw", !.at = d,
                                       !.todo = @ \ {d}, !.then = "decide"]
  /\ UNCHANGED <<others, registry, cancellations, receivers, pool, session,
                 restarts, held>>

\* The session was absent a moment ago; no lock is held.
Withdraw ==
  /\ tick.pc = "withdraw" /\ Withdrawn({tick.at})
  /\ tick' = [tick EXCEPT !.pc = "unwarm"]
  /\ UNCHANGED <<others, registry, cancellations, pool, guards, restarts, held>>

Unwarm ==
  /\ tick.pc = "unwarm" /\ RemoveWorkers({tick.at})
  /\ tick' = [tick EXCEPT !.pc = "join"]
  /\ UNCHANGED <<others, registry, cancellations, receivers, guards, session,
                 restarts, held>>

\* remove_cast_worker returns, and after a withdraw the guards are cleared.
Joined ==
  /\ tick.pc = "join" /\ reaping[tick.at] # "join"
  /\ IF tick.then = "orphans" THEN UNCHANGED guards
     ELSE /\ since' = [since EXCEPT ![tick.at] = "unset"]
          /\ blocked' = blocked \ {tick.at}
  /\ Goto(tick.then)
  /\ UNCHANGED <<others, registry, cancellations, receivers, pool, session,
                 restarts, held>>

DecideDone ==
  /\ tick.pc = "decide" /\ tick.todo = {}
  /\ Loop("orphans", {d \in Devices : workers[d].state # "none"
                                       /\ ~Desired(d) /\ d \notin Active})
  /\ UNCHANGED <<others, registry, cancellations, receivers, pool, guards,
                 session, restarts, held>>

Orphan(d) ==
  /\ tick.pc = "orphans" /\ d \in tick.todo
  /\ IF HasSession(d) THEN Skip(d)
     ELSE tick' = [tick EXCEPT !.pc = "unwarm", !.at = d, !.todo = @ \ {d},
                               !.then = "orphans"]
  /\ UNCHANGED <<others, registry, cancellations, receivers, pool, guards,
                 session, restarts, held>>

EndTick ==
  /\ tick.pc = "orphans" /\ tick.todo = {} /\ tick' = Idle
  /\ held' = {}
  /\ UNCHANGED <<others, registry, cancellations, receivers, pool, guards,
                 session, restarts>>

\* Told to stop between two ticks: every ad is withdrawn.
BeginExit ==
  /\ tick.pc = "idle" /\ ~Running /\ Loop("exit", Active)
  /\ UNCHANGED <<others, registry, cancellations, receivers, pool, guards,
                 session, restarts, held>>
ExitDevice(d) ==
  /\ tick.pc = "exit" /\ d \in tick.todo /\ Withdrawn({d}) /\ Skip(d)
  /\ UNCHANGED <<others, registry, cancellations, pool, guards, restarts, held>>
ExitDone ==
  /\ tick.pc = "exit" /\ tick.todo = {} /\ Goto("done")
  /\ UNCHANGED <<others, registry, cancellations, receivers, pool, guards,
                 session, restarts, held>>

\* The supervisor starts the loop again, until its budget is spent.
Panics ==
  /\ tick.pc \notin {"idle", "done", "dead"} /\ faults < MaxFaults
  /\ faults' = faults + 1 /\ restarts' = restarts + 1 /\ held' = {}
  /\ tick' = IF ~Running \/ restarts >= RestartMax
             THEN [Idle EXCEPT !.pc = "dead"] ELSE Idle
  /\ UNCHANGED <<registryVars, kicking, watch, stage, sightings, started,
                 steals, receivers, pool, guards, session>>

-----------------------------------------------------------------------------
(* The ownership watch: it ends the session, then kicks its sender. *)

Steal(d) ==
  /\ session[d] = "live" /\ workers[d].state = "live"
  /\ stage \in {"run", "signal"}
  /\ steals < MaxSteals /\ steals' = steals + 1
  /\ notices' = notices \union {d}
  /\ UNCHANGED <<registryVars, airplay, pool, guards, session, tick, restarts,
                 kick, stage, sightings, started, faults, held>>

Watching == stage \in {"run", "signal", "bridge"}

EndStolen(d) ==
  /\ Watching /\ kick.pc = "idle" /\ d \in notices
  /\ notices' = notices \ {d}
  /\ session' = [session EXCEPT ![d] = "none"] /\ held' = held \ {d}
  /\ kick' = [pc |-> "ended", dev |-> d, name |-> 0]
  /\ UNCHANGED <<registryVars, airplay, pool, guards, tick, restarts, stage,
                 counts>>

BeginKick ==
  /\ Watching /\ kick.pc = "ended"
  /\ kicking' = kicking \union {kick.dev} /\ kick' = [kick EXCEPT !.pc = "stop"]
  /\ UNCHANGED <<registryVars, receivers, pool, guards, session, tick,
                 restarts, notices, stage, counts, held>>

\* Hard stop, then KICK_WITHDRAW_HOLD.
StopReceiver ==
  /\ Watching /\ kick.pc = "stop"
  /\ Withdrawn({kick.dev})
  /\ IF receivers[kick.dev] = 0
     THEN kick' = NoKick /\ kicking' = kicking \ {kick.dev}
     ELSE /\ kick' = [kick EXCEPT !.pc = "hold", !.name = receivers[kick.dev]]
          /\ UNCHANGED kicking
  /\ UNCHANGED <<registryVars, pool, guards, tick, restarts, notices, stage,
                 counts, held>>

\* (mutant) a receiver that cannot be built again leaves the kick behind
ReadvertiseStuck ==
  /\ Watching /\ kick.pc = "hold" /\ kick' = NoKick
  /\ \/ /\ receivers' = [receivers EXCEPT ![kick.dev] = kick.name]
        /\ kicking' = kicking \ {kick.dev}
        /\ UNCHANGED faults
     \/ /\ faults < MaxFaults /\ faults' = faults + 1
        /\ UNCHANGED <<receivers, kicking>>
  /\ UNCHANGED <<registryVars, pool, guards, session, tick, restarts, notices,
                 stage, sightings, started, steals, held>>

Readvertise ==
  /\ Watching /\ kick.pc = "hold" /\ kick' = NoKick
  /\ kicking' = kicking \ {kick.dev}
  /\ \/ /\ receivers' = [receivers EXCEPT ![kick.dev] = kick.name]
        /\ UNCHANGED faults
     \/ /\ faults < MaxFaults /\ faults' = faults + 1
        /\ UNCHANGED receivers
  /\ UNCHANGED <<registryVars, pool, guards, session, tick, restarts, notices,
                 stage, sightings, started, steals, held>>

-----------------------------------------------------------------------------
(* App::run after the shutdown signal. *)

Signal ==
  /\ Exits /\ stage = "run" /\ stage' = "signal"
  /\ UNCHANGED <<registryVars, airplay, pool, guards, watch, session, tick,
                 restarts, counts, held>>

JoinMaintain ==
  /\ stage = "signal" /\ tick.pc \in {"done", "dead"} /\ stage' = "bridge"
  /\ UNCHANGED <<registryVars, airplay, pool, guards, watch, session, tick,
                 restarts, counts, held>>

\* The bridge ends every session or overruns its budget; the watches are
\* aborted wherever they are.
JoinBridge ==
  /\ stage = "bridge" /\ stage' = "pool"
  /\ session' \in {session, [d \in Devices |-> "none"]}
  /\ kick' = NoKick /\ notices' = {}
  /\ UNCHANGED <<registryVars, airplay, pool, guards, tick, restarts, counts,
                 held>>

ShutdownPool ==
  /\ stage = "pool" /\ stage' = "down" /\ RemoveWorkers(Devices)
  /\ UNCHANGED <<registryVars, airplay, guards, watch, session, tick,
                 restarts, counts, held>>

-----------------------------------------------------------------------------
MaintainStep ==
  \/ BeginTick \/ ExpireStale \/ StaleDone \/ List \/ Snapshot \/ Guard
  \/ Hide \/ Look \/ Build \/ WarmDone \/ Withdraw \/ Unwarm \/ Joined
  \/ DecideDone \/ EndTick \/ BeginExit \/ ExitDone
  \/ \E d \in Devices :
       StaleDevice(d) \/ Warm(d) \/ Decide(d) \/ Orphan(d) \/ ExitDevice(d)

WatchStep ==
  BeginKick \/ StopReceiver \/ Readvertise \/ \E d \in Devices : EndStolen(d)

ShutdownStep == JoinMaintain \/ JoinBridge \/ ShutdownPool

Next ==
  \/ MaintainStep \/ Panics \/ WatchStep \/ Signal \/ ShutdownStep
  \/ Discovers
  \/ \E d \in Devices :
       \/ TimePasses(d) \/ FloorPasses(d) \/ CastBreaks(d)
       \/ SessionStarts(d) \/ SessionEnds(d) \/ Steal(d)
       \/ WorkerExits(d) \/ JoinTimesOut(d)

Spec == Init /\ [][Next]_vars

\* The tasks are scheduled, threads told to stop do, time passes, and a
\* session whose connection was closed ends.
FairSpec ==
  /\ Spec /\ WF_vars(MaintainStep) /\ WF_vars(WatchStep)
  /\ WF_vars(ShutdownStep)
  /\ \A d \in Devices : /\ WF_vars(WorkerExits(d)) /\ WF_vars(FloorPasses(d))
                        /\ WF_vars(session[d] = "cut" /\ SessionEnds(d))

-----------------------------------------------------------------------------
(* Properties *)

\* Does not hold (README, section 6): ensure reads the kicking set and the
\* receivers under two locks, so a receiver may be advertised within the hold.
HoldIsKept == kick.pc = "hold" => receivers[kick.dev] = 0

\* At most one Cast worker thread runs for a speaker, and the pool has an entry
\* as long as it runs, through removals that time out, late reapers and a
\* speaker that comes back (pool.rs, the tombstone of remove).
OneWorkerThread ==
  \A d \in Devices : threads[d] = IF workers[d].state = "none" THEN 0 ELSE 1

\* A session that was there when the tick began is not cut by the tick, neither
\* by a rename nor by a withdraw: only a Cast sink that broke for good is
\* hidden under it, the exit withdraws everything, and a kick cuts what has
\* connected since the session it was meant for ended (app.rs, "keep the
\* current advertisement until the session ends").
TickKeepsSessions ==
  [][\A d \in held : session[d] = "live" /\ session'[d] = "cut"
        => tick.pc \in {"hide", "exit"} \/ kick'.pc # kick.pc]_vars

Maintained == Running /\ tick.pc # "dead"

\* A speaker that stays registered and has no session ends up advertised under
\* its present name, with a Cast worker at its present endpoint, whatever kicks,
\* failed builds, panics and tombstones came before.
PresentIsAdvertised ==
  \A d \in Devices :
    <>[](Maintained /\ R!Registered(d) /\ ~HasSession(d) /\ d \notin terminal)
    => <>[](receivers[d] = registry[d].ver /\ workers[d] = Live(registry[d].ver))

\* A speaker that left for good and has no session ends up without a receiver
\* and without a Cast worker.
GoneIsWithdrawn ==
  \A d \in Devices :
    <>[](Maintained /\ ~R!Registered(d) /\ ~HasSession(d))
    => <>[](receivers[d] = 0 /\ workers[d].state = "none")

=============================================================================
