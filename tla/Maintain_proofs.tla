---------------------------- MODULE Maintain_proofs ----------------------------
(***************************************************************************)
(* The Cast worker pool keeps one thread per speaker, for every set of     *)
(* speakers and versions and whatever discovery, the senders, panics and   *)
(* the shutdown do.  OneWorkerThread alone is not inductive: a thread that *)
(* exits takes the pool's entry with it, which is right only because a     *)
(* thread is waited for exactly while its entry is a tombstone.            *)
(*                                                                         *)
(* And a tick cuts no session that was there when it began, though it asks *)
(* for sessions under one lock and withdraws receivers under another.      *)
(***************************************************************************)
EXTENDS Maintain, TLAPS

\* The devices the maintain task and the watch work on.
AtDevice == {"guard", "hide", "look", "build", "withdraw", "unwarm", "join"}
Places ==
  /\ tick.pc \in AtDevice => tick.at \in Devices
  /\ kick.pc # "idle" => kick.dev \in Devices

\* Somebody waits for a thread exactly while its entry is a tombstone.
Tombstones ==
  \A d \in Devices : reaping[d] # "no" <=> workers[d].state = "exiting"

PoolInv == TypeOK /\ Places /\ Tombstones /\ OneWorkerThread

-----------------------------------------------------------------------------
(***************************************************************************)
(* The registry and the receivers.                                         *)
(***************************************************************************)
LEMMA RegistryType ==
  ASSUME R!TypeOK, R!Next \/ UNCHANGED <<registry, cancellations>>
  PROVE  R!TypeOK'
<1>1. ASSUME NEW d \in Devices, NEW v \in Versions, R!Appear(d, v) PROVE R!TypeOK'
  BY <1>1 DEF R!TypeOK, R!Appear, R!Fresh, R!Entry
<1>2. ASSUME NEW d \in Devices, R!MarkPendingLeave(d) PROVE R!TypeOK'
  <2>1. registry[d] \in R!Entry
    BY <1>2 DEF R!TypeOK, R!MarkPendingLeave, R!Registered
  <2>. QED BY <1>2, <2>1 DEF R!TypeOK, R!MarkPendingLeave, R!Entry
<1>3. ASSUME NEW d \in Devices, R!Leave(d) PROVE R!TypeOK'
  BY <1>3 DEF R!TypeOK, R!Leave
<1>4. ASSUME NEW due \in SUBSET Devices, NEW old \in SUBSET Devices, R!Pass(due, old)
      PROVE  R!TypeOK'
  <2>1. ASSUME NEW d \in Devices PROVE registry'[d] \in R!Entry \union {R!Absent}
    BY <1>4, <2>1 DEF R!TypeOK, R!Pass, R!Entry, R!Absent, R!Registered
  <2>. QED BY <1>4, <2>1 DEF R!TypeOK, R!Pass
<1>5. ASSUME NEW gone, registry' = R!Without(gone), UNCHANGED cancellations PROVE R!TypeOK'
  BY <1>5 DEF R!TypeOK, R!Without
<1>6. CASE R!TakeDueLeaves
  BY <1>5, <1>6 DEF R!TakeDueLeaves
<1>7. ASSUME NEW keep \in SUBSET Devices, R!ExpireStale(keep) PROVE R!TypeOK'
  BY <1>5, <1>7 DEF R!ExpireStale
<1>8. CASE R!DrainCancellations
  BY <1>8 DEF R!TypeOK, R!DrainCancellations
<1>9. CASE UNCHANGED <<registry, cancellations>>
  BY <1>9 DEF R!TypeOK
<1>. QED BY <1>1, <1>2, <1>3, <1>4, <1>6, <1>7, <1>8, <1>9 DEF R!Next

LEMMA WithdrawnType ==
  ASSUME TypeOK, NEW gone, Withdrawn(gone)
  PROVE  /\ receivers' \in [Devices -> Versions \union {0}]
         /\ session' \in [Devices -> {"none", "live", "cut"}]
BY DEF TypeOK, Withdrawn

-----------------------------------------------------------------------------
(***************************************************************************)
(* What others do.                                                         *)
(***************************************************************************)
LEMMA SurroundingsKeep ==
  ASSUME PoolInv,
         \/ Discovers
         \/ \E d \in Devices : TimePasses(d) \/ FloorPasses(d) \/ SessionStarts(d)
                               \/ SessionEnds(d) \/ Steal(d) \/ CastBreaks(d)
         \/ UNCHANGED vars
  PROVE  PoolInv'
<1>1. R!TypeOK'
  <2>1. R!Next \/ UNCHANGED <<registry, cancellations>>
    BY DEF Discovers, TimePasses, FloorPasses, SessionStarts, SessionEnds, Steal, CastBreaks, vars,
           registryVars, R!Next
  <2>. QED BY <2>1, RegistryType DEF PoolInv, TypeOK
<1>2. since' \in [Devices -> {"unset", "recent", "old"}] /\ session' \in [Devices -> {"none", "live", "cut"}]
  <2>1. since' = since \/ \E d \in Devices : since' = [since EXCEPT ![d] = "old"]
    BY DEF Discovers, TimePasses, FloorPasses, SessionStarts, SessionEnds, Steal, CastBreaks, vars, guards
  <2>2. session' = session \/ \E d \in Devices, x \in {"none", "live"} : session' = [session EXCEPT ![d] = x]
    BY DEF Discovers, TimePasses, FloorPasses, SessionStarts, SessionEnds, Steal, CastBreaks, vars
  <2>3. since \in [Devices -> {"unset", "recent", "old"}] /\ session \in [Devices -> {"none", "live", "cut"}]
    BY DEF PoolInv, TypeOK
  <2>. QED BY <2>1, <2>2, <2>3
<1>3. notices' \subseteq Devices /\ held' \subseteq Devices /\ terminal' \subseteq Devices
  <2>1. notices' = notices \/ \E d \in Devices : notices' = notices \union {d}
    BY DEF Discovers, TimePasses, FloorPasses, SessionStarts, SessionEnds, Steal, CastBreaks, vars, watch
  <2>2. held' = held \/ \E d \in Devices : held' = held \ {d}
    BY DEF Discovers, TimePasses, FloorPasses, SessionStarts, SessionEnds, Steal, CastBreaks, vars
  <2>3. terminal' = terminal \/ \E d \in Devices : terminal' = terminal \union {d}
    BY DEF Discovers, TimePasses, FloorPasses, SessionStarts, SessionEnds, Steal, CastBreaks, vars, pool
  <2>. QED BY <2>1, <2>2, <2>3 DEF PoolInv, TypeOK
<1>4. UNCHANGED <<os, airplay, workers, threads, reaping, blocked, tick, restarts, kick, stage>>
  BY DEF Discovers, TimePasses, FloorPasses, SessionStarts, SessionEnds, Steal, CastBreaks, vars,
         registryVars, airplay, pool, guards, watch
<1>5. TypeOK'
  BY <1>1, <1>2, <1>3, <1>4 DEF PoolInv, TypeOK, airplay
<1>6. Places' /\ Tombstones' /\ OneWorkerThread'
  BY <1>4 DEF PoolInv, Places, Tombstones, OneWorkerThread
<1>. QED BY <1>5, <1>6 DEF PoolInv

-----------------------------------------------------------------------------
(***************************************************************************)
(* The pool.                                                               *)
(***************************************************************************)
\* What the pool's steps owe, with the fields TypeOK gives them.
PoolKept ==
  /\ workers' \in [Devices -> [state: {"none", "live", "exiting"}, ver: Versions \union {0}]]
  /\ threads' \in [Devices -> 0..2] /\ terminal' \subseteq Devices
  /\ reaping' \in [Devices -> {"no", "join", "reaper"}]
  /\ Tombstones' /\ OneWorkerThread'

LEMMA EnsureKeeps ==
  ASSUME PoolInv, NEW d \in Devices, NEW v \in Versions \union {0},
         EnsureWorker(d, v), UNCHANGED <<terminal, reaping>>
  PROVE  PoolKept
<1>1. CASE workers[d].state = "exiting"
  BY <1>1 DEF EnsureWorker, PoolInv, TypeOK, PoolKept, Tombstones, OneWorkerThread
<1>2. CASE workers[d].state = "live"
  <2>1. workers' = [workers EXCEPT ![d] = Live(v)] /\ threads' = threads
    BY <1>2 DEF EnsureWorker
  <2>2. reaping[d] = "no" /\ threads[d] = 1
    BY <1>2 DEF PoolInv, TypeOK, Tombstones, OneWorkerThread
  <2>. QED BY <2>1, <2>2 DEF Live, PoolInv, TypeOK, PoolKept, Tombstones, OneWorkerThread
<1>3. CASE workers[d].state = "none"
  <2>1. threads[d] = 0
    BY <1>3 DEF PoolInv, OneWorkerThread
  <2>2. workers' = [workers EXCEPT ![d] = Live(v)] /\ threads' = [threads EXCEPT ![d] = 1]
    BY <1>3, <2>1 DEF EnsureWorker, PoolInv, TypeOK
  <2>. QED BY <1>3, <2>2 DEF Live, PoolInv, TypeOK, PoolKept, Tombstones, OneWorkerThread
<1>4. workers[d].state \in {"none", "live", "exiting"}
  BY DEF PoolInv, TypeOK
<1>. QED BY <1>1, <1>2, <1>3, <1>4

LEMMA RemoveKeeps ==
  ASSUME PoolInv, NEW gone, RemoveWorkers(gone)
  PROVE  PoolKept
<1>. DEFINE live == {d \in gone : workers[d].state = "live"}
<1>1. ASSUME NEW d \in Devices, d \in live
      PROVE  workers'[d] = [workers[d] EXCEPT !.state = "exiting"] /\ reaping'[d] = "join"
  BY <1>1 DEF RemoveWorkers
<1>2. ASSUME NEW d \in Devices, d \notin live
      PROVE  workers'[d] = workers[d] /\ reaping'[d] = reaping[d]
  BY <1>2 DEF RemoveWorkers
<1>3. ASSUME NEW d \in Devices
      PROVE  /\ workers'[d] \in [state: {"none", "live", "exiting"}, ver: Versions \union {0}]
             /\ reaping'[d] \in {"no", "join", "reaper"}
             /\ reaping'[d] # "no" <=> workers'[d].state = "exiting"
             /\ workers'[d].state = "none" <=> workers[d].state = "none"
  <2>1. /\ workers[d] \in [state: {"none", "live", "exiting"}, ver: Versions \union {0}]
        /\ reaping[d] \in {"no", "join", "reaper"}
        /\ reaping[d] # "no" <=> workers[d].state = "exiting"
    BY DEF PoolInv, TypeOK, Tombstones
  <2>2. CASE d \in live
    BY <1>1, <2>1, <2>2
  <2>3. CASE d \notin live
    BY <1>2, <2>1, <2>3
  <2>. QED BY <2>2, <2>3
<1>4. workers' = [d \in Devices |-> workers'[d]] /\ reaping' = [d \in Devices |-> reaping'[d]]
  BY DEF RemoveWorkers
<1>5. threads' = threads /\ terminal' = terminal
  BY DEF RemoveWorkers
<1>. HIDE DEF live
<1>. QED BY <1>3, <1>4, <1>5 DEF PoolInv, TypeOK, PoolKept, Tombstones, OneWorkerThread

\* The thread is the one the tombstone stood for.
LEMMA ExitKeeps ==
  ASSUME PoolInv, NEW d \in Devices, WorkerExits(d)
  PROVE  PoolKept
<1>1. workers[d].state = "exiting" /\ threads[d] = 1
  BY DEF PoolInv, WorkerExits, Tombstones, OneWorkerThread
<1>2. threads' = [threads EXCEPT ![d] = 0] /\ workers' = [workers EXCEPT ![d] = NoWorker]
  BY <1>1 DEF WorkerExits, PoolInv, TypeOK
<1>. QED BY <1>2 DEF WorkerExits, NoWorker, PoolInv, TypeOK, PoolKept, Tombstones, OneWorkerThread

LEMMA TimeoutKeeps ==
  ASSUME PoolInv, NEW d \in Devices, JoinTimesOut(d)
  PROVE  PoolKept
BY DEF JoinTimesOut, PoolInv, TypeOK, PoolKept, Tombstones, OneWorkerThread

\* A step that is the pool's only by the way keeps the rest.
LEMMA RestKept ==
  ASSUME PoolInv, PoolKept, Places',
         R!TypeOK', os' \in {"macos", "linux"},
         receivers' \in [Devices -> Versions \union {0}], kicking' \subseteq Devices,
         session' \in [Devices -> {"none", "live", "cut"}],
         since' \in [Devices -> {"unset", "recent", "old"}], blocked' \subseteq Devices,
         tick' \in [pc: TickPcs, at: Devices \union {Nobody}, todo: SUBSET Devices,
                    then: {"idle", "stale", "decide", "orphans"},
                    devices: [Devices -> Versions \union {0}], prev: SUBSET Devices],
         restarts' \in Nat,
         kick' \in [pc: {"idle", "ended", "stop", "hold"},
                    dev: Devices \union {Nobody}, name: Versions \union {0}],
         notices' \subseteq Devices, held' \subseteq Devices,
         stage' \in {"run", "signal", "bridge", "pool", "down"}
  PROVE  PoolInv'
BY DEF PoolKept, PoolInv, TypeOK

LEMMA PoolUnchanged ==
  ASSUME PoolInv, UNCHANGED pool
  PROVE  PoolKept
BY DEF PoolInv, TypeOK, pool, PoolKept, Tombstones, OneWorkerThread

-----------------------------------------------------------------------------
(***************************************************************************)
(* The maintain task.                                                      *)
(***************************************************************************)
TickType == [pc: TickPcs, at: Devices \union {Nobody}, todo: SUBSET Devices,
             then: {"idle", "stale", "decide", "orphans"},
             devices: [Devices -> Versions \union {0}], prev: SUBSET Devices]

\* Where the task goes next, in terms of its fields.
Moves(pc, at, todo, then) ==
  /\ tick'.pc = pc /\ tick'.at = at /\ tick'.todo = todo /\ tick'.then = then
  /\ tick' \in TickType

LEMMA TickTypes ==
  ASSUME PoolInv
  PROVE  tick \in TickType /\ Idle \in TickType
BY DEF PoolInv, TypeOK, TickType, Idle, TickPcs

LEMMA GotoMoves ==
  ASSUME PoolInv, NEW pc \in TickPcs, Goto(pc)
  PROVE  Moves(pc, Nobody, tick.todo, tick.then)
BY TickTypes DEF Goto, Moves, TickType

LEMMA StayMoves ==
  ASSUME PoolInv, NEW pc \in TickPcs, tick' = [tick EXCEPT !.pc = pc]
  PROVE  Moves(pc, tick.at, tick.todo, tick.then)
BY TickTypes DEF Moves, TickType

LEMMA GotoAtMoves ==
  ASSUME PoolInv, NEW pc \in TickPcs, NEW d \in Devices, GotoAt(pc, d)
  PROVE  Moves(pc, d, tick.todo \ {d}, tick.then)
BY TickTypes DEF GotoAt, Moves, TickType

LEMMA CallMoves ==
  ASSUME PoolInv, NEW pc \in TickPcs, NEW d \in Devices, NEW then \in {"stale", "decide", "orphans"},
         tick' = [tick EXCEPT !.pc = pc, !.at = d, !.todo = @ \ {d}, !.then = then]
  PROVE  Moves(pc, d, tick.todo \ {d}, then)
BY TickTypes DEF Moves, TickType

LEMMA LoopMoves ==
  ASSUME PoolInv, NEW pc \in TickPcs, NEW over \in SUBSET Devices, Loop(pc, over)
  PROVE  Moves(pc, Nobody, over, tick.then)
BY TickTypes DEF Loop, Moves, TickType

LEMMA SkipMoves ==
  ASSUME PoolInv, NEW d, Skip(d)
  PROVE  Moves(tick.pc, tick.at, tick.todo \ {d}, tick.then)
BY TickTypes DEF Skip, Moves, TickType

\* A step that moves the task somewhere right, and keeps the rest in its type.
LEMMA TickKept ==
  ASSUME PoolInv, PoolKept, tick' \in TickType, tick'.pc \in AtDevice => tick'.at \in Devices,
         R!Next \/ UNCHANGED <<registry, cancellations>>,
         receivers' \in [Devices -> Versions \union {0}],
         session' \in [Devices -> {"none", "live", "cut"}],
         since' \in [Devices -> {"unset", "recent", "old"}], blocked' \subseteq Devices,
         restarts' \in Nat, held' \subseteq Devices, UNCHANGED <<os, kicking, watch, stage>>
  PROVE  PoolInv'
<1>1. R!TypeOK'
  BY RegistryType DEF PoolInv, TypeOK
<1>2. Places'
  BY DEF PoolInv, Places, watch
<1>. QED BY <1>1, <1>2, RestKept DEF PoolInv, TypeOK, TickType, watch

\* The steps that only read: the task moves on.
ReadOnly ==
  /\ UNCHANGED <<registry, cancellations, receivers, session, guards, restarts, pool, others>>
  /\ held' \subseteq Devices

LEMMA ReadKept ==
  ASSUME PoolInv, ReadOnly, tick' \in TickType, tick'.pc \in AtDevice => tick'.at \in Devices
  PROVE  PoolInv'
BY PoolUnchanged, TickKept DEF ReadOnly, others, guards, PoolInv, TypeOK

LEMMA ReadersKeep ==
  ASSUME PoolInv,
         \/ StaleDone \/ Snapshot \/ Guard \/ WarmDone \/ DecideDone \/ EndTick \/ BeginExit \/ ExitDone
         \/ \E d \in Devices : Orphan(d)
  PROVE  PoolInv'
<1>1. ReadOnly
  BY DEF StaleDone, Snapshot, Guard, WarmDone, DecideDone, EndTick, BeginExit, ExitDone, Orphan, PoolInv,
         TypeOK, ReadOnly
<1>2. CASE StaleDone
  BY <1>1, <1>2, GotoMoves, ReadKept DEF StaleDone, Moves, TickPcs, AtDevice
<1>3. CASE Snapshot
  <2>1. tick' \in TickType /\ tick'.pc = "warm"
    BY <1>3, TickTypes DEF Snapshot, TickType, Active, Desired, TickPcs
  <2>. QED BY <1>1, <2>1, ReadKept DEF AtDevice
<1>4. CASE Guard
  <2>1. AfterGuard(tick.at) \in {"hide", "warm", "look"} /\ tick.at \in Devices
    BY <1>4 DEF AfterGuard, Guard, PoolInv, Places, AtDevice
  <2>2. Moves(AfterGuard(tick.at), tick.at, tick.todo, tick.then)
    BY <1>4, <2>1, StayMoves DEF Guard, TickPcs
  <2>. QED BY <1>1, <2>1, <2>2, ReadKept DEF Moves
<1>5. CASE WarmDone
  BY <1>1, <1>5, LoopMoves, ReadKept DEF WarmDone, Moves, TickPcs, AtDevice, Active
<1>6. CASE DecideDone
  <2>. DEFINE over == {d \in Devices : workers[d].state # "none" /\ ~Desired(d) /\ d \notin Active}
  <2>1. Loop("orphans", over) /\ over \in SUBSET Devices
    BY <1>6 DEF DecideDone
  <2>2. Moves("orphans", Nobody, over, tick.then)
    BY <2>1, LoopMoves DEF TickPcs
  <2>. QED BY <1>1, <2>2, ReadKept DEF Moves, AtDevice
<1>7. CASE EndTick
  <2>1. tick' \in TickType /\ tick'.pc = "idle"
    BY <1>7, TickTypes DEF EndTick, Idle
  <2>. QED BY <1>1, <2>1, ReadKept DEF AtDevice
<1>8. CASE BeginExit
  BY <1>1, <1>8, LoopMoves, ReadKept DEF BeginExit, Moves, TickPcs, AtDevice, Active
<1>9. CASE ExitDone
  BY <1>1, <1>9, GotoMoves, ReadKept DEF ExitDone, Moves, TickPcs, AtDevice
<1>10. ASSUME NEW d \in Devices, Orphan(d) PROVE PoolInv'
  <2>1. CASE HasSession(d)
    BY <1>1, <1>10, <2>1, SkipMoves, ReadKept DEF Orphan, Moves, AtDevice
  <2>2. CASE ~HasSession(d)
    <3>1. Moves("unwarm", d, tick.todo \ {d}, "orphans")
      BY <1>10, <2>2, CallMoves DEF Orphan, TickPcs
    <3>. QED BY <1>1, <3>1, ReadKept DEF Moves
  <2>. QED BY <2>1, <2>2
<1>. QED BY <1>2, <1>3, <1>4, <1>5, <1>6, <1>7, <1>8, <1>9, <1>10

\* The registry's part of a tick.
LEMMA RegistryStepsKeep ==
  ASSUME PoolInv, BeginTick \/ ExpireStale \/ List
  PROVE  PoolInv'
<1>1. CASE BeginTick
  <2>1. Moves("expire", Nobody, {}, tick.then)
    BY <1>1, LoopMoves DEF BeginTick, TickPcs
  <2>2. since' \in [Devices -> {"unset", "recent", "old"}] /\ held' \subseteq Devices
    BY <1>1 DEF BeginTick, PoolInv, TypeOK
  <2>3. R!Next /\ UNCHANGED <<receivers, pool, blocked, session, restarts, others>>
    BY <1>1 DEF BeginTick, R!Next
  <2>. QED BY <2>1, <2>2, <2>3, PoolUnchanged, TickKept DEF Moves, AtDevice, others, PoolInv, TypeOK
<1>2. CASE ExpireStale
  <2>1. PICK keep \in SUBSET Devices : R!ExpireStale(keep) /\ Loop("stale", R!Stale \ keep)
    BY <1>2 DEF ExpireStale
  <2>2. R!Stale \ keep \in SUBSET Devices
    BY DEF R!Stale
  <2>3. Moves("stale", Nobody, R!Stale \ keep, tick.then)
    BY <2>1, <2>2, LoopMoves DEF TickPcs
  <2>4. R!Next
    BY <2>1 DEF R!Next
  <2>. QED BY <1>2, <2>3, <2>4, PoolUnchanged, TickKept
           DEF ExpireStale, Moves, AtDevice, others, guards, PoolInv, TypeOK
<1>3. CASE List
  <2>1. [d \in Devices |-> registry[d].ver] \in [Devices -> Versions \union {0}]
    BY DEF PoolInv, TypeOK, R!TypeOK, R!Entry, R!Absent
  <2>2. tick' \in TickType /\ tick'.pc = "snapshot"
    BY <1>3, <2>1, TickTypes DEF List, TickType, TickPcs
  <2>3. R!Next
    BY <1>3 DEF List, R!Next
  <2>. QED BY <1>3, <2>2, <2>3, PoolUnchanged, TickKept DEF List, AtDevice, others, guards, PoolInv, TypeOK
<1>. QED BY <1>1, <1>2, <1>3

\* The guards of a speaker that is stale or gone.
LEMMA GuardStepsKeep ==
  ASSUME PoolInv, NEW d \in Devices, StaleDevice(d) \/ Decide(d)
  PROVE  PoolInv'
<1>1. /\ UNCHANGED <<registry, cancellations, receivers, pool, session, restarts, held, others>>
      /\ since' \in [Devices -> {"unset", "recent", "old"}] /\ blocked' \subseteq Devices
  <2>1. /\ since \in [Devices -> {"unset", "recent", "old"}] /\ blocked \subseteq Devices
        /\ since[d] \in {"unset", "recent", "old"}
    BY DEF PoolInv, TypeOK
  <2>2. \E x \in {"unset", "recent", "old"} : since' = [since EXCEPT ![d] = x]
    <3>1. CASE StaleDevice(d)
      BY <3>1 DEF StaleDevice
    <3>2. CASE Decide(d)
      <4>1. \/ since' = [since EXCEPT ![d] = "unset"]
            \/ since' = [since EXCEPT ![d] = IF since[d] = "unset" THEN "recent" ELSE since[d]]
        BY <3>2 DEF Decide
      <4>. QED BY <2>1, <4>1
    <3>. QED BY <3>1, <3>2
  <2>. QED BY <2>1, <2>2 DEF StaleDevice, Decide
<1>2. \/ Skip(d) /\ tick.pc \in {"stale", "decide"}
      \/ \E then \in {"stale", "decide"} :
           tick' = [tick EXCEPT !.pc = "withdraw", !.at = d, !.todo = @ \ {d}, !.then = then]
  BY DEF StaleDevice, Decide
<1>3. tick' \in TickType /\ (tick'.pc \in AtDevice => tick'.at \in Devices)
  <2>1. CASE Skip(d) /\ tick.pc \in {"stale", "decide"}
    BY <2>1, SkipMoves DEF Moves, AtDevice
  <2>2. ASSUME NEW then \in {"stale", "decide"},
               tick' = [tick EXCEPT !.pc = "withdraw", !.at = d, !.todo = @ \ {d}, !.then = then]
        PROVE  tick' \in TickType /\ tick'.at \in Devices
    <3>1. then \in {"stale", "decide", "orphans"} /\ "withdraw" \in TickPcs
      BY DEF TickPcs
    <3>2. Moves("withdraw", d, tick.todo \ {d}, then)
      BY <2>2, <3>1, CallMoves
    <3>. QED BY <3>2 DEF Moves
  <2>. QED BY <1>2, <2>1, <2>2
<1>. QED BY <1>1, <1>3, PoolUnchanged, TickKept DEF others, PoolInv, TypeOK

\* A joined worker's guards are cleared; the task goes back to its loop.
LEMMA JoinedKeeps ==
  ASSUME PoolInv, Joined
  PROVE  PoolInv'
<1>1. /\ UNCHANGED <<registry, cancellations, receivers, pool, session, restarts, held, others>>
      /\ since' \in [Devices -> {"unset", "recent", "old"}] /\ blocked' \subseteq Devices
  BY DEF Joined, PoolInv, TypeOK, guards
<1>2. tick.then \in {"idle", "stale", "decide", "orphans"}
  BY DEF PoolInv, TypeOK
<1>3. Moves(tick.then, Nobody, tick.todo, tick.then)
  BY <1>2, GotoMoves DEF Joined, TickPcs
<1>. QED BY <1>1, <1>2, <1>3, PoolUnchanged, TickKept DEF Moves, AtDevice, others, PoolInv, TypeOK

\* A receiver is built or taken away.
LEMMA ReceiverStepsKeep ==
  ASSUME PoolInv, Hide \/ Look \/ Build \/ Withdraw \/ \E d \in Devices : ExitDevice(d)
  PROVE  PoolInv'
<1>1. UNCHANGED <<registry, cancellations, pool, guards, restarts, held, os, kicking, watch, stage>>
  BY DEF Hide, Look, Build, Withdraw, ExitDevice, others, registryVars
<1>2. /\ receivers' \in [Devices -> Versions \union {0}]
      /\ session' \in [Devices -> {"none", "live", "cut"}]
  <2>1. CASE Build
    <3>1. tick.at \in Devices /\ tick.devices \in [Devices -> Versions \union {0}]
      BY <2>1 DEF Build, PoolInv, Places, AtDevice, TypeOK
    <3>2. \/ receivers' = [receivers EXCEPT ![tick.at] = tick.devices[tick.at]]
          \/ receivers' = receivers
      BY <2>1 DEF Build
    <3>3. session' = session /\ receivers \in [Devices -> Versions \union {0}]
      BY <2>1 DEF Build, PoolInv, TypeOK
    <3>. QED BY <3>1, <3>2, <3>3 DEF PoolInv, TypeOK
  <2>2. ASSUME NEW gone, Withdrawn(gone)
        PROVE  /\ receivers' \in [Devices -> Versions \union {0}]
               /\ session' \in [Devices -> {"none", "live", "cut"}]
    BY <2>2, WithdrawnType DEF PoolInv
  <2>3. CASE Look
    BY <2>2, <2>3 DEF Look, PoolInv, TypeOK
  <2>. QED BY <2>1, <2>2, <2>3 DEF Hide, Withdraw, ExitDevice
<1>3. tick' \in TickType /\ (tick'.pc \in AtDevice => tick'.at \in Devices)
  <2>1. CASE Hide \/ Build
    BY <2>1, GotoMoves DEF Hide, Build, Moves, TickPcs, AtDevice
  <2>2. CASE Look
    <3>1. tick.at \in Devices
      BY <2>2 DEF Look, PoolInv, Places, AtDevice
    <3>2. Goto("warm") \/ tick' = [tick EXCEPT !.pc = "build"]
      BY <2>2 DEF Look
    <3>. QED BY <3>1, <3>2, GotoMoves, StayMoves DEF Moves, TickPcs, AtDevice
  <2>3. CASE Withdraw
    <3>1. tick.at \in Devices
      BY <2>3 DEF Withdraw, PoolInv, Places, AtDevice
    <3>. QED BY <2>3, <3>1, StayMoves DEF Withdraw, Moves, TickPcs
  <2>4. ASSUME NEW d \in Devices, ExitDevice(d)
        PROVE  tick' \in TickType /\ (tick'.pc \in AtDevice => tick'.at \in Devices)
    BY <2>4, SkipMoves DEF ExitDevice, Moves, AtDevice
  <2>. QED BY <2>1, <2>2, <2>3, <2>4
<1>. QED BY <1>1, <1>2, <1>3, PoolUnchanged, TickKept DEF guards, PoolInv, TypeOK

\* A worker is warmed up or told to stop.
LEMMA WorkerStepsKeep ==
  ASSUME PoolInv, Unwarm \/ \E d \in Devices : Warm(d)
  PROVE  PoolInv'
<1>1. UNCHANGED <<registry, cancellations, receivers, guards, session, restarts, held, others>>
  BY DEF Unwarm, Warm
<1>2. CASE Unwarm
  <2>1. PoolKept
    BY <1>2, RemoveKeeps DEF Unwarm
  <2>2. tick.at \in Devices
    BY <1>2 DEF Unwarm, PoolInv, Places, AtDevice
  <2>3. Moves("join", tick.at, tick.todo, tick.then)
    BY <1>2, StayMoves DEF Unwarm, TickPcs
  <2>. QED BY <1>1, <2>1, <2>2, <2>3, TickKept DEF Moves, others, guards, PoolInv, TypeOK
<1>3. ASSUME NEW d \in Devices, Warm(d) PROVE PoolInv'
  <2>1. tick.devices[d] \in Versions \union {0}
    BY DEF PoolInv, TypeOK
  <2>2. PoolKept
    BY <1>3, <2>1, EnsureKeeps DEF Warm
  <2>3. Moves("guard", d, tick.todo \ {d}, tick.then)
    BY <1>3, GotoAtMoves DEF Warm, TickPcs
  <2>. QED BY <1>1, <2>2, <2>3, TickKept DEF Moves, others, guards, PoolInv, TypeOK
<1>. QED BY <1>2, <1>3

LEMMA PanicKeeps ==
  ASSUME PoolInv, Panics
  PROVE  PoolInv'
<1>1. tick' \in TickType /\ tick'.pc \in {"idle", "dead"}
  BY TickTypes DEF Panics, Idle, TickType, TickPcs
<1>2. restarts' \in Nat /\ held' \subseteq Devices
  BY DEF Panics, PoolInv, TypeOK
<1>3. UNCHANGED <<registry, cancellations, receivers, pool, guards, session, os, kicking, watch, stage>>
  BY DEF Panics, registryVars
<1>. QED BY <1>1, <1>2, <1>3, PoolUnchanged, TickKept DEF AtDevice, guards, PoolInv, TypeOK

-----------------------------------------------------------------------------
(***************************************************************************)
(* The ownership watch, the shutdown, and the theorems.                    *)
(***************************************************************************)
LEMMA WatchKeeps ==
  ASSUME PoolInv, WatchStep
  PROVE  PoolInv'
<1>. DEFINE KickType == [pc: {"idle", "ended", "stop", "hold"}, dev: Devices \union {Nobody},
                         name: Versions \union {0}]
<1>1. /\ UNCHANGED <<registryVars, pool, guards, tick, restarts, stage>>
      /\ notices' \subseteq Devices /\ held' \subseteq Devices
  BY DEF WatchStep, BeginKick, StopReceiver, Readvertise, EndStolen, PoolInv, TypeOK
<1>2. /\ kick' \in KickType /\ (kick'.pc # "idle" => kick'.dev \in Devices)
      /\ kicking' \subseteq Devices
      /\ receivers' \in [Devices -> Versions \union {0}]
      /\ session' \in [Devices -> {"none", "live", "cut"}]
  <2>1. CASE BeginKick
    BY <2>1 DEF BeginKick, PoolInv, TypeOK, Places
  <2>2. CASE StopReceiver
    <3>1. kick.dev \in Devices
      BY <2>2 DEF StopReceiver, PoolInv, Places
    <3>2. receivers[kick.dev] \in Versions \union {0} /\ kick \in KickType /\ kicking \subseteq Devices
      BY <3>1 DEF PoolInv, TypeOK
    <3>3. \/ kick' = NoKick /\ kicking' = kicking \ {kick.dev}
          \/ kick' = [kick EXCEPT !.pc = "hold", !.name = receivers[kick.dev]] /\ kicking' = kicking
      BY <2>2 DEF StopReceiver
    <3>4. kick' \in KickType /\ (kick'.pc # "idle" => kick'.dev \in Devices) /\ kicking' \subseteq Devices
      <4>1. CASE kick' = NoKick /\ kicking' = kicking \ {kick.dev}
        BY <3>2, <4>1 DEF NoKick
      <4>2. CASE kick' = [kick EXCEPT !.pc = "hold", !.name = receivers[kick.dev]] /\ kicking' = kicking
        <5>1. kick'.pc = "hold" /\ kick'.dev = kick.dev
          BY <3>2, <4>2
        <5>. QED BY <3>1, <3>2, <4>2, <5>1
      <4>. QED BY <3>3, <4>1, <4>2
    <3>. QED BY <2>2, <3>4, WithdrawnType DEF StopReceiver, PoolInv
  <2>3. CASE Readvertise
    <3>1. kick.dev \in Devices /\ kick.name \in Versions \union {0}
      BY <2>3 DEF Readvertise, PoolInv, Places, TypeOK
    <3>. QED BY <2>3, <3>1 DEF Readvertise, NoKick, PoolInv, TypeOK
  <2>4. ASSUME NEW d \in Devices, EndStolen(d)
        PROVE  /\ kick' \in KickType /\ kick'.dev \in Devices /\ UNCHANGED airplay
               /\ session' \in [Devices -> {"none", "live", "cut"}]
    <3>1. kick' = [pc |-> "ended", dev |-> d, name |-> 0] /\ UNCHANGED airplay
      BY <2>4 DEF EndStolen
    <3>2. session' \in [Devices -> {"none", "live", "cut"}]
      BY <2>4 DEF EndStolen, PoolInv, TypeOK
    <3>. QED BY <3>1, <3>2
  <2>. QED BY <2>1, <2>2, <2>3, <2>4 DEF WatchStep, airplay, PoolInv, TypeOK
<1>3. R!TypeOK'
  BY <1>1, RegistryType DEF registryVars, PoolInv, TypeOK
<1>4. Places'
  BY <1>1, <1>2 DEF Places, PoolInv
<1>. QED BY <1>1, <1>2, <1>3, <1>4, PoolUnchanged, RestKept DEF registryVars, guards, PoolInv, TypeOK

LEMMA ShutdownKeeps ==
  ASSUME PoolInv, Signal \/ ShutdownStep
  PROVE  PoolInv'
<1>1. PoolKept
  BY RemoveKeeps, PoolUnchanged DEF Signal, ShutdownStep, JoinMaintain, JoinBridge, ShutdownPool
<1>2. /\ UNCHANGED <<registryVars, airplay, guards, tick, restarts, held>>
      /\ stage' \in {"run", "signal", "bridge", "pool", "down"}
  BY DEF Signal, ShutdownStep, JoinMaintain, JoinBridge, ShutdownPool, PoolInv, TypeOK
<1>3. \/ UNCHANGED <<kick, notices, session>>
      \/ kick' = NoKick /\ notices' = {} /\ session' \in {session, [d \in Devices |-> "none"]}
  BY DEF Signal, ShutdownStep, JoinMaintain, JoinBridge, ShutdownPool, watch
<1>4. R!TypeOK'
  BY <1>2, RegistryType DEF registryVars, PoolInv, TypeOK
<1>5. Places'
  BY <1>2, <1>3 DEF Places, NoKick, PoolInv
<1>. QED BY <1>1, <1>2, <1>3, <1>4, <1>5, RestKept
         DEF NoKick, registryVars, airplay, guards, PoolInv, TypeOK

LEMMA ThreadKeeps ==
  ASSUME PoolInv, NEW d \in Devices, WorkerExits(d) \/ JoinTimesOut(d)
  PROVE  PoolInv'
<1>1. PoolKept
  BY ExitKeeps, TimeoutKeeps
<1>2. UNCHANGED <<registryVars, airplay, guards, watch, session, tick, restarts, stage, held>>
  BY DEF WorkerExits, JoinTimesOut
<1>3. R!TypeOK'
  BY <1>2, RegistryType DEF registryVars, PoolInv, TypeOK
<1>. QED BY <1>1, <1>2, <1>3, RestKept DEF registryVars, airplay, guards, watch, PoolInv, TypeOK, Places

LEMMA PoolInit == Init => PoolInv
BY DEF Init, PoolInv, TypeOK, R!TypeOK, R!Init, Places, Tombstones, OneWorkerThread, NoWorker, NoKick, Idle,
       TickPcs, AtDevice

LEMMA PoolStep == PoolInv /\ [Next]_vars => PoolInv'
<1>. SUFFICES ASSUME PoolInv, [Next]_vars PROVE PoolInv'
  OBVIOUS
<1>1. CASE MaintainStep
  BY <1>1, ReadersKeep, RegistryStepsKeep, GuardStepsKeep, JoinedKeeps, ReceiverStepsKeep, WorkerStepsKeep
     DEF MaintainStep
<1>2. CASE Panics \/ WatchStep \/ Signal \/ ShutdownStep
  BY <1>2, PanicKeeps, WatchKeeps, ShutdownKeeps
<1>3. CASE \E d \in Devices : WorkerExits(d) \/ JoinTimesOut(d)
  BY <1>3, ThreadKeeps
<1>. QED BY <1>1, <1>2, <1>3, SurroundingsKeep DEF Next

\* Every variable keeps its type, and the task and the watch work on a speaker where they read one.
THEOREM TypeCorrect == Spec => []TypeOK
<1>1. PoolInv => TypeOK
  BY DEF PoolInv
<1>. QED BY <1>1, PoolInit, PoolStep, PTL DEF Spec

\* A speaker never has two Cast worker threads, nor one the pool does not know of.
THEOREM OneThreadPerSpeaker == Spec => []OneWorkerThread
<1>1. PoolInv => OneWorkerThread
  BY DEF PoolInv
<1>. QED BY <1>1, PoolInit, PoolStep, PTL DEF Spec
-----------------------------------------------------------------------------
(***************************************************************************)
(* Sessions that were there when the tick began.  What the task decides on *)
(* under one lock it does under another: a session it saw at its guard, or *)
(* saw none of, is still so where it takes the receiver away.              *)
(***************************************************************************)
MidTick == {"expire", "stale", "list", "snapshot", "warm", "guard", "hide", "look", "build",
            "decide", "withdraw", "unwarm", "join", "orphans"}
Warming == {"warm", "guard", "hide", "look", "build"}

\* A sender is connected to an advertised receiver; a kick brings back a receiver it took away.
Advertised ==
  /\ \A d \in Devices : session[d] = "live" => receivers[d] # 0
  /\ kick.pc = "hold" => kick.name # 0

\* The history is of the tick that runs, and of sessions that last.
HeldLast ==
  /\ \A d \in held : HasSession(d)
  /\ tick.pc \notin MidTick => held = {}
  /\ tick.pc \in {"withdraw", "unwarm", "join"} => tick.then # "idle"
  /\ stage \in {"bridge", "pool", "down"} => tick.pc \in {"done", "dead"}

\* The pass over the desired speakers knows the receivers of these sessions, and leaves them alone.
WarmKnows ==
  /\ tick.pc \in Warming => /\ \A d \in tick.todo : Desired(d)
                            /\ \A d \in held : session[d] = "live" => d \in tick.prev
  /\ tick.pc \in {"guard", "hide", "look", "build"} => Desired(tick.at)
  /\ tick.pc \in {"look", "withdraw"} /\ tick.at \in held => session[tick.at] # "live"

HeldInv == PoolInv /\ Advertised /\ HeldLast /\ WarmKnows

\* What others do to a session: it starts where there is none, or ends and is held no more.
LEMMA OthersHeld ==
  ASSUME HeldInv,
         \/ Discovers \/ Signal \/ JoinMaintain \/ ShutdownPool
         \/ \E d \in Devices : TimePasses(d) \/ FloorPasses(d) \/ SessionStarts(d) \/ SessionEnds(d)
                               \/ Steal(d) \/ CastBreaks(d) \/ WorkerExits(d) \/ JoinTimesOut(d)
         \/ UNCHANGED vars
  PROVE  Advertised' /\ HeldLast' /\ WarmKnows'
<1>1. /\ UNCHANGED <<tick, receivers, kick>>
      /\ stage' = stage \/ stage' = "signal" \/ (tick.pc \in {"done", "dead"})
                        \/ (stage \in {"bridge", "pool", "down"})
  BY DEF Discovers, Signal, JoinMaintain, ShutdownPool, TimePasses, FloorPasses, SessionStarts,
         SessionEnds, Steal, CastBreaks, WorkerExits, JoinTimesOut, vars, airplay, watch
<1>2. session \in [Devices -> {"none", "live", "cut"}] /\ held \subseteq Devices
  BY DEF HeldInv, PoolInv, TypeOK
<1>3. \/ UNCHANGED <<session, held>>
      \/ \E d \in Devices : /\ session[d] = "none" /\ receivers[d] # 0 /\ UNCHANGED held
                            /\ session' = [session EXCEPT ![d] = "live"]
      \/ \E d \in Devices : session' = [session EXCEPT ![d] = "none"] /\ held' = held \ {d}
  BY DEF Discovers, Signal, JoinMaintain, ShutdownPool, TimePasses, FloorPasses, SessionStarts,
         SessionEnds, Steal, CastBreaks, WorkerExits, JoinTimesOut, vars, HasSession, HeldInv, PoolInv,
         TypeOK
<1>4. Advertised'
  BY <1>1, <1>2, <1>3 DEF HeldInv, Advertised
<1>5. HeldLast'
  BY <1>1, <1>2, <1>3 DEF HeldInv, HeldLast, HasSession
<1>6. WarmKnows'
  BY <1>1, <1>2, <1>3 DEF HeldInv, HeldLast, HasSession, WarmKnows, Desired
<1>. QED BY <1>4, <1>5, <1>6

\* A step of the task that leaves sessions and receivers: where it goes is all there is to show.
LEMMA MovesHeld ==
  ASSUME HeldInv, UNCHANGED <<receivers, session, kick, stage>>, held' \subseteq held,
         tick'.pc \notin MidTick => held' = {},
         tick'.pc \in {"withdraw", "unwarm", "join"} => tick'.then # "idle",
         stage \in {"bridge", "pool", "down"} => tick'.pc \in {"done", "dead"},
         tick'.pc \in Warming => /\ \A d \in tick'.todo : Desired(d)'
                                 /\ \A d \in held : session[d] = "live" => d \in tick'.prev,
         tick'.pc \in {"guard", "hide", "look", "build"} => Desired(tick.at)',
         tick'.pc \in {"look", "withdraw"} /\ tick'.at \in held => session[tick'.at] # "live"
  PROVE  Advertised' /\ HeldLast' /\ WarmKnows'
<1>1. Advertised'
  BY DEF HeldInv, Advertised
<1>2. HeldLast'
  BY DEF HeldInv, HeldLast, HasSession
<1>3. WarmKnows'
  BY DEF WarmKnows, Desired
<1>. QED BY <1>1, <1>2, <1>3
\* The steps of the task that take or build no receiver.
LEMMA TaskMovesHeld ==
  ASSUME HeldInv,
         \/ ExpireStale \/ StaleDone \/ List \/ Snapshot \/ Guard \/ WarmDone \/ Unwarm \/ Joined
         \/ DecideDone \/ EndTick \/ BeginExit \/ ExitDone \/ Panics
         \/ \E d \in Devices : StaleDevice(d) \/ Warm(d) \/ Decide(d) \/ Orphan(d)
  PROVE  Advertised' /\ HeldLast' /\ WarmKnows'
<1>1. /\ UNCHANGED <<receivers, session, kick, stage>> /\ held' \subseteq held
      /\ ~(EndTick \/ Panics) => held' = held
  BY DEF ExpireStale, StaleDone, List, Snapshot, Guard, WarmDone, Unwarm, Joined, DecideDone, EndTick,
         BeginExit, ExitDone, Panics, StaleDevice, Warm, Decide, Orphan, others, watch
<1>2. tick \in TickType /\ tick.then \in {"idle", "stale", "decide", "orphans"}
  BY TickTypes DEF HeldInv, TickType
<1>3. /\ \A d \in held : HasSession(d)
      /\ tick.pc \notin MidTick => held = {}
      /\ tick.pc \in {"withdraw", "unwarm", "join"} => tick.then # "idle"
      /\ stage \in {"bridge", "pool", "down"} => tick.pc \in {"done", "dead"}
      /\ \A d \in Devices : session[d] = "live" => receivers[d] # 0
  BY DEF HeldInv, HeldLast, Advertised
\* Outside the pass over the desired speakers there is nothing to show of it.
<1>4. ASSUME tick'.pc \in MidTick \ (Warming \cup {"withdraw"}), tick.pc \in MidTick,
             tick'.pc \in {"unwarm", "join"} => tick'.then # "idle"
      PROVE  Advertised' /\ HeldLast' /\ WarmKnows'
  BY <1>1, <1>3, <1>4, MovesHeld DEF MidTick, Warming
<1>5. CASE ExpireStale
  <2>1. tick'.pc = "stale" /\ tick.pc = "expire"
    BY <1>2, <1>5 DEF ExpireStale, Loop, TickType
  <2>. QED BY <1>4, <2>1 DEF MidTick, Warming
<1>6. CASE StaleDone \/ List
  <2>1. tick'.pc \in {"list", "snapshot"} /\ tick.pc \in {"stale", "list"}
    BY <1>2, <1>6 DEF StaleDone, List, Goto, TickType
  <2>. QED BY <1>4, <2>1 DEF MidTick, Warming
<1>7. CASE Snapshot
  <2>1. /\ tick.pc = "snapshot" /\ tick'.pc = "warm" /\ tick'.prev = Active
        /\ tick'.todo = {d \in Devices : Desired(d)} /\ tick'.devices = tick.devices
    BY <1>2, <1>7 DEF Snapshot, TickType
  <2>2. \A d \in tick'.todo : Desired(d)'
    BY <2>1 DEF Desired
  <2>3. \A d \in held : session[d] = "live" => d \in tick'.prev
    BY <1>3, <2>1 DEF Active, HeldInv, PoolInv, TypeOK
  <2>. QED BY <1>1, <1>3, <2>1, <2>2, <2>3, MovesHeld DEF MidTick, Warming
<1>8. CASE Guard
  <2>1. /\ tick.pc = "guard" /\ tick'.pc = AfterGuard(tick.at) /\ tick'.at = tick.at
        /\ tick'.todo = tick.todo /\ tick'.prev = tick.prev /\ tick'.devices = tick.devices
    BY <1>2, <1>8 DEF Guard, TickType
  <2>2. /\ AfterGuard(tick.at) \in {"hide", "warm", "look"}
        /\ AfterGuard(tick.at) = "look" => ~(tick.at \in tick.prev /\ HasSession(tick.at))
    BY DEF AfterGuard
  <2>3. /\ Desired(tick.at) /\ \A d \in tick.todo : Desired(d)
        /\ \A d \in held : session[d] = "live" => d \in tick.prev
    BY <2>1 DEF HeldInv, WarmKnows, Warming
  <2>4. Desired(tick.at)' /\ \A d \in tick'.todo : Desired(d)'
    BY <2>1, <2>3 DEF Desired
  <2>5. tick'.pc \in {"look", "withdraw"} /\ tick'.at \in held => session[tick'.at] # "live"
    BY <2>1, <2>2, <2>3 DEF HasSession
  <2>. QED BY <1>1, <1>3, <2>1, <2>2, <2>3, <2>4, <2>5, MovesHeld DEF MidTick, Warming
<1>9. CASE WarmDone \/ Unwarm \/ DecideDone
  <2>1. /\ tick'.pc \in {"decide", "join", "orphans"} /\ tick.pc \in {"warm", "unwarm", "decide"}
        /\ tick'.pc = "join" => tick'.then # "idle"
    BY <1>2, <1>3, <1>9 DEF WarmDone, Unwarm, DecideDone, Loop, TickType
  <2>. QED BY <1>4, <2>1 DEF MidTick, Warming
<1>10. CASE Joined
  <2>1. tick'.pc = tick.then /\ tick.pc = "join"
    BY <1>2, <1>10 DEF Joined, Goto, TickType
  <2>. QED BY <1>1, <1>2, <1>3, <2>1, MovesHeld DEF MidTick, Warming
<1>11. CASE EndTick \/ Panics
  <2>1. tick'.pc \in {"idle", "dead"} /\ tick.pc \notin {"done", "dead"} /\ held' = {}
    BY <1>11 DEF EndTick, Panics, Idle
  <2>. QED BY <1>1, <1>3, <2>1, MovesHeld DEF MidTick, Warming
<1>12. CASE BeginExit \/ ExitDone
  <2>1. /\ tick.pc \in {"idle", "exit"} /\ tick'.pc \in {"exit", "done"}
        /\ stage \in {"bridge", "pool", "down"} => tick'.pc \in {"done", "dead"}
    BY <1>2, <1>3, <1>12 DEF BeginExit, ExitDone, Loop, Goto, TickType
  <2>. QED BY <1>1, <1>3, <2>1, MovesHeld DEF MidTick, Warming
<1>13. ASSUME NEW d \in Devices, StaleDevice(d) \/ Decide(d) \/ Orphan(d)
       PROVE  Advertised' /\ HeldLast' /\ WarmKnows'
  <2>1. tick.pc \in {"stale", "decide", "orphans"}
    BY <1>13 DEF StaleDevice, Decide, Orphan
  <2>2. \/ tick'.pc = tick.pc
        \/ /\ tick'.pc \in {"withdraw", "unwarm"} /\ tick'.at = d /\ ~HasSession(d)
           /\ tick'.then # "idle"
    BY <1>2, <1>13 DEF StaleDevice, Decide, Orphan, Skip, TickType
  <2>3. tick'.pc \in {"look", "withdraw"} /\ tick'.at \in held => session[tick'.at] # "live"
    BY <1>3, <2>1, <2>2
  <2>. QED BY <1>1, <1>3, <2>1, <2>2, <2>3, MovesHeld DEF MidTick, Warming
<1>14. ASSUME NEW d \in Devices, Warm(d)
       PROVE  Advertised' /\ HeldLast' /\ WarmKnows'
  <2>1. /\ tick.pc = "warm" /\ d \in tick.todo /\ tick'.pc = "guard" /\ tick'.at = d
        /\ tick'.todo = tick.todo \ {d} /\ tick'.prev = tick.prev /\ tick'.devices = tick.devices
    BY <1>2, <1>14 DEF Warm, GotoAt, TickType
  <2>2. /\ \A e \in tick.todo : Desired(e)
        /\ \A e \in held : session[e] = "live" => e \in tick.prev
    BY <2>1 DEF HeldInv, WarmKnows, Warming
  <2>3. Desired(tick.at)' /\ \A e \in tick'.todo : Desired(e)'
    BY <2>1, <2>2 DEF Desired
  <2>. QED BY <1>1, <1>3, <2>1, <2>2, <2>3, MovesHeld DEF MidTick, Warming
<1>. QED BY <1>5, <1>6, <1>7, <1>8, <1>9, <1>10, <1>11, <1>12, <1>13, <1>14

LEMMA BeginHeld ==
  ASSUME HeldInv, BeginTick
  PROVE  Advertised' /\ HeldLast' /\ WarmKnows'
<1>1. /\ tick'.pc = "expire" /\ stage = "run" /\ held' = {d \in Devices : session[d] = "live"}
      /\ UNCHANGED <<receivers, session, kick, stage>>
  BY TickTypes DEF BeginTick, Loop, Running, others, watch, HeldInv, TickType
<1>. QED BY <1>1 DEF HeldInv, Advertised, HeldLast, WarmKnows, MidTick, Warming, HasSession

\* A receiver that is taken away cuts its session, which still has to end.
LEMMA WithdrawnHeld ==
  ASSUME HeldInv, NEW gone, Withdrawn(gone)
  PROVE  /\ \A d \in Devices : /\ session'[d] = "live" => receivers'[d] # 0 /\ session[d] = "live"
                               /\ HasSession(d)' <=> HasSession(d)
                               /\ session'[d] = "cut" => session[d] = "cut" \/ d \in gone
BY DEF Withdrawn, HeldInv, PoolInv, TypeOK, Advertised, HasSession

LEMMA ReceiversHeld ==
  ASSUME HeldInv, Hide \/ Look \/ Build \/ Withdraw \/ \E d \in Devices : ExitDevice(d)
  PROVE  Advertised' /\ HeldLast' /\ WarmKnows'
<1>1. tick \in TickType /\ UNCHANGED <<kick, stage, held>> /\ held \subseteq Devices
  BY TickTypes DEF Hide, Look, Build, Withdraw, ExitDevice, others, watch, HeldInv, PoolInv, TypeOK
<1>2. /\ tick'.todo \subseteq tick.todo /\ tick'.prev = tick.prev /\ tick'.devices = tick.devices
      /\ \/ tick.pc \in {"hide", "look", "build"} /\ tick'.pc = "warm"
         \/ tick.pc = "look" /\ tick'.pc = "build" /\ tick'.at = tick.at
         \/ tick.pc = "withdraw" /\ tick'.pc = "unwarm" /\ tick'.then = tick.then
         \/ tick.pc = "exit" /\ tick'.pc = "exit"
  BY <1>1 DEF Hide, Look, Build, Withdraw, ExitDevice, Goto, Skip, TickType
<1>3. \A d \in Devices : /\ session'[d] = "live" => receivers'[d] # 0 /\ session[d] = "live"
                         /\ HasSession(d)' <=> HasSession(d)
  <2>1. CASE Build
    <3>1. tick.at \in Devices /\ Desired(tick.at) /\ session' = session
      BY <2>1 DEF Build, HeldInv, PoolInv, Places, AtDevice, WarmKnows
    <3>2. \A d \in Devices : receivers'[d] = receivers[d] \/ receivers'[d] # 0
      BY <2>1, <3>1 DEF Build, Desired, HeldInv, PoolInv, TypeOK
    <3>. QED BY <3>1, <3>2 DEF HeldInv, Advertised, HasSession
  <2>2. CASE UNCHANGED <<receivers, session>>
    BY <2>2 DEF HeldInv, Advertised, HasSession
  <2>. QED BY <2>1, <2>2, WithdrawnHeld DEF Hide, Look, Withdraw, ExitDevice
<1>4. Advertised'
  BY <1>1, <1>3 DEF HeldInv, Advertised
<1>5. HeldLast'
  BY <1>1, <1>2, <1>3 DEF HeldInv, HeldLast, MidTick
<1>6. WarmKnows'
  <2>1. CASE tick.pc \in Warming
    <3>1. /\ \A d \in tick.todo : Desired(d)
          /\ \A d \in held : session[d] = "live" => d \in tick.prev
      BY <2>1 DEF HeldInv, WarmKnows
    <3>2. \A d \in tick'.todo : Desired(d)'
      BY <1>2, <3>1 DEF Desired
    <3>3. \A d \in held' : session'[d] = "live" => d \in tick'.prev
      BY <1>1, <1>2, <1>3, <3>1
    <3>4. tick'.pc \in {"guard", "hide", "look", "build"} => Desired(tick.at)'
      BY <1>2 DEF Desired, HeldInv, WarmKnows
    <3>5. tick'.pc \notin {"look", "withdraw"}
      BY <1>2
    <3>. QED BY <3>2, <3>3, <3>4, <3>5 DEF WarmKnows
  <2>2. CASE tick.pc \notin Warming
    BY <1>2, <2>2 DEF WarmKnows, Warming
  <2>. QED BY <2>1, <2>2
<1>. QED BY <1>4, <1>5, <1>6

\* The kick of a stolen speaker, and the end of the bridge.
LEMMA WatchHeld ==
  ASSUME HeldInv, WatchStep \/ JoinBridge
  PROVE  Advertised' /\ HeldLast' /\ WarmKnows'
<1>1. UNCHANGED tick /\ held' \subseteq held /\ held \subseteq Devices /\ 0 \notin Versions
  BY DeviceAssumption
     DEF WatchStep, BeginKick, StopReceiver, Readvertise, EndStolen, JoinBridge, HeldInv, PoolInv, TypeOK
<1>2. /\ \A d \in held' : HasSession(d)' /\ (session'[d] = "live" => session[d] = "live")
      /\ \A d \in Devices : session'[d] = "live" => receivers'[d] # 0
      /\ kick'.pc = "hold" => kick'.name # 0
      /\ stage' = stage \/ tick.pc \in {"done", "dead"}
  <2>1. CASE BeginKick
    BY <2>1 DEF BeginKick, HeldInv, HeldLast, Advertised, HasSession, PoolInv, TypeOK
  <2>2. CASE StopReceiver
    <3>1. held' = held /\ stage' = stage
      BY <2>2 DEF StopReceiver
    <3>2. kick'.pc = "hold" => kick'.name # 0
      <4>1. CASE receivers[kick.dev] = 0
        BY <2>2, <4>1 DEF StopReceiver, NoKick
      <4>2. CASE receivers[kick.dev] # 0
        <5>1. kick' = [kick EXCEPT !.pc = "hold", !.name = receivers[kick.dev]]
          BY <2>2, <4>2 DEF StopReceiver
        <5>2. kick'.name = receivers[kick.dev]
          BY <5>1 DEF HeldInv, PoolInv, TypeOK
        <5>. QED BY <4>2, <5>2
      <4>. QED BY <4>1, <4>2
    <3>. QED BY <1>1, <2>2, <3>1, <3>2, WithdrawnHeld DEF StopReceiver, HeldInv, HeldLast
  <2>3. CASE Readvertise
    <3>1. held' = held /\ stage' = stage /\ session' = session /\ kick'.pc = "idle" /\ kick.name # 0
      BY <2>3 DEF Readvertise, NoKick, HeldInv, Advertised
    <3>2. \A d \in Devices : receivers'[d] = receivers[d] \/ receivers'[d] # 0
      BY <2>3, <3>1 DEF Readvertise, HeldInv, PoolInv, TypeOK
    <3>. QED BY <3>1, <3>2 DEF HeldInv, HeldLast, Advertised, HasSession
  <2>4. ASSUME NEW d \in Devices, EndStolen(d)
        PROVE  /\ \A e \in held' : HasSession(e)' /\ (session'[e] = "live" => session[e] = "live")
               /\ \A e \in Devices : session'[e] = "live" => receivers'[e] # 0
               /\ kick'.pc = "ended" /\ stage' = stage
    BY <1>1, <2>4 DEF EndStolen, airplay, HeldInv, HeldLast, Advertised, HasSession, PoolInv, TypeOK
  <2>5. CASE JoinBridge
    <3>1. held = {} /\ held' = held /\ tick.pc \in {"done", "dead"} /\ UNCHANGED receivers
          /\ kick'.pc = "idle"
      BY <2>5 DEF JoinBridge, NoKick, airplay, HeldInv, HeldLast, MidTick
    <3>2. \A d \in Devices : session'[d] = "live" => session[d] = "live"
      BY <2>5 DEF JoinBridge
    <3>. QED BY <3>1, <3>2 DEF HeldInv, Advertised
  <2>. QED BY <2>1, <2>2, <2>3, <2>4, <2>5 DEF WatchStep
<1>3. Advertised'
  BY <1>2 DEF Advertised
<1>4. HeldLast'
  BY <1>1, <1>2 DEF HeldInv, HeldLast
<1>5. WarmKnows'
  BY <1>1, <1>2 DEF HeldInv, WarmKnows, Desired
<1>. QED BY <1>3, <1>4, <1>5

LEMMA HeldInit == Init => HeldInv
BY PoolInit DEF Init, HeldInv, Advertised, HeldLast, WarmKnows, MidTick, Warming, Idle, NoKick

LEMMA HeldStep == HeldInv /\ [Next]_vars => HeldInv'
<1>. SUFFICES ASSUME HeldInv, [Next]_vars PROVE HeldInv'
  OBVIOUS
<1>1. PoolInv'
  BY PoolStep DEF HeldInv
<1>2. Advertised' /\ HeldLast' /\ WarmKnows'
  <2>1. CASE MaintainStep
    BY <2>1, TaskMovesHeld, BeginHeld, ReceiversHeld DEF MaintainStep
  <2>2. CASE Panics \/ WatchStep \/ Signal \/ ShutdownStep
    BY <2>2, TaskMovesHeld, WatchHeld, OthersHeld DEF ShutdownStep
  <2>. QED BY <2>1, <2>2, OthersHeld DEF Next
<1>. QED BY <1>1, <1>2 DEF HeldInv

\* Only the steps that take a receiver away cut a session, and which one is settled before.
LEMMA CutsAre ==
  ASSUME HeldInv, [Next]_vars, NEW d \in held, session[d] = "live", session'[d] = "cut"
  PROVE  tick.pc \in {"hide", "exit"} \/ kick'.pc # kick.pc
<1>1. session \in [Devices -> {"none", "live", "cut"}] /\ d \in Devices
  BY DEF HeldInv, PoolInv, TypeOK
<1>2. \/ Hide \/ Look \/ Withdraw \/ StopReceiver \/ (\E e \in Devices : ExitDevice(e))
      \/ session' = session \/ \E e \in Devices, x \in {"none", "live"} : session' = [session EXCEPT ![e] = x]
      \/ session' = [e \in Devices |-> "none"]
  BY DEF Next, MaintainStep, BeginTick, ExpireStale, StaleDone, List, Snapshot, Guard, Build, WarmDone,
         Unwarm, Joined, DecideDone, EndTick, BeginExit, ExitDone, StaleDevice, Warm, Decide, Orphan,
         Panics, WatchStep, BeginKick, Readvertise, EndStolen, Signal, ShutdownStep, JoinMaintain,
         JoinBridge, ShutdownPool, Discovers, TimePasses, FloorPasses, CastBreaks, SessionStarts,
         SessionEnds, Steal, WorkerExits, JoinTimesOut, vars
<1>3. CASE Hide \/ \E e \in Devices : ExitDevice(e)
  BY <1>3 DEF Hide, ExitDevice
<1>4. CASE StopReceiver
  <2>1. kick.pc = "stop"
    BY <1>4 DEF StopReceiver
  <2>2. kick' = NoKick \/ kick' = [kick EXCEPT !.pc = "hold", !.name = receivers[kick.dev]]
    BY <1>4 DEF StopReceiver
  <2>3. kick'.pc \in {"idle", "hold"}
    <3>. DEFINE name == receivers[kick.dev]
    <3>1. kick \in [pc: {"idle", "ended", "stop", "hold"}, dev: Devices \union {Nobody},
                    name: Versions \union {0}]
      BY DEF HeldInv, PoolInv, TypeOK
    <3>2. kick' = NoKick \/ kick' = [kick EXCEPT !.pc = "hold", !.name = name]
      BY <2>2
    <3>. HIDE DEF name
    <3>3. [kick EXCEPT !.pc = "hold", !.name = name].pc = "hold"
      BY <3>1
    <3>4. NoKick.pc = "idle"
      BY DEF NoKick
    <3>. QED BY <3>2, <3>3, <3>4
  <2>. QED BY <2>1, <2>3
<1>5. CASE Look \/ Withdraw
  <2>1. tick.pc \in {"look", "withdraw"} /\ (Withdrawn({tick.at}) \/ session' = session)
    BY <1>5 DEF Look, Withdraw
  <2>2. d = tick.at
    BY <1>1, <2>1, WithdrawnHeld
  <2>. QED BY <2>1, <2>2 DEF HeldInv, WarmKnows
<1>6. CASE session' = session \/ \E e \in Devices, x \in {"none", "live"} : session' = [session EXCEPT ![e] = x]
  BY <1>1, <1>6
<1>7. CASE session' = [e \in Devices |-> "none"]
  BY <1>1, <1>7
<1>. QED BY <1>2, <1>3, <1>4, <1>5, <1>6, <1>7

\* A tick never cuts a session that was there when it began, for every set of speakers and any
\* renames, removals, failed builds and panics: only a broken Cast sink, the exit or a kick does.
THEOREM SessionsOutliveTheTick == Spec => TickKeepsSessions
<1>1. HeldInv /\ [Next]_vars =>
        [\A d \in held : session[d] = "live" /\ session'[d] = "cut"
           => tick.pc \in {"hide", "exit"} \/ kick'.pc # kick.pc]_vars
  BY CutsAre
<1>. QED BY <1>1, HeldInit, HeldStep, PTL DEF Spec, TickKeepsSessions
=============================================================================
