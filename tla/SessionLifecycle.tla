--------------------------- MODULE SessionLifecycle ---------------------------
(***************************************************************************)
(* One bridged speaker: its AirPlay receiver, its device worker, the       *)
(* generation-stamped slot, the detached teardowns, the re-LOAD threads    *)
(* and the Cast speaker they all command.                                  *)
(*                                                                         *)
(* A stream is one AirPlay audio session; it is named by the PCM ring      *)
(* audio_init builds for it.  A generation is one accepted start.  Cast    *)
(* STOP acts on whatever media session the Cast worker tracks, so the      *)
(* question throughout is which generation a STOP or a late LOAD lands on. *)
(***************************************************************************)
EXTENDS Naturals, Sequences, FiniteSets

CONSTANTS
  MaxStreams,     \* bound: AirPlay streams opened in one behaviour
  MaxReloads,     \* bound: re-LOADs started per generation
  OffWorkerEnds,  \* sessions also end outside the device worker (terminal stall, lost Cast)
  Timeouts        \* teardown may stop waiting for a Cast call that is still queued

ASSUME BoundsAssumption == MaxStreams \in Nat \ {0} /\ MaxReloads \in Nat
ASSUME ModesAssumption == OffWorkerEnds \in BOOLEAN /\ Timeouts \in BOOLEAN

Streams == 1..MaxStreams
Gens    == 1..MaxStreams       \* at most one generation per stream
None    == 0                   \* no stream, no generation, a silent speaker
Other   == MaxStreams + 1      \* another sender's session on the speaker

VARIABLES
  opened,      \* number of streams opened so far
  phase,       \* phase[s]: the receiver's view of stream s
  ringSlot,    \* stream whose ring the receiver serves (None: the placeholder)
  inbox,       \* device worker's FIFO of session events
  stopping,    \* Bridge::request_shutdown ran
  slot,        \* DeviceState of the speaker, with its generation
  generation,  \* DeviceSlot.generation: last generation stamped
  worker,      \* where the device worker is, and for which generation
  ringOf,      \* ringOf[g]: stream generation g was started for
  media,       \* generations whose media server is up
  alive,       \* generations whose session_alive is true
  lateStop,    \* generations whose late_stop_allowed is true
  tear,        \* tear[g]: progress of g's teardown_playing
  policy,      \* policy[g]: TeardownCastPolicy of that teardown
  reload,      \* reload[g]: progress of g's re-LOAD task and its blocking thread
  loaded,      \* generations whose last re-LOAD succeeded on the wire
  reloads,     \* reloads[g]: re-LOADs started, for MaxReloads
  commands,    \* the Cast worker's command queue
  cast,        \* generation whose media the speaker plays (or None, Other)
  active       \* generation whose media session the Cast worker tracks

airplay  == <<opened, phase, ringSlot>>
sessions == <<ringOf, media, alive, lateStop>>
teardown == <<tear, policy>>
loads    == <<reload, loaded, reloads>>
speaker  == <<cast, active>>
castpool == <<commands, speaker>>
vars == <<airplay, inbox, stopping, slot, generation, worker, sessions,
          teardown, loads, castpool>>

Event == [kind : {"Started"}, ring : Streams] \cup [kind : {"Ended"}, ring : {None}]

Callers == {"start", "teardown", "reload", "discard"}
Command == [op : {"LOAD", "STOP"}, by : Callers, gen : Gens]
Cmd(op, by, g) == [op |-> op, by |-> by, gen |-> g]

Idle        == [st |-> "Idle", gen |-> None]
Starting(g) == [st |-> "Starting", gen |-> g]
Playing(g)  == [st |-> "Playing", gen |-> g]

At(pc, g)   == [pc |-> pc, gen |-> g]
Resting     == At("idle", None)

StartPcs == {"prebuffer", "loading", "landed", "failed", "volume", "discard"}
TearPcs  == {"none", "mark", "kill", "join", "stop", "done"}
LoadPcs  == {"none", "gated", "checked", "loading", "landed", "dead", "stop", "accept", "discard", "discarding"}
\* The blocking thread teardown joins; an ungated, accepting or discarding task it only aborts.
InflightPcs == {"checked", "loading", "landed", "dead", "stop"}

TypeOK ==
  /\ opened \in 0..MaxStreams
  /\ phase \in [Streams -> {"unopened", "opening", "live", "closed"}]
  /\ ringSlot \in Streams \cup {None}
  /\ inbox \in Seq(Event)
  /\ stopping \in BOOLEAN
  /\ slot \in {Idle} \cup [st : {"Starting", "Playing"}, gen : Gens]
  /\ generation \in 0..MaxStreams
  /\ worker \in {Resting, At("exited", None)} \cup [pc : StartPcs \cup {"ending"}, gen : Gens]
  /\ ringOf \in [Gens -> Streams \cup {None}]
  /\ media \subseteq Gens
  /\ alive \subseteq Gens
  /\ lateStop \subseteq Gens
  /\ tear \in [Gens -> TearPcs]
  /\ policy \in [Gens -> {"StopBestEffort", "SkipStopForReplace"}]
  /\ reload \in [Gens -> LoadPcs]
  /\ loaded \subseteq Gens
  /\ reloads \in [Gens -> 0..MaxReloads]
  /\ commands \in Seq(Command)
  /\ cast \in Gens \cup {None, Other}
  /\ active \in Gens \cup {None}

Init ==
  /\ opened = 0
  /\ phase = [s \in Streams |-> "unopened"]
  /\ ringSlot = None
  /\ inbox = <<>>
  /\ stopping = FALSE
  /\ slot = Idle
  /\ generation = 0
  /\ worker = Resting
  /\ ringOf = [g \in Gens |-> None]
  /\ media = {} /\ alive = {} /\ lateStop = {}
  /\ tear = [g \in Gens |-> "none"]
  /\ policy = [g \in Gens |-> "StopBestEffort"]
  /\ reload = [g \in Gens |-> "none"]
  /\ loaded = {}
  /\ reloads = [g \in Gens |-> 0]
  /\ commands = <<>>
  /\ cast = None /\ active = None

-----------------------------------------------------------------------------
(***************************************************************************)
(* AirPlay receiver.  Events reach the worker only while intake is open.   *)
(***************************************************************************)
Post(e) == inbox' = IF stopping THEN inbox ELSE Append(inbox, e)

\* audio_init builds the stream's ring and publishes it in the ring slot ...
OpenStream ==
  /\ opened < MaxStreams
  /\ opened' = opened + 1
  /\ phase' = [phase EXCEPT ![opened + 1] = "opening"]
  /\ ringSlot' = opened + 1
  /\ UNCHANGED <<inbox, stopping, slot, generation, worker, sessions, teardown, loads, castpool>>

\* ... and sends Started after the slot's lock is released.
PublishStarted(s) ==
  /\ phase[s] = "opening"
  /\ phase' = [phase EXCEPT ![s] = "live"]
  /\ Post([kind |-> "Started", ring |-> s])
  /\ UNCHANGED <<opened, ringSlot, stopping, slot, generation, worker, sessions, teardown, loads, castpool>>

\* Drop of the audio session: Ended only if its ring still is the current one,
\* decided and sent under the slot's lock.
CloseStream(s) ==
  /\ phase[s] = "live"
  /\ phase' = [phase EXCEPT ![s] = "closed"]
  /\ IF ringSlot = s
       THEN ringSlot' = None /\ Post([kind |-> "Ended", ring |-> None])
       ELSE UNCHANGED <<ringSlot, inbox>>
  /\ UNCHANGED <<opened, stopping, slot, generation, worker, sessions, teardown, loads, castpool>>

-----------------------------------------------------------------------------
(***************************************************************************)
(* Teardown bookkeeping and the Cast commands.                             *)
(***************************************************************************)
\* (mutants) the session is left in the slot; the server is left up
PeekLiveSession(g)    == slot = Playing(g) /\ UNCHANGED slot
MediaLeftUp(g)        == UNCHANGED media

IsCurrent(s)       == ringSlot = s
StartingStill(g)   == slot = Starting(g)
ClearStartingIf(g) == slot' = IF slot = Starting(g) THEN Idle ELSE slot
TakeLiveSession(g) == slot = Playing(g) /\ slot' = Idle
MediaShutdown(g)   == media' = media \ {g}
NextGeneration     == generation + 1


\* Hand g's session to teardown_playing under policy p.
BeginTeardown(g, p) ==
  /\ tear' = [tear EXCEPT ![g] = "mark"]
  /\ policy' = [policy EXCEPT ![g] = p]

\* Calls on the Cast worker queue up and are served one at a time, in order.
Send(cmd) == commands' = Append(commands, cmd)

-----------------------------------------------------------------------------
(***************************************************************************)
(* Device worker: one event at a time, Started runs the whole start.       *)
(***************************************************************************)
Head1(kind) == inbox # <<>> /\ Head(inbox).kind = kind
WorkerTakes(kind) ==
  /\ worker = Resting /\ ~stopping /\ Head1(kind)
  /\ inbox' = Tail(inbox)

\* Stale Started: the ring was rebuilt or the stream is gone.
SkipStaleStart ==
  /\ WorkerTakes("Started")
  /\ ~IsCurrent(Head(inbox).ring)
  /\ UNCHANGED <<airplay, stopping, slot, generation, worker, sessions, teardown, loads, castpool>>

\* Bump the generation, install Starting, detach the prior session's teardown.
AcceptStart ==
  /\ WorkerTakes("Started")
  /\ IsCurrent(Head(inbox).ring)
  /\ generation < MaxStreams
  /\ LET g == NextGeneration IN
       /\ generation' = g
       /\ slot' = Starting(g)
       /\ ringOf' = [ringOf EXCEPT ![g] = Head(inbox).ring]
       /\ worker' = At("prebuffer", g)
       /\ IF slot.st = "Playing"
            THEN BeginTeardown(slot.gen, "SkipStopForReplace")
            ELSE UNCHANGED teardown
  /\ UNCHANGED <<airplay, stopping, media, alive, lateStop, loads, castpool>>

\* Unknown device, prebuffer superseded or out of budget, start lead abandoned,
\* or the media server did not start: the start is given up.
AbandonStart ==
  /\ worker.pc = "prebuffer"
  /\ ClearStartingIf(worker.gen)
  /\ worker' = Resting
  /\ UNCHANGED <<airplay, inbox, stopping, generation, sessions, teardown, loads, castpool>>

\* Prebuffer and lead reached and the start still is current: media server up, LOAD sent.
BeginLoad ==
  /\ worker.pc = "prebuffer"
  /\ IsCurrent(ringOf[worker.gen]) /\ StartingStill(worker.gen)
  /\ media' = media \cup {worker.gen}
  /\ Send(Cmd("LOAD", "start", worker.gen))
  /\ worker' = At("loading", worker.gen)
  /\ UNCHANGED <<airplay, inbox, stopping, slot, generation, ringOf, alive, lateStop, teardown, loads, speaker>>

\* FLAC and its WAV fallback both failed: media down, start cleared.
StartLoadFailed ==
  /\ worker.pc = "failed"
  /\ MediaShutdown(worker.gen)
  /\ ClearStartingIf(worker.gen)
  /\ worker' = Resting
  /\ UNCHANGED <<airplay, inbox, stopping, generation, ringOf, alive, lateStop, teardown, loads, castpool>>

\* Post-LOAD liveness check: go on to get_volume, or discard what was loaded.
AfterLoad ==
  /\ worker.pc = "landed"
  /\ IF StartingStill(worker.gen)
       THEN worker' = At("volume", worker.gen) /\ UNCHANGED <<media, commands>>
       ELSE /\ worker' = At("discard", worker.gen)
            /\ MediaShutdown(worker.gen)
            /\ Send(Cmd("STOP", "start", worker.gen))
  /\ UNCHANGED <<airplay, inbox, stopping, slot, generation, ringOf, alive, lateStop, teardown, loads, speaker>>

\* Arbitration after get_volume: install, or tear the orphan down.
OrphanPolicy == IF slot.st \in {"Starting", "Playing"} THEN "SkipStopForReplace" ELSE "StopBestEffort"

InstallPlaying ==
  /\ worker.pc = "volume"
  /\ alive' = alive \cup {worker.gen}
  /\ lateStop' = lateStop \cup {worker.gen}
  /\ IF StartingStill(worker.gen)
       THEN slot' = Playing(worker.gen) /\ UNCHANGED teardown
       ELSE BeginTeardown(worker.gen, OrphanPolicy) /\ UNCHANGED slot
  /\ worker' = Resting
  /\ UNCHANGED <<airplay, inbox, stopping, generation, ringOf, media, loads, castpool>>

\* (mutant) every Ended of a Playing session is taken for stale.
EndedAlwaysStale == slot.st = "Playing"

\* Ended is stale while the session's ring still is the receiver's current one.
EndedIsStale == slot.st = "Playing" /\ IsCurrent(ringOf[slot.gen])

DropEnded ==
  /\ WorkerTakes("Ended")
  /\ slot = Idle \/ EndedIsStale
  /\ UNCHANGED <<airplay, stopping, slot, generation, worker, sessions, teardown, loads, castpool>>

\* (Ended never finds Starting here: the worker that would read it is the one starting.)
\* A genuine Ended takes the session and the worker waits for its teardown.
HandleEnded ==
  /\ WorkerTakes("Ended")
  /\ ~EndedIsStale /\ TakeLiveSession(slot.gen)
  /\ BeginTeardown(slot.gen, "StopBestEffort")
  /\ worker' = At("ending", slot.gen)
  /\ UNCHANGED <<airplay, stopping, generation, sessions, loads, castpool>>

\* (mutant) the worker goes on while its teardown runs.
TornDownUnawaited(g) == TRUE

TornDown(g) == tear[g] = "done"

EndedTornDown ==
  /\ worker.pc = "ending" /\ TornDown(worker.gen)
  /\ worker' = Resting
  /\ UNCHANGED <<airplay, inbox, stopping, slot, generation, sessions, teardown, loads, castpool>>

-----------------------------------------------------------------------------
(***************************************************************************)
(* teardown_playing, for a session some path took out of the slot.         *)
(***************************************************************************)
\* (mutant) no teardown stops the speaker.
SkipsStopAlways(p) == TRUE

SkipsStop(p) == p = "SkipStopForReplace"

\* (mutant) replace forgets to forbid the late STOP.
ForbidsLateStopNever(g) == FALSE

\* A replace forbids the late STOP before it declares the session dead.
ForbidsLateStop(g) == SkipsStop(policy[g])

MarkTeardown(g) ==
  /\ tear[g] = "mark"
  /\ lateStop' = IF ForbidsLateStop(g) THEN lateStop \ {g} ELSE lateStop
  /\ tear' = [tear EXCEPT ![g] = "kill"]
  /\ UNCHANGED <<airplay, inbox, stopping, slot, generation, worker, ringOf, media, alive, policy, loads, castpool>>

KillSession(g) ==
  /\ tear[g] = "kill"
  /\ alive' = alive \ {g}
  /\ tear' = [tear EXCEPT ![g] = "join"]
  /\ UNCHANGED <<airplay, inbox, stopping, slot, generation, worker, ringOf, media, lateStop, policy, loads, castpool>>

\* Session tasks aborted, the blocking LOAD joined (or given up on), media shut down;
\* then the STOP of a full end.  A discard STOP runs on a thread of its own, which the
\* abort leaves running and nothing joins.
JoinAndEndMedia(g) ==
  /\ tear[g] = "join"
  /\ Timeouts \/ reload[g] \notin InflightPcs
  /\ reload' = [reload EXCEPT ![g] = IF @ \in {"gated", "accept"} THEN "none" ELSE @]
  /\ MediaShutdown(g)
  /\ IF SkipsStop(policy[g])
       THEN tear' = [tear EXCEPT ![g] = "done"] /\ UNCHANGED commands
       ELSE tear' = [tear EXCEPT ![g] = "stop"] /\ Send(Cmd("STOP", "teardown", g))
  /\ UNCHANGED <<airplay, inbox, stopping, slot, generation, worker, ringOf, alive, lateStop, policy, loaded, reloads, speaker>>

\* The STOP and its retry timed out: teardown ends with the STOP still queued.
GiveUpStop(g) ==
  /\ Timeouts /\ tear[g] = "stop"
  /\ tear' = [tear EXCEPT ![g] = "done"]
  /\ UNCHANGED <<airplay, inbox, stopping, slot, generation, worker, sessions, policy, loads, castpool>>

-----------------------------------------------------------------------------
(***************************************************************************)
(* Re-LOADs of a Playing generation: reload_playing_media gates on the     *)
(* slot, its blocking thread checks alive, LOADs, and reads alive and      *)
(* late_stop_allowed one after the other once the LOAD is back; the task   *)
(* then accepts or discards what was loaded.                               *)
(***************************************************************************)
ReloadTo(g, pc) == reload' = [reload EXCEPT ![g] = pc]
ReloadOnly == UNCHANGED <<airplay, inbox, stopping, slot, generation, worker, sessions, teardown, loaded, reloads, speaker>>

GateReload(g) ==
  /\ slot = Playing(g) /\ reload[g] = "none" /\ reloads[g] < MaxReloads
  /\ g \in alive
  /\ ReloadTo(g, "gated")
  /\ reloads' = [reloads EXCEPT ![g] = @ + 1]
  /\ UNCHANGED <<airplay, inbox, stopping, slot, generation, worker, sessions, teardown, loaded, castpool>>

\* Published as the inflight LOAD; its thread checks alive a last time.
CheckReload(g) ==
  /\ reload[g] = "gated"
  /\ ReloadTo(g, IF g \in alive THEN "checked" ELSE "none")
  /\ ReloadOnly /\ UNCHANGED commands

SendReload(g) ==
  /\ reload[g] = "checked"
  /\ Send(Cmd("LOAD", "reload", g))
  /\ ReloadTo(g, "loading")
  /\ ReloadOnly

\* The thread reports its result; only a successful LOAD is accepted or discarded.
Reported(g) == IF g \in loaded THEN "accept" ELSE "none"

\* late_load_should_stop, first read: a session still alive keeps its media.
ReadAlive(g) ==
  /\ reload[g] = "landed"
  /\ ReloadTo(g, IF g \in alive THEN Reported(g) ELSE "dead")
  /\ ReloadOnly /\ UNCHANGED commands

\* (mutant) the late STOP asks about alive only.
MayLateStopAlways(g) == TRUE

\* Second read: a full end lets the late LOAD stop the speaker, a replace does not.
MayLateStop(g) == g \in lateStop
ReadLateStop(g) ==
  /\ reload[g] = "dead"
  /\ IF MayLateStop(g)
       THEN ReloadTo(g, "stop") /\ Send(Cmd("STOP", "reload", g))
       ELSE ReloadTo(g, Reported(g)) /\ UNCHANGED commands
  /\ ReloadOnly

\* accept_reload: keep the LOAD of the live generation; a discarded one is stopped where
\* the session is dead and may be stopped.
AcceptReload(g) ==
  /\ reload[g] = "accept"
  /\ ReloadTo(g, IF g \in alive \/ ~MayLateStop(g) THEN "none" ELSE "discard")
  /\ ReloadOnly /\ UNCHANGED commands

\* The discard's STOP goes out from a blocking thread nobody joins.
SendDiscard(g) ==
  /\ reload[g] = "discard"
  /\ Send(Cmd("STOP", "discard", g))
  /\ ReloadTo(g, "discarding")
  /\ ReloadOnly

-----------------------------------------------------------------------------
(***************************************************************************)
(* The Cast worker serves its queue.  Serving a command lets its caller    *)
(* go on, if that caller still waits.                                      *)
(***************************************************************************)
\* STOP acts on the tracked media session, whoever asked for it.
Stopped == /\ cast' = IF active # None /\ cast = active THEN None ELSE cast
           /\ active' = None

Reply(cmd, ok) ==
  /\ worker' = IF cmd.by # "start" \/ worker.gen # cmd.gen THEN worker
               ELSE CASE worker.pc = "loading" -> At(IF ok THEN "landed" ELSE "failed", cmd.gen)
                      [] worker.pc = "discard" -> Resting
                      [] OTHER -> worker
  /\ reload' = CASE cmd.by = "reload" /\ cmd.op = "LOAD" -> [reload EXCEPT ![cmd.gen] = "landed"]
                 [] cmd.by = "reload" /\ cmd.op = "STOP" -> [reload EXCEPT ![cmd.gen] = Reported(cmd.gen)]
                 [] cmd.by = "discard" -> [reload EXCEPT ![cmd.gen] = "none"]
                 [] OTHER -> reload
  /\ loaded' = IF cmd.by # "reload" \/ cmd.op # "LOAD" THEN loaded
                 ELSE IF ok THEN loaded \cup {cmd.gen} ELSE loaded \ {cmd.gen}
  /\ tear' = IF cmd.by = "teardown" THEN [tear EXCEPT ![cmd.gen] = "done"] ELSE tear

Serves(op) ==
  /\ commands # <<>> /\ Head(commands).op = op
  /\ commands' = Tail(commands)

\* The receiver plays the LOAD's media and the worker tracks it.
ServeLoad ==
  /\ Serves("LOAD")
  /\ cast' = Head(commands).gen /\ active' = Head(commands).gen
  /\ Reply(Head(commands), TRUE)
  /\ UNCHANGED <<airplay, inbox, stopping, slot, generation, sessions, policy, reloads>>

\* A failed LOAD may or may not have ended the media before it; what the worker tracks
\* stays, so a later STOP still finds it.
FailLoad ==
  /\ Serves("LOAD")
  /\ cast' \in {cast, None} /\ UNCHANGED active
  /\ Reply(Head(commands), FALSE)
  /\ UNCHANGED <<airplay, inbox, stopping, slot, generation, sessions, policy, reloads>>

ServeStop ==
  /\ Serves("STOP")
  /\ Stopped
  /\ Reply(Head(commands), TRUE)
  /\ UNCHANGED <<airplay, inbox, stopping, slot, generation, sessions, policy, reloads>>

-----------------------------------------------------------------------------
(***************************************************************************)
(* Ends that do not come through the worker, and shutdown.                 *)
(***************************************************************************)
\* The stall watchdog gives generation g up and tears it down on the detached set.
TerminalStallEnd(g) ==
  /\ OffWorkerEnds
  /\ ~stopping /\ TakeLiveSession(g)
  /\ BeginTeardown(g, "StopBestEffort")
  /\ UNCHANGED <<airplay, inbox, stopping, generation, worker, sessions, loads, castpool>>

\* Empty the slot: a live session is torn down, a start is cancelled.
EndSlot ==
  /\ slot' = Idle
  /\ IF slot.st = "Playing" THEN BeginTeardown(slot.gen, "StopBestEffort") ELSE UNCHANGED teardown

\* Another sender takes the receiver; the Cast worker stops tracking our session.
CastStolen ==
  /\ OffWorkerEnds
  /\ active # None
  /\ cast' = Other /\ active' = None
  /\ UNCHANGED <<airplay, inbox, stopping, slot, generation, worker, sessions, teardown, loads, commands>>

\* end_cast_session, from the ownership watch: the live session ends, a start is cancelled.
EndCastSession ==
  /\ OffWorkerEnds
  /\ cast = Other /\ slot # Idle /\ ~stopping
  /\ EndSlot
  /\ UNCHANGED <<airplay, inbox, stopping, generation, worker, sessions, loads, castpool>>

RequestShutdown ==
  /\ ~stopping
  /\ stopping' = TRUE
  /\ UNCHANGED <<airplay, inbox, slot, generation, worker, sessions, teardown, loads, castpool>>

\* Shutdown wins over queued events and abandons the start in flight: the guard
\* clears Starting, the unpublished media server drops.
WorkerExits ==
  /\ stopping
  /\ worker = Resting \/ worker.pc \in StartPcs
  /\ IF worker = Resting
       THEN UNCHANGED <<slot, media>>
       ELSE ClearStartingIf(worker.gen) /\ MediaShutdown(worker.gen)
  /\ worker' = At("exited", None)
  /\ UNCHANGED <<airplay, inbox, stopping, generation, ringOf, alive, lateStop, teardown, loads, castpool>>

\* end_all_sessions, once the worker is joined.
EndAllSessions ==
  /\ worker.pc = "exited" /\ slot # Idle
  /\ EndSlot
  /\ UNCHANGED <<airplay, inbox, stopping, generation, worker, sessions, loads, castpool>>

-----------------------------------------------------------------------------
Receiver == OpenStream \/ \E s \in Streams : PublishStarted(s) \/ CloseStream(s)
WorkerStep ==
  \/ SkipStaleStart \/ AcceptStart \/ AbandonStart \/ BeginLoad
  \/ StartLoadFailed \/ AfterLoad
  \/ InstallPlaying \/ DropEnded \/ HandleEnded \/ EndedTornDown \/ WorkerExits
TeardownStep(g) == MarkTeardown(g) \/ KillSession(g) \/ JoinAndEndMedia(g) \/ GiveUpStop(g)
ReloadStep(g) ==
  \/ CheckReload(g) \/ SendReload(g) \/ ReadAlive(g)
  \/ ReadLateStop(g) \/ AcceptReload(g) \/ SendDiscard(g)
CastStep == ServeLoad \/ FailLoad \/ ServeStop
Outside ==
  \/ CastStolen \/ EndCastSession \/ RequestShutdown \/ EndAllSessions
  \/ \E g \in Gens : TerminalStallEnd(g) \/ GateReload(g)

Next ==
  \/ Receiver \/ WorkerStep \/ CastStep \/ Outside
  \/ \E g \in Gens : TeardownStep(g) \/ ReloadStep(g)

Spec == Init /\ [][Next]_vars

(***************************************************************************)
(* Tokio keeps polling the worker and every spawned task, and every Cast   *)
(* call returns within its timeout.  The sender, thieves and the user owe  *)
(* nothing; a Started in the middle of audio_init is sent.                 *)
(***************************************************************************)
Fairness ==
  /\ WF_vars(WorkerStep) /\ WF_vars(CastStep) /\ WF_vars(EndAllSessions) /\ WF_vars(EndCastSession)
  /\ \A s \in Streams : WF_vars(PublishStarted(s))
  /\ \A g \in Gens : WF_vars(TeardownStep(g)) /\ WF_vars(ReloadStep(g))

FairSpec == Spec /\ Fairness
-----------------------------------------------------------------------------
(***************************************************************************)
(* Properties.                                                             *)
(***************************************************************************)
Queued  == {commands[i] : i \in 1..Len(commands)}
Torn(g) == tear[g] \in {"none", "done"}
Quiescent ==
  /\ worker.pc \in {"idle", "exited"} /\ (worker = Resting => inbox = <<>> /\ ~stopping)
  /\ (worker.pc = "exited" => slot = Idle)
  /\ \A g \in Gens : Torn(g) /\ reload[g] = "none"
  /\ commands = <<>>
  /\ \A s \in Streams : phase[s] # "opening"

\* A session has one holder: while the slot plays a generation, or the worker still
\* starts it, no teardown of it has begun.
OneHolder ==
  /\ slot.st = "Playing" => tear[slot.gen] = "none"
  /\ worker.pc \in StartPcs => tear[worker.gen] = "none"

\* A replaced session is never seen dead with its late STOP still allowed, whatever the
\* interleaving of its two stores with a re-LOAD thread's two reads (state.rs:93-101).
ReplacedNeverLateStops ==
  \A g \in Gens : tear[g] # "none" /\ policy[g] = "SkipStopForReplace"
                    => g \notin lateStop \/ g \in alive

\* A media server outlives neither its start nor its session nor that session's teardown.
NoMediaLeak ==
  \A g \in media :
    \/ worker.pc \in StartPcs /\ worker.gen = g
    \/ slot = Playing(g)
    \/ ~Torn(g)

\* Once everything has settled, a late LOAD has revived no ended session: dead media is
\* still on the speaker only where replace teardown skipped the STOP for a successor, and
\* that successor's start was given up.
NoRevivedMedia ==
  Quiescent /\ ~stopping /\ cast \in Gens =>
    slot = Playing(cast) \/ (tear[cast] = "done" /\ policy[cast] = "SkipStopForReplace")

\* What airplay/mod.rs:74 says of Ended: "Client disconnected; bridge should Cast-STOP
\* and drop media".  Once the last stream has closed and everything has settled, none of
\* our media is on the speaker.  (A replace whose new start is given up breaks it.)
EndedStopsCast ==
  Quiescent /\ ~stopping /\ opened > 0 /\ (\A s \in 1..opened : phase[s] = "closed")
    => cast \notin Gens

\* Once everything has settled, a Playing slot feeds the stream the receiver serves now,
\* and no start is left half done.
SettledOnCurrentStream ==
  Quiescent => /\ slot.st # "Starting"
               /\ slot.st = "Playing" => IsCurrent(ringOf[slot.gen])

\* No STOP that a teardown, a start or a joined LOAD thread sends for an old generation ends
\* a newer generation's media: the worker starts no LOAD before they are through.
StopSparesNewer ==
  [][\A g \in Gens :
       /\ commands # <<>> /\ commands' = Tail(commands)
       /\ Head(commands) \in [op : {"STOP"}, by : {"start", "teardown", "reload"}, gen : {g}]
       => active <= g]_vars

\* No STOP is ever sent for a session that replace teardown has marked.
ReplaceNeverStops ==
  \A c \in Queued : c.op = "STOP" /\ c.by # "start" => policy[c.gen] = "StopBestEffort"

\* When the last stream has closed, the session and every media server go down for good,
\* also where a start, a replace or a re-LOAD was in flight.
AllClosed == \A s \in Streams : phase[s] = "closed"
LastStreamEndsMedia == AllClosed ~> [](slot = Idle /\ media = {})

\* Shutdown ends the live session and every media server, whatever was in flight.
ShutdownEndsAll == stopping ~> [](slot = Idle /\ media = {} /\ worker.pc = "exited")
-----------------------------------------------------------------------------
(***************************************************************************)
(* The inductive invariant behind OneHolder, ReplacedNeverLateStops,       *)
(* NoMediaLeak and ReplaceNeverStops.                                      *)
(***************************************************************************)
Killed(g) == tear[g] \in {"join", "stop", "done"}

\* The slot, and the worker while it starts, hold the newest generation, untouched by any
\* teardown; what is not stamped yet has left no trace.
HolderInv ==
  /\ slot # Idle => slot.gen = generation
  /\ worker.pc \in StartPcs => /\ worker.gen = generation /\ tear[worker.gen] = "none"
                              /\ worker.gen \notin alive /\ slot.st # "Playing"
  /\ worker.pc \in {"prebuffer", "discard"} => worker.gen \notin media
  /\ slot.st = "Playing" => tear[slot.gen] = "none" /\ slot.gen \in alive
  /\ \A g \in Gens : g > generation => tear[g] = "none" /\ g \notin alive

\* How far a teardown got tells which of the session's flags are down.
TeardownInv ==
  \A g \in Gens :
    /\ tear[g] \in {"mark", "kill"} => g \in alive
    /\ tear[g] \in {"stop", "done"} => g \notin media
    /\ tear[g] \notin {"none", "mark"} /\ policy[g] = "SkipStopForReplace" => g \notin lateStop

\* A re-LOAD runs for a session that lives or was killed; one that stops the speaker runs
\* for a killed session that may be stopped.
ReloadInv ==
  \A g \in Gens :
    /\ reload[g] # "none" => g \in alive \/ Killed(g)
    /\ reload[g] = "dead" => Killed(g)
    /\ reload[g] = "discard" => Killed(g) /\ policy[g] = "StopBestEffort"

\* The same, of the commands on their way.
CommandInv ==
  \A c \in Queued :
    /\ c.by = "reload" => c.gen \in alive \/ Killed(c.gen)
    /\ c.by = "teardown" => tear[c.gen] \in {"stop", "done"}
    /\ c.op = "STOP" /\ c.by # "start" => Killed(c.gen) /\ policy[c.gen] = "StopBestEffort"

SessionInv == TypeOK /\ HolderInv /\ TeardownInv /\ ReloadInv /\ CommandInv /\ NoMediaLeak
=============================================================================
