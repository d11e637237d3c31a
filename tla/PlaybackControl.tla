---------------------------- MODULE PlaybackControl ----------------------------
(***************************************************************************)
(* Pause, resume and flush of one playing session (bridge/playback.rs),    *)
(* the re-LOADs they owe (bridge/load.rs), the stall watchdog              *)
(* (bridge/stall.rs) and the rollover loop, over one Cast worker.          *)
(*                                                                         *)
(* The handlers only change the slot and spawn tasks; the tasks re-check   *)
(* the slot and command the speaker while later events are handled.  The   *)
(* session stays alive and its generation current (SessionLifecycle has    *)
(* the rest), and its egress is WAV.                                       *)
(***************************************************************************)
EXTENDS Naturals, Sequences

CONSTANTS
  MaxTasks,      \* bound: session tasks alive at once
  MaxCallbacks,  \* bound: rate changes and flushes of the sender
  MaxLongs,      \* bound: pauses that last past LONG_PAUSE_RELOAD
  MaxStalls,     \* bound: times the speaker stops pulling by itself
  MaxRolls,      \* bound: rollovers
  MaxFails,      \* bound: Cast commands that fail
  MaxTicks,      \* bound: stall re-LOADs of the watchdog
  MaxTotal       \* bound: callbacks, long pauses, stalls, rollovers and failures together

ASSUME BoundsAssumption ==
  /\ MaxTasks \in Nat \ {0} /\ MaxCallbacks \in Nat
  /\ MaxLongs \in Nat /\ MaxStalls \in Nat /\ MaxRolls \in Nat /\ MaxFails \in Nat
  /\ MaxTicks \in Nat /\ MaxTotal \in Nat

VARIABLES
  castPaused,  \* the receiver's latch: a Paused was sent, no Resumed since
  events,      \* events on their way to the bridge
  callbacks,   \* sender callbacks so far
  cleared,     \* flushes that cleared the PCM ring
  paused,      \* session.paused and its mirror playback_paused
  long,        \* paused_at is LONG_PAUSE_RELOAD ago
  longs,
  flushRequested, flushDone,
  stallOwed,   \* stall_reload_owed
  stallRecent, \* last_stall_reload_at is within STALL_REPEAT_WINDOW
  ticks,
  ended,       \* the watchdog ended the session
  transport,   \* holder of transport_flight
  flight,      \* holder of reload_flight
  task,        \* task[t]: a session task
  queue,       \* the Cast worker's commands
  media,       \* what the speaker holds: loaded after .cover flushes, .old from before a long
               \* pause, .dead if nobody pulls its body any more
  stalls, rolls, fails

receiver == <<castPaused, events, callbacks, cleared>>
pausing  == <<paused, long, longs>>
owed     == <<flushRequested, flushDone, stallOwed>>
watchdog == <<stallRecent, ticks, ended>>
locks    == <<transport, flight>>
speaker  == <<queue, media, stalls, rolls, fails>>
vars == <<receiver, pausing, owed, watchdog, locks, task, speaker>>

Within == callbacks + longs + stalls + rolls + fails < MaxTotal

Tasks    == 1..MaxTasks
Watchdog == MaxTasks + 1
Rollover == MaxTasks + 2
Everyone == 1..(MaxTasks + 2)
Nobody   == 0

NoTask == [kind |-> "none", pc |-> "off", request |-> 0, covers |-> 0, ok |-> FALSE]
NewTask(kind, pc, request) == [NoTask EXCEPT !.kind = kind, !.pc = pc, !.request = request]
NoMedia == [state |-> "none", cover |-> 0, old |-> FALSE, dead |-> FALSE]
LoadedNow == [state |-> "playing", cover |-> cleared, old |-> FALSE, dead |-> FALSE]

Kinds == {"none", "pause", "play", "reload", "stall", "roll"}
Steps == {"off", "lock", "check", "command", "acking", "flight", "lead", "publish", "spawned", "load",
          "loading", "loaded", "stop", "stopping", "accept", "discard", "owe"}
Task  == [kind : Kinds, pc : Steps, request : Nat, covers : Nat, ok : BOOLEAN]
Media == [state : {"none", "playing", "paused"}, cover : Nat, old : BOOLEAN, dead : BOOLEAN]

ReceiverType ==
  /\ castPaused \in BOOLEAN /\ events \in Seq({"Paused", "Resumed", "Flushed"})
  /\ callbacks \in 0..MaxCallbacks /\ cleared \in Nat
PausingType == paused \in BOOLEAN /\ long \in BOOLEAN /\ longs \in 0..MaxLongs
OwedType == flushRequested \in Nat /\ flushDone \in Nat /\ stallOwed \in BOOLEAN
WatchdogType == stallRecent \in BOOLEAN /\ ticks \in 0..MaxTicks /\ ended \in BOOLEAN
LocksType == transport \in {Nobody} \cup Everyone /\ flight \in {Nobody} \cup Everyone
SpeakerType ==
  /\ queue \in Seq([op : {"LOAD", "PAUSE", "PLAY", "STOP"}, by : Everyone]) /\ media \in Media
  /\ stalls \in 0..MaxStalls /\ rolls \in 0..MaxRolls /\ fails \in 0..MaxFails
TypeOK ==
  /\ ReceiverType /\ PausingType /\ OwedType /\ WatchdogType /\ LocksType
  /\ task \in [Everyone -> Task]
  /\ SpeakerType

\* The session has just been installed: what the sender did during its start's LOAD waits
\* behind the start in the device worker.
Init ==
  /\ events \in {<<>>, <<"Paused">>, <<"Flushed", "Paused">>}
  /\ castPaused = (events # <<>>) /\ callbacks = Len(events) /\ callbacks <= MaxCallbacks
  /\ cleared = IF Len(events) = 2 THEN 1 ELSE 0
  /\ paused = FALSE /\ long = FALSE /\ longs = 0
  /\ flushRequested = 0 /\ flushDone = 0 /\ stallOwed = FALSE
  /\ stallRecent = FALSE /\ ticks = 0 /\ ended = FALSE
  /\ transport = Nobody /\ flight = Nobody
  /\ task = [t \in Everyone |-> NoTask]
  /\ queue = <<>> /\ media = LoadedNow
  /\ stalls = 0 /\ rolls = 0 /\ fails = 0

-----------------------------------------------------------------------------
(***************************************************************************)
(* The receiver's callbacks and the event channel (airplay/mod.rs).        *)
(***************************************************************************)
Callback == callbacks < MaxCallbacks /\ Within /\ callbacks' = callbacks + 1

\* on_rate(0): one Paused per pause.
RateZero ==
  /\ Callback /\ ~castPaused
  /\ castPaused' = TRUE /\ events' = Append(events, "Paused")
  /\ UNCHANGED <<cleared, pausing, owed, watchdog, locks, task, speaker>>

\* on_rate(n) or the first PCM after a pause or flush.
PlayoutResumes ==
  /\ Callback /\ castPaused
  /\ castPaused' = FALSE /\ events' = Append(events, "Resumed")
  /\ UNCHANGED <<cleared, pausing, owed, watchdog, locks, task, speaker>>

\* emit_flush_and_pause.
Flush ==
  /\ Callback
  /\ cleared' = cleared + 1 /\ castPaused' = TRUE
  /\ events' = events \o (IF castPaused THEN <<"Flushed">> ELSE <<"Flushed", "Paused">>)
  /\ UNCHANGED <<pausing, owed, watchdog, locks, task, speaker>>

-----------------------------------------------------------------------------
(***************************************************************************)
(* The event handlers, each under the slot lock.                           *)
(***************************************************************************)
Free == {t \in Tasks : task[t].kind = "none"}

\* Session tasks are interchangeable: a new one takes the lowest free name.
Spawned(new) ==
  LET t == CHOOSE x \in Free : \A y \in Free : x <= y IN [task EXCEPT ![t] = new]

Event(e) == events # <<>> /\ Head(events) = e /\ events' = Tail(events)

HandlePause ==
  /\ Event("Paused")
  /\ IF paused THEN UNCHANGED <<paused, long, task>>
     ELSE /\ Free # {}
          /\ paused' = TRUE /\ long' = FALSE
          /\ task' = Spawned(NewTask("pause", "lock", 0))
  /\ UNCHANGED <<castPaused, callbacks, cleared, longs, owed, watchdog, locks, speaker>>

FlushReloadOwed == flushDone < flushRequested

ResumeDecision ==
  IF FlushReloadOwed \/ stallOwed \/ (paused /\ long) THEN "reload"
  ELSE IF paused THEN "play" ELSE "none"

HandleResume ==
  /\ Event("Resumed")
  /\ paused' = FALSE /\ long' = FALSE
  /\ CASE ResumeDecision = "none"   -> UNCHANGED task
       [] ResumeDecision = "play"   -> Free # {} /\ task' = Spawned(NewTask("play", "lock", 0))
       [] ResumeDecision = "reload" ->
            /\ Free # {}
            /\ task' = Spawned(NewTask("reload", "check", IF FlushReloadOwed THEN flushRequested ELSE 0))
  /\ UNCHANGED <<castPaused, callbacks, cleared, longs, owed, watchdog, locks, speaker>>

BodyEnds == media' = IF media.state = "none" THEN media ELSE [media EXCEPT !.dead = TRUE]

HandleFlush ==
  /\ Event("Flushed")
  /\ flushRequested' = flushRequested + 1 /\ BodyEnds
  /\ UNCHANGED <<castPaused, callbacks, cleared, pausing, flushDone, stallOwed, watchdog, locks, task,
                 queue, stalls, rolls, fails>>

-----------------------------------------------------------------------------
(***************************************************************************)
(* PAUSE and PLAY, in order under transport_flight.                        *)
(***************************************************************************)
At(t, pc) == ~ended /\ task[t].pc = pc
Goto(t, pc) == task' = [task EXCEPT ![t].pc = pc]
Finish(t) == task' = [task EXCEPT ![t] = NoTask]
Send(t, op) == queue' = Append(queue, [op |-> op, by |-> t])

TakeTransport(t) ==
  /\ At(t, "lock") /\ transport = Nobody
  /\ transport' = t /\ Goto(t, "check")
  /\ UNCHANGED <<receiver, pausing, owed, watchdog, flight, speaker>>

Wanted(t) == IF task[t].kind = "pause" THEN paused ELSE ~paused

\* (mutant) the command is sent without asking the slot again.
AlwaysWanted(t) == TRUE

StillWanted(t) == Wanted(t)

CheckTransport(t) ==
  /\ At(t, "check") /\ task[t].kind \in {"pause", "play"}
  /\ IF StillWanted(t) THEN Goto(t, "command") /\ UNCHANGED transport
                       ELSE Finish(t) /\ transport' = Nobody
  /\ UNCHANGED <<receiver, pausing, owed, watchdog, flight, speaker>>

CommandTransport(t) ==
  /\ At(t, "command")
  /\ Send(t, IF task[t].kind = "pause" THEN "PAUSE" ELSE "PLAY")
  /\ Goto(t, "acking")
  /\ UNCHANGED <<receiver, pausing, owed, watchdog, locks, media, stalls, rolls, fails>>

\* A failed PLAY falls back to a re-LOAD task.
TransportDone(t, ok) ==
  /\ transport' = Nobody
  /\ task' = [task EXCEPT ![t] = IF ok \/ task[t].kind = "pause" THEN NoTask ELSE NewTask("reload", "check", 0)]

-----------------------------------------------------------------------------
(***************************************************************************)
(* reload_playing_media, run by a re-LOAD task or by the watchdog.         *)
(***************************************************************************)
Leave(t) == flight' = IF flight = t THEN Nobody ELSE flight

\* What the caller does with the outcome: a re-LOAD task drops it.
Loaded(t) == Leave(t) /\ Finish(t) /\ UNCHANGED ended
Paused(t) ==
  /\ Leave(t) /\ UNCHANGED ended
  /\ IF task[t].kind = "stall" THEN Goto(t, "owe") ELSE Finish(t)
Failed(t) ==
  /\ Leave(t) /\ Finish(t)
  /\ ended' = IF task[t].kind = "stall" THEN TRUE ELSE ended

Reloading(t, pc) == At(t, pc) /\ task[t].kind \in {"reload", "stall"}

BeginReload(t) ==
  /\ Reloading(t, "check")
  /\ IF paused THEN Paused(t) ELSE Goto(t, "flight") /\ UNCHANGED <<flight, ended>>
  /\ UNCHANGED <<receiver, pausing, owed, stallRecent, ticks, transport, speaker>>

AlreadySatisfied(t) == task[t].request > 0 /\ flushDone >= task[t].request

\* The gate after the flight lock and again after the start lead is queued.
ReloadGate(t, next) ==
  IF paused THEN Paused(t)
  ELSE IF AlreadySatisfied(t) THEN Loaded(t)
  ELSE /\ flight' = t /\ UNCHANGED ended
       /\ task' = [task EXCEPT ![t].pc = next, ![t].covers = flushRequested]

TakeFlight(t) ==
  /\ Reloading(t, "flight") /\ flight = Nobody
  /\ ReloadGate(t, "lead")
  /\ UNCHANGED <<receiver, pausing, owed, stallRecent, ticks, transport, speaker>>

LeadQueued(t) ==
  /\ Reloading(t, "lead")
  /\ ReloadGate(t, "publish")
  /\ UNCHANGED <<receiver, pausing, owed, stallRecent, ticks, transport, speaker>>

\* Under the inflight_load lock, and again on the blocking thread right before the LOAD.
PublishLoad(t) ==
  /\ Reloading(t, "publish") \/ Reloading(t, "spawned")
  /\ IF paused THEN Paused(t)
     ELSE Goto(t, IF task[t].pc = "publish" THEN "spawned" ELSE "load") /\ UNCHANGED <<flight, ended>>
  /\ UNCHANGED <<receiver, pausing, owed, stallRecent, ticks, transport, speaker>>

SendLoad(t) ==
  /\ At(t, "load")
  /\ Send(t, "LOAD") /\ Goto(t, "loading")
  /\ UNCHANGED <<receiver, pausing, owed, watchdog, locks, media, stalls, rolls, fails>>

\* A LOAD a pause overtook is stopped again.
LoadReturns(t) ==
  /\ Reloading(t, "loaded")
  /\ \/ paused /\ Goto(t, "stop") /\ UNCHANGED <<flight, ended>>
     \/ ~paused /\ task[t].ok /\ Goto(t, "accept") /\ UNCHANGED <<flight, ended>>
     \/ ~paused /\ ~task[t].ok /\ Failed(t)
  /\ UNCHANGED <<receiver, pausing, owed, stallRecent, ticks, transport, speaker>>

SendStop(t) ==
  /\ At(t, "stop")
  /\ Send(t, "STOP") /\ Goto(t, "stopping")
  /\ UNCHANGED <<receiver, pausing, owed, watchdog, locks, media, stalls, rolls, fails>>

\* (mutant) what the LOAD covers is read when it is accepted.
CoversLate(t) == flushRequested

Covers(t) == task[t].covers

Larger(a, b) == IF a > b THEN a ELSE b

AcceptReload(t) ==
  /\ Reloading(t, "accept")
  /\ IF paused
       THEN Goto(t, "discard") /\ UNCHANGED <<owed, flight, ended>>
       ELSE /\ flushDone' = Larger(flushDone, Covers(t)) /\ stallOwed' = FALSE
            /\ Loaded(t) /\ UNCHANGED flushRequested
  /\ UNCHANGED <<receiver, pausing, stallRecent, ticks, transport, speaker>>

\* The pause is read once more: only a session that still is paused is stopped.
Discard(t) ==
  /\ Reloading(t, "discard")
  /\ IF paused THEN Goto(t, "stop") /\ UNCHANGED <<flight, ended>> ELSE Paused(t)
  /\ UNCHANGED <<receiver, pausing, owed, stallRecent, ticks, transport, speaker>>

-----------------------------------------------------------------------------
(***************************************************************************)
(* The stall watchdog and the rollover loop.                               *)
(***************************************************************************)
\* (mutant) a paused speaker is not stale.
PausedIsFresh == media.state = "none" \/ (media.state = "playing" /\ media.dead)

BodyStale == media.state # "playing" \/ media.dead

Tick ==
  /\ ~ended /\ task[Watchdog].kind = "none" /\ flight = Nobody
  /\ ~paused /\ BodyStale
  /\ IF stallRecent
       THEN ended' = TRUE /\ UNCHANGED <<stallRecent, ticks, task>>
       ELSE /\ ticks < MaxTicks /\ ticks' = ticks + 1
            /\ stallRecent' = TRUE /\ UNCHANGED ended
            /\ task' = [task EXCEPT ![Watchdog] = NewTask("stall", "check", 0)]
  /\ UNCHANGED <<receiver, pausing, owed, locks, speaker>>

\* (mutant) the re-LOAD a pause abandoned is forgotten where the pause is over.
OweWhilePaused ==
  /\ At(Watchdog, "owe") /\ Finish(Watchdog)
  /\ stallOwed' = TRUE
  /\ UNCHANGED <<receiver, pausing, flushRequested, flushDone, watchdog, locks, speaker>>

\* owe_stall_reload: owed to the next resume, or due now if that was before.
OweStallReload ==
  /\ At(Watchdog, "owe")
  /\ stallOwed' = TRUE
  /\ IF paused THEN Finish(Watchdog)
     ELSE Free # {} /\ task' = [Spawned(NewTask("reload", "check", 0)) EXCEPT ![Watchdog] = NoTask]
  /\ UNCHANGED <<receiver, pausing, flushRequested, flushDone, watchdog, locks, speaker>>

StallWindowElapses ==
  /\ stallRecent /\ ticks < MaxTicks /\ stallRecent' = FALSE
  /\ UNCHANGED <<receiver, pausing, owed, ticks, ended, locks, task, speaker>>

\* The WAV body reached its Content-Length; the loop asks only whether the session lives.
RolloverDue ==
  /\ ~ended /\ rolls < MaxRolls /\ Within /\ task[Rollover].kind = "none"
  /\ media.state = "playing" /\ ~media.dead
  /\ rolls' = rolls + 1 /\ BodyEnds
  /\ task' = [task EXCEPT ![Rollover] = NewTask("roll", "flight", 0)]
  /\ UNCHANGED <<receiver, pausing, owed, watchdog, locks, queue, stalls, fails>>

\* (mutant) the loop does not share reload_flight.
LoadsAnyway == TRUE

MayLoad == flight = Nobody

RolloverTakesFlight ==
  /\ At(Rollover, "flight") /\ MayLoad
  /\ flight' = Rollover /\ Goto(Rollover, "load")
  /\ UNCHANGED <<receiver, pausing, owed, watchdog, transport, speaker>>

RolloverDone ==
  /\ At(Rollover, "loaded")
  /\ flight' = Nobody /\ Finish(Rollover)
  /\ UNCHANGED <<receiver, pausing, owed, watchdog, transport, speaker>>

-----------------------------------------------------------------------------
(***************************************************************************)
(* The Cast worker serves one command after the other.                     *)
(***************************************************************************)
Serve(op) == ~ended /\ queue # <<>> /\ Head(queue).op = op /\ queue' = Tail(queue)
Issuer == Head(queue).by
MayFail(ok) == IF ok THEN UNCHANGED fails ELSE fails < MaxFails /\ Within /\ fails' = fails + 1

ServeLoad ==
  /\ Serve("LOAD")
  /\ \E ok \in BOOLEAN :
       /\ MayFail(ok)
       /\ media' \in (IF ok THEN {LoadedNow} ELSE {media, NoMedia})
       /\ task' = [task EXCEPT ![Issuer].pc = "loaded", ![Issuer].ok = ok]
  /\ UNCHANGED <<receiver, pausing, owed, watchdog, locks, stalls, rolls>>

ServeStop ==
  /\ Serve("STOP")
  /\ media' = NoMedia
  /\ LET t == Issuer IN
       /\ IF task[t].kind = "stall" THEN Goto(t, "owe") ELSE Finish(t)
       /\ Leave(t)
  /\ UNCHANGED <<receiver, pausing, owed, watchdog, transport, stalls, rolls, fails>>

\* No media session: an error at once.
ServeTransport(op, from, to) ==
  /\ Serve(op)
  /\ IF media.state = "none"
       THEN TransportDone(Issuer, FALSE) /\ UNCHANGED <<media, fails>>
       ELSE \E ok \in BOOLEAN :
              /\ MayFail(ok) /\ TransportDone(Issuer, ok)
              /\ media' = IF ok /\ media.state = from THEN [media EXCEPT !.state = to] ELSE media
  /\ UNCHANGED <<receiver, pausing, owed, watchdog, flight, stalls, rolls>>

ServePause == ServeTransport("PAUSE", "playing", "paused")
ServePlay  == ServeTransport("PLAY", "paused", "playing")

-----------------------------------------------------------------------------
\* Nothing is on its way: no event, no task, no command.
Quiet == ~ended /\ events = <<>> /\ queue = <<>> /\ \A t \in Everyone : task[t].kind = "none"

\* Thirty seconds outlast every command and every wait of a task.
LongPauseElapses ==
  /\ Quiet
  /\ paused /\ ~long /\ longs < MaxLongs /\ Within
  /\ long' = TRUE /\ longs' = longs + 1
  /\ media' = IF media.state = "none" THEN media ELSE [media EXCEPT !.old = TRUE]
  /\ UNCHANGED <<receiver, paused, owed, watchdog, locks, task, queue, stalls, rolls, fails>>

SpeakerStalls ==
  /\ media.state = "playing" /\ ~media.dead /\ stalls < MaxStalls /\ Within
  /\ stalls' = stalls + 1 /\ BodyEnds
  /\ UNCHANGED <<receiver, pausing, owed, watchdog, locks, task, queue, rolls, fails>>

Transport(t) == TakeTransport(t) \/ CheckTransport(t) \/ CommandTransport(t)
Reload(t) == BeginReload(t) \/ TakeFlight(t) \/ LeadQueued(t) \/ PublishLoad(t) \/ LoadReturns(t)
               \/ AcceptReload(t) \/ Discard(t)
Commands(t) == SendLoad(t) \/ SendStop(t)
Handle == HandlePause \/ HandleResume \/ HandleFlush
RolloverStep == RolloverTakesFlight \/ RolloverDone
CastStep == ServeLoad \/ ServeStop \/ ServePause \/ ServePlay
Sender == RateZero \/ PlayoutResumes \/ Flush
Environment == StallWindowElapses \/ LongPauseElapses \/ SpeakerStalls \/ RolloverDue

Next ==
  \/ Sender \/ Handle \/ Tick \/ OweStallReload \/ RolloverStep \/ CastStep \/ Environment
  \/ \E t \in Everyone : Transport(t) \/ Reload(t) \/ Commands(t)

Spec == Init /\ [][Next]_vars

(***************************************************************************)
(* Tasks run, the Cast worker answers every command (its hard deadline),   *)
(* the device worker handles its events, and the watchdog keeps ticking.   *)
(***************************************************************************)
FairSpec ==
  /\ Spec
  /\ WF_vars(Handle) /\ WF_vars(CastStep) /\ WF_vars(Tick) /\ WF_vars(OweStallReload)
  /\ WF_vars(RolloverStep)
  /\ \A t \in Everyone : WF_vars(Transport(t) \/ Reload(t) \/ Commands(t))

-----------------------------------------------------------------------------
(***************************************************************************)
(* Properties                                                              *)
(***************************************************************************)
\* A flush counts as done only if the speaker's media was loaded after it: a re-LOAD that a
\* flush overtook leaves that flush owed (flush_reload_done).
FlushDoneIsCovered == media.state # "none" => flushDone <= media.cover

\* re-LOADs, the watchdog's and the rollover loop's share one flight: the LOAD that teardown
\* joins (inflight_load) is the only one.
OneLoadAtATime ==
  \A t, u \in Everyone :
    task[t].pc \in {"spawned", "load", "loading", "loaded"} /\
    task[u].pc \in {"spawned", "load", "loading", "loaded"} => t = u

\* Once all has come to rest, a session that plays owes nothing: every flush and every stall
\* re-LOAD a pause abandoned was made good, unless a command failed.
NothingLeftOwed == Quiet /\ ~paused /\ fails = 0 => ~FlushReloadOwed /\ ~stallOwed

\* Once all has come to rest, a paused session is silent, unless a command failed or the
\* body rolled over.
PausedIsSilent == Quiet /\ paused /\ fails = 0 /\ rolls = 0 => media.state # "playing"

\* If the sender ends up playing, the speaker ends up playing what it sends, or the watchdog
\* ends the session: no order of pauses, flushes, failures and re-LOADs is silent for ever.
HeardOrEnded ==
  <>[](~castPaused) => <>[](ended \/ (media.state = "playing" /\ ~media.dead /\ media.cover = cleared))

\* Does not hold (README, section 6): media that outlived a long pause is loaded anew, as
\* LONG_PAUSE_RELOAD says.
NoStalePlay ==
  [][media.old /\ media.state = "paused" /\ media'.state = "playing" => ~media'.old]_vars

\* Does not hold (README, section 6): a pause aborts every re-LOAD in flight, the rollover
\* loop's too, as playback_paused says.
PausedStaysSilent == Quiet /\ paused /\ fails = 0 => media.state # "playing"
=============================================================================
