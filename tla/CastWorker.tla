------------------------------ MODULE CastWorker ------------------------------
(***************************************************************************)
(* One warm Cast worker thread (cast/pool.rs), the callers that command it *)
(* over its channel, and the speaker at the other end of the connection.   *)
(*                                                                         *)
(* A caller of load() waits six seconds, then stores `abandoned` and drops *)
(* its reply channel, three steps the worker may read between.  The worker *)
(* meanwhile decides from probes whether the speaker still is ours.        *)
(***************************************************************************)
EXTENDS Naturals, Sequences

CONSTANTS
  MaxCalls,   \* bound: load() calls in one behaviour
  MaxMedia,   \* bound: media sessions the speaker creates
  MaxEnds,    \* bound: full session ends the bridge starts
  MaxThefts,  \* bound: times another sender takes the receiver
  MaxBreaks,  \* bound: times an established connection dies
  MaxMoves    \* bound: times discovery reports a new endpoint

ASSUME BoundsAssumption ==
  /\ MaxCalls \in Nat \ {0} /\ MaxMedia \in Nat \ {0}
  /\ MaxEnds \in Nat /\ MaxThefts \in Nat /\ MaxBreaks \in Nat /\ MaxMoves \in Nat

OwnershipLossConfirmations == 2
BufferingStuckProbes       == 3

Calls   == 1..MaxCalls
Self    == 0                  \* the worker's own recovery re-LOAD
Medias  == 1..MaxMedia
None    == 0
Other   == MaxMedia + 1       \* another sender's media

VARIABLES
  queue,      \* the worker's command channel
  call,       \* call[c]: where the caller of load() is
  replied,    \* replied[c]: what the worker put into c's reply channel
  pc,         \* where the worker is
  cur,        \* the load() call it serves, or Self
  fresh,      \* media session its LOAD created, not yet committed
  result,     \* what its LOAD came to
  active,     \* media session the worker tracks
  settled,    \* OWNERSHIP_GRACE has passed since active was set
  guard,      \* the last LOAD is within RECENT_LOAD_GUARD
  lossStreak, bufferingStreak,
  reloadAttempted,
  standDown,  \* ownership_stand_down, set by the bridge
  ending,     \* session_ended() ran and its STOP is still to be sent
  ends,       \* full ends started
  moves,      \* endpoint updates sent
  link,       \* the connection: none, live, or dead and not noticed yet
  terminal,   \* latched terminal failure: no more reconnects
  breaks,     \* connections broken so far
  cast,       \* what the speaker plays: a media session, None or Other
  player,     \* its player state
  made,       \* media sessions created so far
  loadOf,     \* loadOf[m]: call whose LOAD created m
  thefts,     \* thefts so far
  looks,      \* history: unhealthy looks since the last healthy one (at most 2)
  tries,      \* history: failed recoveries since then (at most 2)
  stopped     \* history: the last command served was a STOP

callers  == <<call, replied>>
serving  == <<cur, fresh, result>>
streaks  == <<lossStreak, bufferingStreak, reloadAttempted>>
tracking == <<active, settled, streaks>>
bridge   == <<ending, ends, moves>>
net      == <<link, terminal, breaks>>
speaker  == <<cast, player, made, loadOf, thefts>>
looking  == <<looks, tries>>
history  == <<looking, stopped>>
vars == <<queue, callers, pc, serving, tracking, guard, standDown, bridge, net, speaker, history>>

LoadCmd(c) == [op |-> "LOAD", call |-> c]
StopCmd    == [op |-> "STOP", call |-> Self]
MoveCmd    == [op |-> "MOVE", call |-> Self]
Command    == {LoadCmd(c) : c \in Calls} \cup {StopCmd, MoveCmd}

WorkerPcs == {"idle", "wire", "failed", "again", "rewire", "commit", "installed", "deliver",
              "reply", "probing"}

ChannelType ==
  /\ queue \in Seq(Command)
  /\ call \in [Calls -> {"unsent", "waiting", "expired", "abandoned", "answered", "gone"}]
  /\ replied \in [Calls -> {"no", "ok", "err"}]
ServingType ==
  /\ pc \in WorkerPcs /\ cur \in Calls \cup {Self}
  /\ fresh \in Medias \cup {None} /\ result \in {"ok", "err"}
TrackingType ==
  /\ active \in Medias \cup {None} /\ settled \in BOOLEAN
  /\ lossStreak \in 0..(OwnershipLossConfirmations - 1)
  /\ bufferingStreak \in 0..BufferingStuckProbes /\ reloadAttempted \in BOOLEAN
BridgeType ==
  /\ guard \in BOOLEAN /\ standDown \in BOOLEAN
  /\ ending \in BOOLEAN /\ ends \in 0..MaxEnds /\ moves \in 0..MaxMoves
NetType == link \in {"none", "live", "dead"} /\ terminal \in BOOLEAN /\ breaks \in 0..MaxBreaks
SpeakerType ==
  /\ cast \in Medias \cup {None, Other} /\ player \in {"playing", "buffering", "idle"}
  /\ made \in 0..MaxMedia /\ loadOf \in [Medias -> Calls \cup {Self}] /\ thefts \in 0..MaxThefts
HistoryType == looks \in 0..2 /\ tries \in 0..2 /\ stopped \in BOOLEAN

TypeOK ==
  /\ ChannelType /\ ServingType /\ TrackingType /\ BridgeType /\ NetType /\ SpeakerType
  /\ HistoryType

Init ==
  /\ queue = <<>>
  /\ call = [c \in Calls |-> "unsent"] /\ replied = [c \in Calls |-> "no"]
  /\ pc = "idle" /\ cur = Self /\ fresh = None /\ result = "err"
  /\ active = None /\ settled = FALSE /\ guard = FALSE
  /\ lossStreak = 0 /\ bufferingStreak = 0 /\ reloadAttempted = FALSE
  /\ standDown = FALSE /\ ending = FALSE /\ ends = 0 /\ moves = 0
  /\ link \in {"none", "live"} /\ terminal = FALSE /\ breaks = 0
  /\ cast = None /\ player = "playing" /\ made = 0 /\ loadOf = [m \in Medias |-> Self]
  /\ thefts = 0 /\ looks = 0 /\ tries = 0 /\ stopped = FALSE

-----------------------------------------------------------------------------
(***************************************************************************)
(* Callers.  load() and a full end (session_ended, then a STOP) come from  *)
(* different bridge threads.                                               *)
(***************************************************************************)
\* Calls are numbered in the order they are issued.
IssueLoad(c) ==
  /\ call[c] = "unsent" /\ \A d \in 1..(c - 1) : call[d] # "unsent"
  /\ call' = [call EXCEPT ![c] = "waiting"]
  /\ queue' = Append(queue, LoadCmd(c))
  /\ UNCHANGED <<replied, pc, serving, tracking, guard, standDown, bridge, net, speaker, history>>

ReceiveReply(c) ==
  /\ call[c] = "waiting" /\ replied[c] # "no"
  /\ call' = [call EXCEPT ![c] = "answered"]
  /\ UNCHANGED <<queue, replied, pc, serving, tracking, guard, standDown, bridge, net, speaker, history>>

\* recv_timeout gives up, `abandoned` is stored, the reply channel is dropped.
GiveUp(c) ==
  /\ \/ call[c] = "waiting" /\ replied[c] = "no" /\ call' = [call EXCEPT ![c] = "expired"]
     \/ call[c] = "expired" /\ call' = [call EXCEPT ![c] = "abandoned"]
     \/ call[c] = "abandoned" /\ call' = [call EXCEPT ![c] = "gone"]
  /\ UNCHANGED <<queue, replied, pc, serving, tracking, guard, standDown, bridge, net, speaker, history>>

\* session_ended: the flag is set at once, past the worker's channel.
SessionEnded ==
  /\ ends < MaxEnds /\ ~ending
  /\ standDown' = TRUE /\ ending' = TRUE /\ ends' = ends + 1
  /\ UNCHANGED <<queue, moves, callers, pc, serving, tracking, guard, net, speaker, history>>

SendStop ==
  /\ ending /\ ending' = FALSE
  /\ queue' = Append(queue, StopCmd)
  /\ UNCHANGED <<callers, pc, serving, tracking, guard, standDown, ends, moves, net, speaker, history>>

\* Discovery sees the speaker at another address.
EndpointMoves ==
  /\ moves < MaxMoves /\ moves' = moves + 1
  /\ queue' = Append(queue, MoveCmd)
  /\ UNCHANGED <<callers, pc, serving, tracking, guard, standDown, ending, ends, net, speaker, history>>

-----------------------------------------------------------------------------
(***************************************************************************)
(* The worker's tracked session.                                           *)
(***************************************************************************)
Abandoned(c) == c # Self /\ call[c] \in {"abandoned", "gone"}

ClearActive ==
  /\ active' = None /\ settled' = FALSE
  /\ lossStreak' = 0 /\ bufferingStreak' = 0 /\ reloadAttempted' = FALSE

SetActive(m) ==
  /\ active' = m /\ settled' = FALSE
  /\ lossStreak' = 0 /\ bufferingStreak' = 0 /\ reloadAttempted' = FALSE
  /\ standDown' = FALSE

\* handle_stop of session m: tracking is cleared first; only a live connection carries the
\* STOP, a dead one fails it and may be dropped.
StopMedia(m) ==
  /\ ClearActive
  /\ cast' = IF m # None /\ cast = m /\ link = "live" THEN None ELSE cast
  /\ link' \in IF link = "dead" /\ m # None THEN {"dead", "none"} ELSE {link}
  /\ UNCHANGED <<terminal, breaks, player, made, loadOf, thefts>>

\* ensure_connected(force): connected already, or one attempt that may fail, for good even.
Connect ==
  IF terminal THEN link' = "none" /\ UNCHANGED terminal
  ELSE \/ link' = "live" /\ UNCHANGED terminal
       \/ link' = "none" /\ terminal' \in BOOLEAN

-----------------------------------------------------------------------------
(***************************************************************************)
(* LOAD: handle_load and the worker loop around it.                        *)
(***************************************************************************)
TakeLoad ==
  /\ pc = "idle" /\ queue # <<>> /\ Head(queue).op = "LOAD"
  /\ queue' = Tail(queue)
  /\ pc' = "wire" /\ cur' = Head(queue).call
  /\ guard' = TRUE /\ stopped' = FALSE
  /\ UNCHANGED <<callers, fresh, result, tracking, standDown, bridge, net, speaker, looking>>

\* load_once.  A failure may come after the speaker took the LOAD; that media is untracked.
LoadOnce ==
  /\ pc \in {"wire", "rewire"}
  /\ \/ /\ link = "live" /\ made < MaxMedia
        /\ made' = made + 1 /\ loadOf' = [loadOf EXCEPT ![made + 1] = cur]
        /\ cast' = made + 1 /\ player' = "playing"
        /\ \/ fresh' = made + 1 /\ pc' = "commit" /\ UNCHANGED result
           \/ UNCHANGED fresh /\ pc' = (IF pc = "wire" THEN "failed" ELSE "deliver") /\ result' = "err"
     \/ /\ pc' = (IF pc = "wire" THEN "failed" ELSE "deliver")
        /\ result' = "err" /\ UNCHANGED <<fresh, cast, player, made, loadOf>>
  /\ UNCHANGED <<queue, callers, cur, tracking, guard, standDown, bridge, net, thefts, history>>

\* The first attempt failed: unless the caller is gone, drop the connection and reconnect once.
Reconnect ==
  /\ pc = "failed"
  /\ IF Abandoned(cur)
       THEN pc' = "deliver" /\ UNCHANGED <<link, terminal>>
       ELSE Connect /\ pc' = IF link' = "live" THEN "again" ELSE "deliver"
  /\ UNCHANGED <<queue, callers, serving, tracking, guard, standDown, bridge, breaks, speaker, history>>

RetryLoad ==
  /\ pc = "again"
  /\ pc' = IF Abandoned(cur) THEN "deliver" ELSE "rewire"
  /\ UNCHANGED <<queue, callers, serving, tracking, guard, standDown, bridge, net, speaker, history>>

\* commit_load_session: install the session, or stop it where the caller has given up.
Commit ==
  /\ pc = "commit"
  /\ IF Abandoned(cur)
       THEN /\ StopMedia(fresh) /\ pc' = "deliver" /\ result' = "err"
            /\ UNCHANGED <<standDown, looking>>
       ELSE /\ SetActive(fresh) /\ pc' = "installed" /\ looks' = 0 /\ tries' = 0
            /\ UNCHANGED <<result, net, speaker>>
  /\ fresh' = None
  /\ UNCHANGED <<queue, callers, cur, guard, bridge, stopped>>

\* Read again after the install: the caller may have given up in between.
Recheck ==
  /\ pc = "installed"
  /\ IF Abandoned(cur)
       THEN StopMedia(active) /\ result' = "err"
       ELSE result' = "ok" /\ UNCHANGED <<tracking, net, speaker>>
  /\ pc' = "deliver"
  /\ UNCHANGED <<queue, callers, cur, fresh, guard, standDown, bridge, history>>

\* Back in the worker loop: a last read before the reply is sent.
Deliver ==
  /\ pc = "deliver" /\ cur # Self
  /\ IF Abandoned(cur)
       THEN /\ result' = "err"
            /\ IF active # None THEN StopMedia(active) ELSE UNCHANGED <<tracking, net, speaker>>
       ELSE UNCHANGED <<result, tracking, net, speaker>>
  /\ pc' = "reply"
  /\ UNCHANGED <<queue, callers, cur, fresh, guard, standDown, bridge, history>>

\* (mutant) a reply nobody takes leaves what is tracked alone.
KeepUnreceived == UNCHANGED <<tracking, net, speaker>>

\* No one left to receive it: stop whatever is tracked.
StopUnreceived == IF active # None THEN StopMedia(active) ELSE UNCHANGED <<tracking, net, speaker>>

SendReply ==
  /\ pc = "reply"
  /\ IF call[cur] = "gone"
       THEN StopUnreceived /\ UNCHANGED replied
       ELSE replied' = [replied EXCEPT ![cur] = result] /\ UNCHANGED <<tracking, net, speaker>>
  /\ pc' = "idle"
  /\ UNCHANGED <<queue, call, serving, guard, standDown, bridge, history>>

\* (mutant) a STOP that cannot be sent leaves the session tracked.
ServeStopIfLive ==
  /\ pc = "idle" /\ queue # <<>> /\ Head(queue) = StopCmd
  /\ queue' = Tail(queue)
  /\ IF link = "live" THEN StopMedia(active) ELSE UNCHANGED <<tracking, net, speaker>>
  /\ stopped' = TRUE
  /\ UNCHANGED <<callers, pc, serving, guard, standDown, bridge, looking>>

\* STOP and STOP best-effort clear the tracked session either way.
ServeStop ==
  /\ pc = "idle" /\ queue # <<>> /\ Head(queue) = StopCmd
  /\ queue' = Tail(queue)
  /\ StopMedia(active)
  /\ stopped' = TRUE
  /\ UNCHANGED <<callers, pc, serving, guard, standDown, bridge, looking>>

\* UpdateEndpoint: drop_device forgets the session without a STOP, then one reconnect.
ServeMove ==
  /\ pc = "idle" /\ queue # <<>> /\ Head(queue) = MoveCmd
  /\ queue' = Tail(queue)
  /\ ClearActive /\ Connect
  /\ UNCHANGED <<callers, pc, serving, guard, standDown, bridge, breaks, speaker, history>>

-----------------------------------------------------------------------------
(***************************************************************************)
(* Idle tick: reconnect, PING, ownership probe.  Commands go first.        *)
(***************************************************************************)
IdleTick == pc = "idle" /\ queue = <<>>

\* (mutants) a healthy look leaves the streak; missing media is healthy.
KeepStreak           == UNCHANGED <<lossStreak, reloadAttempted>>
InterruptOnly(seen)  == seen = "interrupted"

LossConfirmed(streak) == streak >= OwnershipLossConfirmations

\* declare_ownership_lost clears the session (and tells the app).
Declare == ClearActive

\* note_lost_signal, and the count a failed reconnect after a PING adds.
NoteLost(tried, buffered) ==
  IF LossConfirmed(lossStreak + 1)
    THEN Declare
    ELSE /\ lossStreak' = lossStreak + 1 /\ reloadAttempted' = tried /\ bufferingStreak' = buffered
         /\ UNCHANGED <<active, settled>>

Add(n) == IF n < 2 THEN n + 1 ELSE n
Healthy   == looks' = 0 /\ tries' = 0
Unhealthy == looks' = Add(looks) /\ UNCHANGED tries

ReconnectTick ==
  /\ IdleTick /\ link = "none" /\ ~terminal
  /\ Connect
  /\ UNCHANGED <<queue, callers, pc, serving, tracking, guard, standDown, bridge, breaks, speaker, history>>

\* A failed PING drops the connection and reconnects once; only if that fails too does it
\* count towards a loss, whether or not the bridge has ended the session.  The probe of the
\* same tick may stand down and reset the count.
PingFails ==
  /\ IdleTick /\ link = "dead"
  /\ Connect
  /\ IF link' = "live" \/ active = None
       THEN UNCHANGED <<tracking, looking>>
       ELSE /\ Unhealthy
            /\ \/ NoteLost(reloadAttempted, bufferingStreak)
               \/ /\ standDown /\ ~LossConfirmed(lossStreak + 1)
                  /\ lossStreak' = 0 /\ bufferingStreak' = 0
                  /\ UNCHANGED <<active, settled, reloadAttempted>>
  /\ UNCHANGED <<queue, callers, pc, serving, guard, standDown, bridge, breaks, speaker, stopped>>

ProbeStandsDown == active = None \/ standDown

ProbeSkipped ==
  /\ IdleTick /\ link # "none" /\ ProbeStandsDown
  /\ lossStreak' = 0 /\ bufferingStreak' = 0
  /\ UNCHANGED <<queue, callers, pc, serving, active, settled, reloadAttempted, guard, standDown, bridge, net, speaker, history>>

\* The flag is read, then two status queries go over the wire.
BeginProbe ==
  /\ IdleTick /\ link # "none" /\ ~ProbeStandsDown /\ settled
  /\ pc' = "probing"
  /\ UNCHANGED <<queue, callers, serving, tracking, guard, standDown, bridge, net, speaker, history>>

\* What the media query may report of our session.
Sightings ==
  IF link # "live" THEN {"transport"}
  ELSE {"parse"} \cup (IF cast = active THEN {player} ELSE IF cast = Other THEN {"absent", "interrupted"} ELSE {"absent"})

Buffering(seen) ==
  IF seen # "buffering" THEN 0
  ELSE IF bufferingStreak < BufferingStuckProbes THEN bufferingStreak + 1 ELSE bufferingStreak

LossSeen(seen) == seen \in {"absent", "interrupted"}

RecoverableOrLost ==
  IF guard THEN "Inconclusive" ELSE IF reloadAttempted THEN "LostSignal" ELSE "AttemptReload"

OwnershipAction(seen) ==
  IF LossSeen(seen) THEN "LostSignal"
  ELSE CASE seen = "parse"     -> "Inconclusive"
         [] seen = "transport" -> "SuspectReconnect"
         [] seen = "idle" \/ (seen = "buffering" /\ Buffering(seen) >= BufferingStuckProbes) -> RecoverableOrLost
         [] OTHER              -> "Owned"

OwnedResets == lossStreak' = 0 /\ reloadAttempted' = FALSE

Owned(seen) ==
  /\ OwnershipAction(seen) = "Owned"
  /\ OwnedResets /\ bufferingStreak' = Buffering(seen)
  /\ Healthy
  /\ pc' = "idle"
  /\ UNCHANGED <<active, settled, cur, guard, link, terminal>>

Inconclusive(seen) ==
  /\ OwnershipAction(seen) = "Inconclusive"
  /\ bufferingStreak' = Buffering(seen)
  /\ pc' = "idle"
  /\ UNCHANGED <<active, settled, lossStreak, reloadAttempted, cur, guard, looking, link, terminal>>

SuspectReconnect(seen) ==
  /\ OwnershipAction(seen) = "SuspectReconnect"
  /\ bufferingStreak' = 0
  /\ Connect
  /\ pc' = "idle"
  /\ UNCHANGED <<active, settled, lossStreak, reloadAttempted, cur, guard, looking>>

LostSignal(seen) ==
  /\ OwnershipAction(seen) = "LostSignal"
  /\ Unhealthy
  /\ NoteLost(reloadAttempted, Buffering(seen))
  /\ pc' = "idle"
  /\ UNCHANGED <<cur, guard, link, terminal>>

\* try_internal_reload: handle_load of the last request, with a caller that never gives up.
AttemptReload(seen) ==
  /\ OwnershipAction(seen) = "AttemptReload"
  /\ bufferingStreak' = Buffering(seen)
  /\ pc' = "wire" /\ cur' = Self /\ guard' = TRUE
  /\ UNCHANGED <<active, settled, lossStreak, reloadAttempted, looking, link, terminal>>

Probe ==
  /\ pc = "probing"
  /\ \E seen \in Sightings :
       Owned(seen) \/ Inconclusive(seen) \/ SuspectReconnect(seen) \/ LostSignal(seen) \/ AttemptReload(seen)
  /\ UNCHANGED <<queue, callers, fresh, result, standDown, bridge, breaks, speaker, stopped>>

\* reload_attempted_after_internal_reload: only a failure uses the episode's attempt up.
TriedAfter(ok) == ~ok

Recovered ==
  /\ pc = "deliver" /\ cur = Self
  /\ IF result = "ok"
       THEN /\ lossStreak' = 0 /\ bufferingStreak' = 0 /\ reloadAttempted' = TriedAfter(TRUE)
            /\ UNCHANGED <<active, settled, looking>>
       ELSE /\ looks' = Add(looks) /\ tries' = Add(tries)
            /\ NoteLost(TriedAfter(FALSE), bufferingStreak)
  /\ pc' = "idle"
  /\ UNCHANGED <<queue, callers, serving, guard, standDown, bridge, net, speaker, stopped>>

-----------------------------------------------------------------------------
(***************************************************************************)
(* Clocks, the network and the speaker.                                    *)
(***************************************************************************)
GraceElapses == active # None /\ ~settled /\ settled' = TRUE
  /\ UNCHANGED <<queue, callers, pc, serving, active, streaks, guard, standDown, bridge, net, speaker, history>>

GuardElapses == guard /\ guard' = FALSE
  /\ UNCHANGED <<queue, callers, pc, serving, tracking, standDown, bridge, net, speaker, history>>

\* It dies unnoticed, or the hard deadline of an operation drops it as that returns.
LinkBreaks ==
  /\ link = "live" /\ breaks < MaxBreaks
  /\ link' \in (IF pc \in {"idle", "deliver", "reply"} THEN {"dead", "none"} ELSE {"dead"})
  /\ breaks' = breaks + 1
  /\ UNCHANGED <<queue, callers, pc, serving, tracking, guard, standDown, bridge, terminal, speaker, history>>

Stolen ==
  /\ thefts < MaxThefts /\ cast # Other
  /\ cast' = Other /\ thefts' = thefts + 1
  /\ UNCHANGED <<queue, callers, pc, serving, tracking, guard, standDown, bridge, net, player, made, loadOf, history>>

\* Our media stalls, goes idle on an error, or recovers.
PlayerChanges ==
  /\ cast \in Medias
  /\ player' \in {"playing", "buffering", "idle"} \ {player}
  /\ UNCHANGED <<queue, callers, pc, serving, tracking, guard, standDown, bridge, net, cast, made, loadOf, thefts, history>>

-----------------------------------------------------------------------------
Load == TakeLoad \/ LoadOnce \/ Reconnect \/ RetryLoad \/ Commit \/ Recheck \/ Deliver \/ SendReply
Tick == ReconnectTick \/ PingFails \/ ProbeSkipped \/ BeginProbe
WorkerStep == Load \/ ServeStop \/ ServeMove \/ Tick \/ Probe \/ Recovered
CallerStep(c) == ReceiveReply(c) \/ GiveUp(c)
Environment == GraceElapses \/ GuardElapses \/ LinkBreaks \/ Stolen \/ PlayerChanges

Next ==
  \/ WorkerStep \/ Environment \/ SessionEnded \/ SendStop \/ EndpointMoves
  \/ \E c \in Calls : IssueLoad(c) \/ CallerStep(c)

Spec == Init /\ [][Next]_vars

(***************************************************************************)
(* The worker thread runs; its clock advances; status answers that the     *)
(* library cannot parse do not go on for ever.                             *)
(***************************************************************************)
LossCounted == Probe /\ lossStreak' # lossStreak

FairSpec ==
  /\ Spec
  /\ WF_vars(WorkerStep) /\ WF_vars(GraceElapses)
  /\ SF_vars(LossCounted)

-----------------------------------------------------------------------------
(***************************************************************************)
(* Properties                                                              *)
(***************************************************************************)
\* Between operations the worker tracks a media session only if it answered the load() that
\* created it with success, or created it itself: a caller that got no answer leaves nothing
\* behind (commit_load_session and the reads of `abandoned` after it).
TrackedIsAnswered ==
  pc = "idle" /\ active # None =>
    loadOf[active] = Self \/ replied[loadOf[active]] = "ok"

\* Once a STOP was served and until the next LOAD is taken, the worker tracks nothing: no
\* probe, recovery or late reply brings a session back.
StopIsFinal == stopped => active = None

\* A trouble episode gets one failed internal re-LOAD; the next trouble counts as a loss
\* (reload_attempted).
OneFailedRecovery == tries <= 1

Declared ==
  /\ active # None /\ active' = None /\ queue' = queue
  /\ pc \in {"idle", "probing"} \/ (pc = "deliver" /\ cur = Self)

\* Another app is said to have taken the receiver only after two unhealthy looks with no
\* healthy one and no new LOAD in between (OWNERSHIP_LOSS_CONFIRMATIONS).
LossNeedsTwoLooks == [][Declared => looks' = 2]_vars

\* A speaker another sender took while the worker tracked media of ours is noticed: the
\* session is given up, unless it ends, is replaced or the connection is lost before.
StealNoticed ==
  (active # None /\ cast = Other) ~>
    (active = None \/ cast # Other \/ standDown \/ link # "live")

\* Does not hold (README, section 6): until the next LOAD no loss is declared, as
\* session_ended says.
NotDeclaredAfterEnd == [][~(standDown /\ Declared)]_vars
=============================================================================
