----------------------------- MODULE RemoteControl -----------------------------
(***************************************************************************)
(* Volume and play/pause in both directions: the sender's slider and rate  *)
(* to the Cast speaker (bridge/volume.rs, bridge/playback.rs, cast/pool.rs)*)
(* and a touch of the speaker back to the sender (RemoteTracker in         *)
(* cast/pool.rs, bridge/remote.rs).                                        *)
(*                                                                         *)
(* One session plays; it stays alive and current (SessionLifecycle has the *)
(* rest).  A resume that re-LOADs counts as PLAY: both command playing.    *)
(* A volume is a level and a mute flag; a group member's own level, scaled *)
(* to keep the balance, is the target it was scaled to.                    *)
(***************************************************************************)
EXTENDS Integers, Sequences

CONSTANTS
  Levels,      \* levels of slider and speaker
  Members,     \* members of a Google Home speaker group
  Nothing,     \* no level, no volume
  MaxInputs,   \* bound: slides, rate changes and touches of the speaker
  MaxLates,    \* bound: callers that stop waiting for a command
  MaxFails     \* bound: Cast commands, reads and messages that fail

ASSUME BoundsAssumption ==
  /\ Levels # {} /\ Nothing \notin Levels /\ Nothing \notin {"playing", "paused"}
  /\ MaxInputs \in Nat /\ MaxLates \in Nat /\ MaxFails \in Nat

VARIABLES
  kind,       \* "speaker" or "group": the device's model is CAST_GROUP_MODEL
  hosted,     \* the group's own endpoint hosts the media session
  slider,     \* the volume the sender shows
  playing,    \* the sender's rate is not 0
  castPaused, \* the receiver's latch: a Paused was sent, no Resumed since
  told,       \* commands on their way to the sender
  events,     \* events on their way to the device worker
  waits,      \* the device worker awaits a set_volume
  paused,     \* session.paused and its mirror playback_paused
  last,       \* last_volume_linear
  tasks,      \* tasks[op]: session tasks that have not got transport_flight
  transport,  \* op of the task that holds it, or "free"
  queue,      \* the Cast worker's commands
  serving,    \* the command it serves, or NoCmd
  intent, playerSettling,                 \* RemoteTracker
  base, volumeSettling, commanded,
  player, volume,  \* what the speaker does
  air,        \* its statuses not looked at; old if sent up to the reply of our last command
  drained,    \* the newest of each kind a probe's replies brought with them
  remote,     \* remote events on their way to the bridge
  target,     \* GroupVolume: the newest level not applied yet
  apply,      \* where the apply task is
  applying,   \* the level it applies
  cached,     \* the members read within MEMBER_CACHE_TTL
  awaited,    \* members whose set_volume it awaits
  member,     \* the members' levels
  memberQueue,  \* levels their workers have still to set
  inputs, lates, fails,
  owedTurn, owedTap,  \* history: a touch the sender must hear of
  credit,     \* history: touches minus commands told, per command
  turned,     \* history: levels chosen on the speaker
  muteTouched,  \* history: its mute was touched
  lost        \* history: a fault since the last slide

sender   == <<slider, playing, castPaused, told, events>>
session  == <<paused, last, waits>>
transit  == <<tasks, transport, queue, serving>>
tracker  == <<intent, playerSettling, base, volumeSettling, commanded>>
device   == <<player, volume, air, drained>>
group    == <<target, apply, applying, cached, awaited, member, memberQueue>>
bounds   == <<inputs, lates, fails>>
history  == <<owedTurn, owedTap, credit, turned, muteTouched, lost>>
vars == <<kind, hosted, sender, session, transit, tracker, device, remote, group, bounds, history>>

Volumes == [level : Levels, muted : BOOLEAN]
Ops     == {"PAUSE", "PLAY"}
NoCmd   == [op |-> "none", level |-> Nothing, wanted |-> FALSE]
Cmd     == [op : {"SET"}, level : Levels, wanted : BOOLEAN]
           \cup [op : Ops, level : {Nothing}, wanted : BOOLEAN]
Change  == [of : {"volume"}, is : Volumes] \cup [of : {"player"}, is : {"playing", "paused"}]
Status  == [of : {"volume"}, is : Volumes, old : BOOLEAN]
           \cup [of : {"player"}, is : {"playing", "paused"}, old : BOOLEAN]
Event   == [op : {"Volume"}, level : Levels] \cup [op : {"Paused", "Resumed"}, level : {Nothing}]
Nowhere == [volume |-> Nothing, player |-> Nothing]

Players == {"playing", "paused"}

SenderType ==
  /\ slider \in Volumes /\ playing \in BOOLEAN /\ castPaused \in BOOLEAN
  /\ told \in Seq(Change) /\ events \in Seq(Event)
SessionType == waits \in BOOLEAN /\ paused \in BOOLEAN /\ last \in Levels
TransitType ==
  /\ tasks \in [Ops -> Nat] /\ transport \in Ops \cup {"free"}
  /\ queue \in Seq(Cmd) /\ serving \in Cmd \cup {NoCmd}
TrackerType ==
  /\ intent \in Players /\ playerSettling \in BOOLEAN
  /\ base \in Volumes /\ volumeSettling \in BOOLEAN /\ commanded \in Seq(Levels)
DeviceType ==
  /\ player \in Players /\ volume \in Volumes /\ air \in Seq(Status)
  /\ drained.volume \in Volumes \cup {Nothing} /\ drained.player \in Players \cup {Nothing}
GroupType ==
  /\ target \in Levels \cup {Nothing} /\ apply \in {"off", "next", "read", "set", "wait"}
  /\ applying \in Levels \cup {Nothing} /\ (apply \in {"read", "set"} => applying # Nothing)
  /\ cached \in BOOLEAN /\ awaited \subseteq Members
  /\ member \in [Members -> Levels] /\ memberQueue \in [Members -> Seq(Levels)]
BoundsType == inputs \in 0..MaxInputs /\ lates \in 0..MaxLates /\ fails \in 0..MaxFails
HistoryType ==
  /\ owedTurn \in Volumes \cup {Nothing} /\ owedTap \in Players \cup {Nothing}
  /\ credit \in [Players -> Int] /\ turned \subseteq Levels
  /\ muteTouched \in BOOLEAN /\ lost \in BOOLEAN
TypeOK ==
  /\ kind \in {"speaker", "group"} /\ hosted \in BOOLEAN
  /\ SenderType /\ SessionType /\ TransitType /\ TrackerType /\ DeviceType
  /\ remote \in Seq(Change)
  /\ GroupType /\ BoundsType /\ HistoryType

Init ==
  /\ kind \in {"speaker", "group"} /\ hosted \in BOOLEAN
  /\ kind = "speaker" => hosted
  /\ LET l == CHOOSE l \in Levels : TRUE IN   \* no level differs from another
       /\ slider = [level |-> l, muted |-> FALSE] /\ volume = slider /\ base = slider /\ last = l
       /\ member = [m \in Members |-> l]
  /\ playing = TRUE /\ castPaused = FALSE /\ told = <<>> /\ events = <<>>
  /\ waits = FALSE /\ paused = FALSE
  /\ tasks = [op \in Ops |-> 0] /\ transport = "free" /\ queue = <<>> /\ serving = NoCmd
  /\ intent = "playing" /\ playerSettling = FALSE /\ volumeSettling = FALSE /\ commanded = <<>>
  /\ player = "playing" /\ air = <<>> /\ drained = Nowhere /\ remote = <<>>
  /\ target = Nothing /\ apply = "off" /\ applying = Nothing
  /\ cached = FALSE /\ awaited = {}
  /\ memberQueue = [m \in Members |-> <<>>]
  /\ inputs = 0 /\ lates = 0 /\ fails = 0
  /\ owedTurn = Nothing /\ owedTap = Nothing
  /\ credit = [p \in {"playing", "paused"} |-> 0] /\ turned = {} /\ muteTouched = FALSE /\ lost = FALSE

Fault == fails < MaxFails /\ fails' = fails + 1

Has(seq, op) == \E i \in 1..Len(seq) : seq[i].op = op
Waiting(op)  == Has(queue, op) \/ serving.op = op

-----------------------------------------------------------------------------
(***************************************************************************)
(* The sender, and the AirPlay receiver that turns what it does into       *)
(* events (RingSession).                                                   *)
(***************************************************************************)
SetRate(on) ==
  /\ playing' = on
  /\ IF on = castPaused
     THEN /\ castPaused' = ~on
          /\ events' = Append(events, [op |-> IF on THEN "Resumed" ELSE "Paused",
                                       level |-> Nothing])
     ELSE UNCHANGED <<castPaused, events>>

Press ==
  /\ inputs < MaxInputs /\ inputs' = inputs + 1
  /\ SetRate(~playing)
  /\ owedTap' = Nothing
  /\ UNCHANGED <<kind, hosted, slider, told, session, transit, tracker, device, remote, group,
                 lates, fails, owedTurn, credit, turned, muteTouched, lost>>

Slide(l) ==
  /\ inputs < MaxInputs /\ inputs' = inputs + 1
  /\ l # slider.level
  /\ slider' = [slider EXCEPT !.level = l]
  /\ events' = Append(events, [op |-> "Volume", level |-> l])
  /\ owedTurn' = Nothing /\ lost' = FALSE
  /\ UNCHANGED <<kind, hosted, playing, castPaused, told, session, transit, tracker, device,
                 remote, group, lates, fails, owedTap, credit, turned, muteTouched>>

\* The sender obeys.  It may send a level it was told back as a volume of its own.
Obey ==
  /\ told # <<>>
  /\ told' = Tail(told)
  /\ \/ /\ Head(told).of = "player"
        /\ SetRate(Head(told).is = "playing")
        /\ UNCHANGED <<slider, owedTurn>>
     \/ /\ Head(told).of = "volume"
        /\ slider' = Head(told).is
        /\ \/ UNCHANGED <<events, owedTurn>>
           \/ /\ ~Head(told).is.muted
              /\ events' = Append(events, [op |-> "Volume", level |-> Head(told).is.level])
              /\ owedTurn' = Nothing
        /\ UNCHANGED <<playing, castPaused>>
  /\ UNCHANGED <<kind, hosted, session, transit, tracker, device, remote, group, bounds,
                 owedTap, credit, turned, muteTouched, lost>>

-----------------------------------------------------------------------------
(***************************************************************************)
(* The device worker takes the sender's events in order; the event after a *)
(* volume waits for its set_volume.                                        *)
(***************************************************************************)
VolumeRoute == IF kind = "group" /\ ~hosted THEN "members" ELSE "own"

\* (mutant) a running task is trusted to take the target later, and the target is not stored
QueueDropsWhileRunning(l) ==
  /\ target' = IF apply = "off" THEN l ELSE target
  /\ apply' = IF apply = "off" THEN "next" ELSE apply
  /\ UNCHANGED <<applying, cached, awaited, member, memberQueue>>

\* The newest target replaces one not applied yet; an idle group starts its task.
QueueGroupVolume(l) ==
  /\ target' = l
  /\ apply' = IF apply = "off" THEN "next" ELSE apply
  /\ UNCHANGED <<applying, cached, awaited, member, memberQueue>>

HandleVolume ==
  /\ Head(events).op = "Volume"
  /\ last' = Head(events).level
  /\ IF VolumeRoute = "own"
     THEN /\ waits' = TRUE
          /\ queue' = Append(queue, [op |-> "SET", level |-> Head(events).level, wanted |-> TRUE])
          /\ UNCHANGED group
     ELSE QueueGroupVolume(Head(events).level) /\ UNCHANGED <<waits, queue>>
  /\ UNCHANGED <<paused, tasks, transport, serving>>

HandlePause ==
  /\ Head(events).op = "Paused"
  /\ paused' = TRUE
  /\ tasks' = IF paused THEN tasks ELSE [tasks EXCEPT !["PAUSE"] = @ + 1]
  /\ UNCHANGED <<waits, last, transport, queue, serving, group>>

HandleResume ==
  /\ Head(events).op = "Resumed"
  /\ paused' = FALSE
  /\ tasks' = IF paused THEN [tasks EXCEPT !["PLAY"] = @ + 1] ELSE tasks
  /\ UNCHANGED <<waits, last, transport, queue, serving, group>>

TakeEvent ==
  /\ events # <<>> /\ ~waits
  /\ HandleVolume \/ HandlePause \/ HandleResume
  /\ events' = Tail(events)
  /\ UNCHANGED <<kind, hosted, slider, playing, castPaused, told, tracker, device, remote, bounds,
                 history>>

\* VOLUME_TIMEOUT: the worker still has the command.
VolumeTimesOut ==
  /\ waits /\ lates < MaxLates /\ lates' = lates + 1
  /\ waits' = FALSE
  /\ queue' = [i \in DOMAIN queue |-> IF queue[i].op = "SET" THEN [queue[i] EXCEPT !.wanted = FALSE]
                                      ELSE queue[i]]
  /\ serving' = IF serving.op = "SET" THEN [serving EXCEPT !.wanted = FALSE] ELSE serving
  /\ UNCHANGED <<kind, hosted, sender, paused, last, tasks, transport, tracker, device, remote,
                 group, inputs, fails, history>>

\* A pause or play task gets transport_flight; it does nothing if the session changed its mind.
Command(op) ==
  /\ tasks[op] > 0 /\ transport = "free"
  /\ tasks' = [tasks EXCEPT ![op] = @ - 1]
  /\ IF paused = (op = "PAUSE")
     THEN /\ transport' = op
          /\ queue' = Append(queue, [op |-> op, level |-> Nothing, wanted |-> TRUE])
     ELSE UNCHANGED <<transport, queue>>
  /\ UNCHANGED <<kind, hosted, sender, session, serving, tracker, device, remote, group, bounds,
                 history>>

-----------------------------------------------------------------------------
(***************************************************************************)
(* The Cast worker.  It serves a command in two steps, what it notes       *)
(* before the wire and what comes of it; it looks at statuses when idle.   *)
(***************************************************************************)
\* Queued SET_VOLUMEs in a row are one command with the last level.
Run(q) == CHOOSE n \in 1..Len(q) :
            /\ \A i \in 1..n : q[i].op = "SET"
            /\ n < Len(q) => q[n + 1].op # "SET"

\* (mutant) only the first caller of the row is answered
AnswersFirst(n) == queue[1].wanted

Answers(n) == \E i \in 1..n : queue[i].wanted

Serve ==
  /\ serving = NoCmd /\ queue # <<>>
  /\ \/ /\ Head(queue).op = "SET"
        /\ LET n == Run(queue) IN
             /\ serving' = [op |-> "SET", level |-> queue[n].level,
                            wanted |-> Answers(n)]
             /\ queue' = SubSeq(queue, n + 1, Len(queue))
        /\ volumeSettling' = TRUE
        /\ commanded' = Append(commanded, serving'.level)
        /\ UNCHANGED <<intent, playerSettling>>
     \/ /\ Head(queue).op \in Ops
        /\ serving' = Head(queue) /\ queue' = Tail(queue)
        /\ intent' = IF Head(queue).op = "PAUSE" THEN "paused" ELSE "playing"
        /\ playerSettling' = TRUE
        /\ UNCHANGED <<volumeSettling, commanded>>
  /\ UNCHANGED <<kind, hosted, sender, session, tasks, transport, base, device, remote, group,
                 bounds, history>>

\* The newest of each kind among the first n statuses.
Newest(statuses, of, old) ==
  LET at == {i \in DOMAIN statuses : statuses[i].of = of} IN
    IF at = {} THEN old ELSE statuses[CHOOSE i \in at : \A j \in at : j <= i].is
Arrived(n) == [volume |-> Newest(SubSeq(air, 1, n), "volume", drained.volume),
               player |-> Newest(SubSeq(air, 1, n), "player", drained.player)]

\* OWN_COMMAND_SETTLE outlasts what was sent up to the reply of our command.
Aged(is, of) == [i \in 1..(Len(air) + 1) |->
                   IF i <= Len(air) THEN [air[i] EXCEPT !.old = TRUE]
                   ELSE [of |-> of, is |-> is, old |-> TRUE]]

\* The caller still waiting gets its reply.
Reply ==
  /\ waits' = (waits /\ ~(serving.op = "SET" /\ serving.wanted))
  /\ transport' = IF serving.op \in Ops THEN "free" ELSE transport
  /\ serving' = NoCmd

SetVolumeDone ==
  /\ serving.op = "SET"
  /\ volume' = [volume EXCEPT !.level = serving.level]
  /\ base' = volume'
  /\ air' = Aged(volume', "volume")
  /\ Reply
  /\ UNCHANGED <<kind, hosted, sender, paused, last, tasks, queue, intent, playerSettling,
                 volumeSettling, commanded, player, drained, remote, group, bounds, history>>

TransportDone ==
  /\ serving.op \in Ops
  /\ player' = IF serving.op = "PAUSE" THEN "paused" ELSE "playing"
  /\ air' = Aged(player', "player")
  /\ Reply
  /\ UNCHANGED <<kind, hosted, sender, paused, last, tasks, queue, tracker, volume, drained, remote,
                 group, bounds, history>>

\* A command fails, having reached the speaker or not; a connection replaced loses what it still
\* carried.  A failed PLAY becomes a re-LOAD.
CommandFails ==
  /\ serving # NoCmd /\ Fault
  /\ \/ UNCHANGED <<player, volume>>
     \/ serving.op = "SET" /\ volume' = [volume EXCEPT !.level = serving.level] /\ UNCHANGED player
     \/ serving.op \in Ops /\ UNCHANGED volume
        /\ player' = IF serving.op = "PAUSE" THEN "paused" ELSE "playing"
  /\ tasks' = IF serving.op = "PLAY" THEN [tasks EXCEPT !["PLAY"] = @ + 1] ELSE tasks
  /\ \/ air' = <<>> /\ drained' = Nowhere
     \/ /\ serving.op \in Ops
        /\ air' = [i \in DOMAIN air |-> [air[i] EXCEPT !.old = TRUE]]
        /\ UNCHANGED drained
  /\ Reply
  /\ owedTurn' = Nothing /\ owedTap' = Nothing /\ lost' = TRUE
  /\ credit' = [p \in DOMAIN credit |->
                  IF p # intent /\ serving.op \in Ops THEN credit[p] + 1 ELSE credit[p]]
  /\ UNCHANGED <<kind, hosted, sender, paused, last, queue, tracker, remote, group, inputs,
                 lates, turned, muteTouched>>

\* (mutant) no settle window: a status sent before our command counts against it
UserPlayerAtOnce(p) == p # Nothing /\ p # intent

\* RemoteTracker: our own commands explain a player state within OWN_COMMAND_SETTLE or equal to
\* the last intent, and a level commanded within VOLUME_ECHO_WINDOW while the mute flag stays.
UserPlayer(p) == p # Nothing /\ ~playerSettling /\ p # intent

IsEcho(level) == \E i \in DOMAIN commanded : commanded[i] = level

Seen(v) == v # Nothing /\ ~volumeSettling

\* (mutant) what differs from the baseline is the user's, whoever set it
UserVolumeAnyLevel(v) == Seen(v) /\ v # base

UserVolume(v) == Seen(v) /\ v # base /\ (v.muted # base.muted \/ ~IsEcho(v.level))

Report(of, is, if) == IF if THEN <<[of |-> of, is |-> is]>> ELSE <<>>

\* (mutant) a player state within the settle window is kept as the intent though not reported
ObserveAsIntent(p, v) ==
  /\ intent' = IF p # Nothing THEN p ELSE intent
  /\ base' = IF Seen(v) THEN v ELSE base
  /\ remote' = remote \o Report("player", p, UserPlayer(p)) \o Report("volume", v, UserVolume(v))
  /\ UNCHANGED <<playerSettling, volumeSettling, commanded>>

\* (mutant) a volume within the settle window is kept as the baseline though not reported
ObserveAsBase(p, v) ==
  /\ intent' = IF UserPlayer(p) THEN p ELSE intent
  /\ base' = IF v # Nothing THEN v ELSE base
  /\ remote' = remote \o Report("player", p, UserPlayer(p)) \o Report("volume", v, UserVolume(v))
  /\ UNCHANGED <<playerSettling, volumeSettling, commanded>>

Observe(p, v) ==
  /\ intent' = IF UserPlayer(p) THEN p ELSE intent
  /\ base' = IF Seen(v) THEN v ELSE base
  /\ remote' = remote \o Report("player", p, UserPlayer(p)) \o Report("volume", v, UserVolume(v))
  /\ UNCHANGED <<playerSettling, volumeSettling, commanded>>

Idle == serving = NoCmd /\ queue = <<>>

\* The newest status of each kind that has arrived counts.
Drain ==
  /\ Idle
  /\ \E n \in 0..Len(air) :
       /\ Arrived(n) # Nowhere
       /\ Observe(Arrived(n).player, Arrived(n).volume)
       /\ air' = SubSeq(air, n + 1, Len(air))
  /\ drained' = Nowhere
  /\ UNCHANGED <<kind, hosted, sender, session, transit, player, volume, group, bounds, history>>

\* The ownership probe reads the present state of both.
Probe ==
  /\ Idle
  /\ Observe(player, volume)
  /\ drained' = Arrived(Len(air)) /\ air' = <<>>
  /\ UNCHANGED <<kind, hosted, sender, session, transit, player, volume, group, bounds, history>>

\* A probe that fails on the transport replaces the connection.
Reconnect ==
  /\ Idle /\ Fault
  /\ air # <<>> \/ drained # Nowhere
  /\ air' = <<>> /\ drained' = Nowhere
  /\ UNCHANGED <<kind, hosted, sender, session, transit, tracker, player, volume, remote, group,
                 inputs, lates, history>>

Looked(of) == drained[of] = Nothing /\ \A i \in DOMAIN air : air[i].of = of => ~air[i].old

PlayerSettles ==
  /\ Idle /\ Looked("player") /\ playerSettling /\ playerSettling' = FALSE
  /\ UNCHANGED <<kind, hosted, sender, session, transit, intent, base, volumeSettling, commanded,
                 device, remote, group, bounds, history>>

VolumeSettles ==
  /\ Idle /\ Looked("volume") /\ volumeSettling /\ volumeSettling' = FALSE
  /\ UNCHANGED <<kind, hosted, sender, session, transit, intent, playerSettling, base, commanded,
                 device, remote, group, bounds, history>>

\* Ten seconds pass after the oldest level; its statuses have come and been looked at.
EchoExpires ==
  /\ Idle /\ ~volumeSettling /\ commanded # <<>>
  /\ base = volume /\ air = <<>> /\ drained = Nowhere
  /\ commanded' = Tail(commanded)
  /\ UNCHANGED <<kind, hosted, sender, session, transit, intent, playerSettling, base,
                 volumeSettling, device, remote, group, bounds, history>>

-----------------------------------------------------------------------------
(***************************************************************************)
(* A touch of the speaker, and the watch that forwards it.                 *)
(***************************************************************************)
\* Sender, session and tracker agree on it, and nothing is under way that would change it.
NoTransport ==
  /\ intent = player /\ paused # playing
  /\ \A i \in DOMAIN air : air[i].of # "player"
  /\ \A op \in Ops : tasks[op] = 0 /\ ~Waiting(op)
  /\ ~Has(events, "Paused") /\ ~Has(events, "Resumed")
  /\ \A i \in DOMAIN told : told[i].of # "player"
  /\ \A i \in DOMAIN remote : remote[i].of # "player"
NoVolume == ~Has(events, "Volume") /\ ~Waiting("SET")

Tap ==
  /\ inputs < MaxInputs /\ inputs' = inputs + 1
  /\ player' = IF player = "playing" THEN "paused" ELSE "playing"
  /\ air' = Append(air, [of |-> "player", is |-> player', old |-> FALSE])
  /\ credit' = [credit EXCEPT ![player'] = @ + 1]
  /\ owedTap' = IF NoTransport /\ kind = "speaker" THEN player' ELSE Nothing
  /\ UNCHANGED <<kind, hosted, sender, session, transit, tracker, volume, drained, remote, group,
                 lates, fails, owedTurn, turned, muteTouched, lost>>

\* The tracker will take v for the user's, whichever of the volumes before it were looked at.
IsNew(v) ==
  /\ v # base
  /\ \/ ~IsEcho(v.level)
     \/ /\ base.muted # v.muted
        /\ drained.volume # Nothing => drained.volume.muted # v.muted
        /\ \A i \in DOMAIN air : air[i].of = "volume" => air[i].is.muted # v.muted

Touch(v) ==
  /\ inputs < MaxInputs /\ inputs' = inputs + 1
  /\ volume' = v
  /\ air' = Append(air, [of |-> "volume", is |-> v, old |-> FALSE])
  /\ owedTurn' = IF NoVolume /\ kind = "speaker" /\ IsNew(v) THEN v ELSE Nothing
  /\ UNCHANGED <<kind, hosted, sender, session, transit, tracker, player, drained, remote, group,
                 lates, fails, owedTap, credit, lost>>

Turn(l) ==
  /\ l # volume.level
  /\ Touch([volume EXCEPT !.level = l])
  /\ turned' = turned \cup {l}
  /\ UNCHANGED muteTouched

Mute ==
  /\ Touch([volume EXCEPT !.muted = ~volume.muted])
  /\ muteTouched' = TRUE
  /\ UNCHANGED turned

\* on_cast_remote: groups stay one-way; a pause marks the session, a play waits for the sender.
Forwards(change) ==
  /\ kind = "speaker"
  /\ \/ change.of = "player" /\ paused = (change.is = "playing")
     \/ change.of = "volume"

OnCastRemote ==
  /\ remote # <<>>
  /\ remote' = Tail(remote)
  /\ LET change == Head(remote)
         goes   == Forwards(change) IN
       /\ paused' = (paused \/ (goes /\ change.of = "player" /\ change.is = "paused"))
       /\ last' = IF goes /\ change.of = "volume" /\ ~change.is.muted THEN change.is.level
                  ELSE last
       /\ \/ /\ told' = IF goes THEN Append(told, change) ELSE told
             /\ UNCHANGED <<fails, owedTurn, owedTap>>
          \/ \* the sender cannot be reached
             /\ goes /\ Fault /\ told' = told
             /\ owedTurn' = Nothing /\ owedTap' = Nothing
       /\ credit' = IF goes /\ change.of = "player" THEN [credit EXCEPT ![change.is] = @ - 1]
                    ELSE credit
  /\ UNCHANGED <<kind, hosted, slider, playing, castPaused, events, waits, transit, tracker, device,
                 group, inputs, lates, turned, muteTouched, lost>>

-----------------------------------------------------------------------------
(***************************************************************************)
(* The apply task of a speaker group whose session plays elsewhere.        *)
(***************************************************************************)
\* One lock takes the target or ends the task.
NextTarget ==
  /\ apply = "next"
  /\ applying' = target /\ target' = Nothing
  /\ apply' = CASE target = Nothing -> "off" [] target # Nothing /\ cached -> "set"
                [] OTHER -> "read"
  /\ UNCHANGED <<cached, awaited, member, memberQueue, fails, lates, lost>>

\* MULTIZONE_STATUS of the group; the target goes with a failed read.
ReadMembers ==
  /\ apply = "read"
  /\ \/ apply' = "set" /\ cached' = TRUE /\ UNCHANGED <<fails, lost>>
     \/ apply' = "next" /\ Fault /\ lost' = TRUE /\ UNCHANGED cached
  /\ UNCHANGED <<target, applying, awaited, member, memberQueue, lates>>

\* One set_volume per member at once.
SetMembers ==
  /\ apply = "set"
  /\ apply' = "wait" /\ awaited' = Members
  /\ memberQueue' = [m \in Members |-> Append(memberQueue[m], applying)]
  /\ UNCHANGED <<target, applying, cached, member, fails, lates, lost>>

\* A member's worker serves its queue as one command.
MemberSets(m) ==
  /\ memberQueue[m] # <<>>
  /\ memberQueue' = [memberQueue EXCEPT ![m] = <<>>]
  /\ \/ member' = [member EXCEPT ![m] = memberQueue[m][Len(memberQueue[m])]]
        /\ UNCHANGED <<fails, lost>>
     \/ Fault /\ lost' = TRUE /\ UNCHANGED member
  /\ awaited' = awaited \ {m}
  /\ UNCHANGED <<target, apply, applying, cached, lates>>

MemberTimesOut(m) ==
  /\ m \in awaited /\ lates < MaxLates /\ lates' = lates + 1
  /\ awaited' = awaited \ {m}
  /\ UNCHANGED <<target, apply, applying, cached, member, memberQueue, fails, lost>>

MembersSet ==
  /\ apply = "wait" /\ awaited = {}
  /\ apply' = "next"
  /\ UNCHANGED <<target, applying, cached, awaited, member, memberQueue, fails, lates, lost>>

\* MEMBER_CACHE_TTL
CacheExpires ==
  /\ cached /\ apply \in {"next", "off"} /\ cached' = FALSE
  /\ UNCHANGED <<target, apply, applying, awaited, member, memberQueue, fails, lates, lost>>

ApplyGroupVolume ==
  /\ \/ NextTarget \/ ReadMembers \/ SetMembers \/ MembersSet
     \/ \E m \in Members : MemberSets(m)
  /\ UNCHANGED <<kind, hosted, sender, session, transit, tracker, device, remote, inputs,
                 owedTurn, owedTap, credit, turned, muteTouched>>

GroupWaits ==
  /\ CacheExpires \/ \E m \in Members : MemberTimesOut(m)
  /\ UNCHANGED <<kind, hosted, sender, session, transit, tracker, device, remote, inputs,
                 owedTurn, owedTap, credit, turned, muteTouched>>

-----------------------------------------------------------------------------
User   == Press \/ (\E l \in Levels : Slide(l)) \/ Tap \/ Mute \/ (\E l \in Levels : Turn(l))
Worker == Serve \/ SetVolumeDone \/ TransportDone
Looks  == Drain \/ Probe
Settle == PlayerSettles \/ VolumeSettles

Next ==
  \/ User \/ Obey \/ TakeEvent \/ VolumeTimesOut \/ (\E op \in Ops : Command(op))
  \/ Worker \/ CommandFails \/ Looks \/ Reconnect \/ Settle \/ EchoExpires
  \/ OnCastRemote \/ ApplyGroupVolume \/ GroupWaits

Spec == Init /\ [][Next]_vars

\* The sender takes its commands, every task runs, the worker serves and probes, time passes.
FairSpec ==
  /\ Spec
  /\ WF_vars(Obey) /\ WF_vars(TakeEvent) /\ WF_vars(OnCastRemote)
  /\ \A op \in Ops : SF_vars(Command(op))
  /\ WF_vars(Worker) /\ WF_vars(Drain) /\ WF_vars(Probe)
  /\ WF_vars(PlayerSettles) /\ WF_vars(VolumeSettles)
  /\ WF_vars(ApplyGroupVolume)

-----------------------------------------------------------------------------
\* Nothing the bridge does by itself plays or pauses the sender: it is told so only after a touch
\* of the speaker or a Cast command that failed (a group's late status once "resumed playback on its own", remote.rs:73).
NoPhantomTap == \A p \in {"playing", "paused"} : credit[p] >= 0

\* A volume reported to the sender has a level chosen on the speaker or a mute touched there,
\* never the echo of a level the bridge set (pool.rs:74, "is our echo, however late it arrives").
NoVolumeLoop ==
  \A i \in DOMAIN told : told[i].of = "volume" => muteTouched \/ told[i].is.level \in turned

\* A group tells its sender nothing (remote.rs:73, "groups stay one-way").
GroupsStayOneWay == kind = "group" => told = <<>>

\* Everything sent has arrived and been acted on, and the tracker has seen the speaker.
Quiet ==
  /\ events = <<>> /\ told = <<>> /\ remote = <<>> /\ Idle /\ ~waits
  /\ transport = "free" /\ \A op \in Ops : tasks[op] = 0
  /\ air = <<>> /\ drained = Nowhere /\ intent = player /\ base = volume
  /\ ~playerSettling /\ ~volumeSettling
  /\ apply = "off" /\ \A m \in Members : memberQueue[m] = <<>>

\* A volume chosen on the speaker, while none of ours is on its way to it and unless it repeats a
\* level set within the echo window with a mute flag that may have been seen on the way to it
\* (IsNew), reaches the sender, also from within the settle window
\* (pool.rs:94, "a real user change in that window is still caught by the next status after it").
TurnReachesSender == Quiet /\ owedTurn # Nothing => slider = owedTurn

\* A pause or play touched on the speaker, while no other is under way, becomes the sender's and
\* stays the speaker's: the rate it makes is not sent back (remote.rs:11).
TapReachesSender ==
  Quiet /\ owedTap # Nothing => playing = (owedTap = "playing") /\ player = owedTap

\* A speaker group whose session plays elsewhere ends on the last slide, unless something failed.
LastSlideApplied ==
  Quiet /\ VolumeRoute = "members" /\ ~lost => \A m \in Members : member[m] = slider.level

\* Everything comes to rest: no command loses its caller, no target its task, and the echoes of
\* slider, speaker and tracker die out.
ComesToRest == <>[]Quiet

\* Does not hold (README, section 6): at rest, sender, session and speaker agree.
SidesAgree ==
  Quiet /\ kind = "speaker" => playing = (player = "playing") /\ slider = volume
=============================================================================
