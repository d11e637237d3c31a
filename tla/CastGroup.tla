------------------------------ MODULE CastGroup ------------------------------
(***************************************************************************)
(* One AirPlay multi-select (one groupUUID) played as one Cast multizone   *)
(* session: the device workers of its members, the group record they share *)
(* and the reconcile tasks that bring Cast to the current membership.      *)
(*                                                                         *)
(* A step holds the locks the code holds: enter_group and group_owner_left *)
(* decide and install under both locks, everything else reads one, lets go *)
(* and goes on.  A stream is named by its PCM ring, a Playing session by a *)
(* number of its own, because a plan keeps the session's route after the   *)
(* session moved or ended.  Every stream belongs to the multi-select;      *)
(* what a single speaker does is SessionLifecycle's subject.               *)
(***************************************************************************)
EXTENDS Naturals, FiniteSets, SequencesExt

CONSTANTS
  Devices,      \* members of the multi-select
  Hosts,        \* endpoints Cast may move the multizone session to
  Nobody,       \* no device, no host
  MaxStreams,   \* bound: AirPlay streams opened
  MaxSessions,  \* bound: Cast sessions started
  MaxTasks,     \* bound: reconcile tasks alive at once
  MaxFaults,    \* bound: refusing answers, session moves and losses, together
  Faults        \* which of Kinds may happen

ASSUME NobodyAssumption == Nobody \notin Devices \cup Hosts
ASSUME KeysAssumption == Devices \cap Hosts = {}   \* (a host's key is "cast-session:ip:port")
ASSUME BoundsAssumption ==
  /\ MaxStreams \in Nat /\ MaxSessions \in Nat /\ MaxTasks \in Nat /\ MaxFaults \in Nat
  /\ Faults \subseteq {"refuse", "error", "move", "steal", "stall"}

Tasks    == 1..MaxTasks
Streams  == 1..MaxStreams
Sessions == 1..MaxSessions
Kinds    == {"refuse",  \* Cast fails members it was to add
             "error",   \* Cast fails the whole request
             "move",    \* Cast moves the session to another host
             "steal",   \* another sender takes the Cast session
             "stall"}   \* the stall watchdog gives up
Keys     == Devices \cup Hosts

VARIABLES
  opened,   \* streams opened so far
  ring,     \* ring[d]: stream d's receiver serves (0: none)
  inbox,    \* inbox[d]: FIFO of d's device worker
  slot,     \* slot[d]: DeviceState
  worker,   \* worker[d]: where d's device worker is
  group,    \* the CastGroup, or NoGroup
  route,    \* route[s]: CastRoute.media of session s
  begun,    \* sessions started so far
  task,     \* task[t]: a reconcile task
  open,     \* session host workers open in the pool
  notices,  \* Cast keys whose ownership-lost notice is on its way
  ending,   \* end_cast_session between taking the session and ending the group
  faults    \* faults so far

members == <<slot, group>>
airplay == <<opened, ring>>
cast    == <<route, begun, open>>
losses  == <<notices, ending>>
vars    == <<airplay, inbox, members, worker, cast, task, losses, faults>>

-----------------------------------------------------------------------------
NoGroup  == [here |-> FALSE, owner |-> Nobody, followers |-> <<>>, cast |-> <<>>, host |-> Nobody,
             excluded |-> {}, promoting |-> Nobody, running |-> FALSE, dirty |-> FALSE]
NewGroup == [NoGroup EXCEPT !.here = TRUE]

Idle            == [st |-> "Idle", ring |-> 0, session |-> 0, grouped |-> FALSE]
Starting(r)     == [st |-> "Starting", ring |-> r, session |-> 0, grouped |-> FALSE]
Following(r)    == [st |-> "Following", ring |-> r, session |-> 0, grouped |-> TRUE]
Playing(r,s,gr) == [st |-> "Playing", ring |-> r, session |-> s, grouped |-> gr]

Resting    == [pc |-> "idle", session |-> 0, grouped |-> FALSE, who |-> Nobody, then |-> FALSE]
At(pc)     == [Resting EXCEPT !.pc = pc]
NoTask     == [pc |-> "off", session |-> 0, owner |-> Nobody, desired |-> <<>>,
               added |-> {}, failed |-> {}, moved |-> Nobody]
NotEnding  == [on |-> FALSE, grouped |-> FALSE]

Started(r) == [kind |-> "Started", ring |-> r]
Ended      == [kind |-> "Ended", ring |-> 0]

IsLive(d)      == slot[d].st # "Idle"
InFollowers(d) == d \in ToSet(group.followers)

\* The elements of q that are in S, and those that are not, in their order (Vec::retain,
\* filter; a recursive function where SelectSeq would do, so that it can be proved about).
Keeping(q, S) ==
  LET F[i \in 0..Len(q)] ==
        IF i = 0 THEN <<>> ELSE IF q[i] \in S THEN Append(F[i - 1], q[i]) ELSE F[i - 1]
  IN F[Len(q)]
Without(q, S)  == Keeping(q, ToSet(q) \ S)

IsEmpty(g)     == g.owner = Nobody /\ g.followers = <<>> /\ g.excluded = {}

Events  == [kind : {"Started", "Ended"}, ring : 0..MaxStreams]
Slots   == [st : {"Idle", "Starting", "Following", "Playing"}, ring : 0..MaxStreams,
            session : 0..MaxSessions, grouped : BOOLEAN]
Workers == [pc : {"idle", "start", "playing", "joined", "check", "left", "promote", "redispatch"},
            session : 0..MaxSessions, grouped : BOOLEAN, who : Devices \cup {Nobody}, then : BOOLEAN]
Records == [here : BOOLEAN, owner : Devices \cup {Nobody}, followers : Seq(Devices), cast : Seq(Devices),
            host : Hosts \cup {Nobody}, excluded : SUBSET Devices, promoting : Devices \cup {Nobody},
            running : BOOLEAN, dirty : BOOLEAN]
Passes  == [pc : {"off", "sleep", "plan", "flight", "sent", "refused", "move", "finish"},
            session : 0..MaxSessions, owner : Devices \cup {Nobody}, desired : Seq(Devices),
            added : SUBSET Devices, failed : SUBSET Devices, moved : Hosts \cup {Nobody}]

TypeOK ==
  /\ opened \in 0..MaxStreams /\ ring \in [Devices -> 0..MaxStreams]
  /\ inbox \in [Devices -> Seq(Events)]
  /\ slot \in [Devices -> Slots] /\ worker \in [Devices -> Workers]
  /\ group \in Records
  /\ route \in [Sessions -> Keys \cup {Nobody}]
  /\ begun \in 0..MaxSessions /\ \A s \in 1..begun : route[s] \in Keys
  /\ task \in [Tasks -> Passes]
  /\ open \subseteq Hosts /\ notices \subseteq Keys
  /\ ending \in [on : BOOLEAN, grouped : BOOLEAN]
  /\ faults \in [Kinds -> Nat]

Init ==
  /\ opened = 0 /\ ring = [d \in Devices |-> 0] /\ inbox = [d \in Devices |-> <<>>]
  /\ slot = [d \in Devices |-> Idle] /\ worker = [d \in Devices |-> Resting]
  /\ group = NoGroup /\ route = [s \in Sessions |-> Nobody] /\ begun = 0
  /\ task = [t \in Tasks |-> NoTask] /\ open = {}
  /\ notices = {} /\ ending = NotEnding
  /\ faults = [k \in Kinds |-> 0]

-----------------------------------------------------------------------------
(***************************************************************************)
(* AirPlay receivers.  A stream opened over a live one replaces its ring   *)
(* without an Ended; only the current ring's end is reported.              *)
(***************************************************************************)
OpenStream(d) ==
  /\ opened < MaxStreams
  /\ opened' = opened + 1
  /\ ring' = [ring EXCEPT ![d] = opened + 1]
  /\ inbox' = [inbox EXCEPT ![d] = Append(@, Started(opened + 1))]
  /\ UNCHANGED <<members, worker, cast, task, losses, faults>>

CloseStream(d) ==
  /\ ring[d] # 0
  /\ ring' = [ring EXCEPT ![d] = 0]
  /\ inbox' = [inbox EXCEPT ![d] = Append(@, Ended)]
  /\ UNCHANGED <<opened, members, worker, cast, task, losses, faults>>

-----------------------------------------------------------------------------
(***************************************************************************)
(* Shared steps.                                                           *)
(***************************************************************************)
Fault(k) ==
  /\ k \in Faults /\ SumFunction(faults) < MaxFaults
  /\ faults' = [faults EXCEPT ![k] = @ + 1]

\* (mutant) a change that meets a running task is forgotten.
ScheduleForgets(g) ==
  IF g.here /\ ~g.running
    THEN /\ group' = [g EXCEPT !.running = TRUE, !.dirty = FALSE]
         /\ task' = [task EXCEPT ![1] = [NoTask EXCEPT !.pc = "sleep"]]
    ELSE group' = g /\ UNCHANGED task

\* schedule_group_reconcile: one task per record; a busy one is told to run again.
Schedule(g) ==
  IF ~g.here THEN group' = g /\ UNCHANGED task
  ELSE IF g.running THEN group' = [g EXCEPT !.dirty = TRUE] /\ UNCHANGED task
  ELSE /\ group' = [g EXCEPT !.running = TRUE, !.dirty = FALSE]
       /\ \E t \in Tasks : task[t].pc = "off" /\ (\A u \in Tasks : u < t => task[u].pc # "off")
                           /\ task' = [task EXCEPT ![t] = [NoTask EXCEPT !.pc = "sleep"]]

CloseHosts(S) == open' = open \ S
TaskFree == group.running \/ \E t \in Tasks : task[t].pc = "off"

\* redispatch_start: a Started for a member that still follows, put first or last in its
\* queue: the run loop takes redispatches before AirPlay events it has not routed yet.
Redispatched(d, first) ==
  LET e == Started(slot[d].ring) IN IF first THEN <<e>> \o inbox[d] ELSE Append(inbox[d], e)

-----------------------------------------------------------------------------
(***************************************************************************)
(* Device worker: Started.                                                 *)
(***************************************************************************)
Takes(d, kind) ==
  /\ worker[d].pc = "idle" /\ inbox[d] # <<>> /\ Head(inbox[d]).kind = kind
  /\ inbox' = [inbox EXCEPT ![d] = Tail(@)]

WorkerTo(d, w) == worker' = [worker EXCEPT ![d] = w]

SkipStale(d) ==
  /\ Takes(d, "Started") /\ Head(inbox[d]).ring # ring[d]
  /\ WorkerTo(d, At("check"))
  /\ UNCHANGED <<airplay, members, cast, task, losses, faults>>

\* accept_start on the route of key k: the next session of d.
Accept(d, k, gr) ==
  /\ begun < MaxSessions
  /\ begun' = begun + 1
  /\ route' = [route EXCEPT ![begun + 1] = k]
  /\ slot' = [slot EXCEPT ![d] = Starting(ring[d])]
  /\ WorkerTo(d, [At("start") EXCEPT !.session = begun + 1, !.grouped = gr])

StartAlone(d) ==
  /\ Takes(d, "Started") /\ Head(inbox[d]).ring = ring[d]
  /\ d \in group.excluded
  /\ Accept(d, d, FALSE)
  /\ UNCHANGED <<airplay, group, open, task, losses, faults>>

\* (mutant) an owner that is still starting does not count.
OwnerLivePlaying(d) == group.owner \notin {Nobody, d} /\ slot[group.owner].st = "Playing"

OwnerLive(d) == group.owner \notin {Nobody, d} /\ slot[group.owner].st \in {"Starting", "Playing"}

EnterFollowing(d) ==
  /\ Takes(d, "Started") /\ Head(inbox[d]).ring = ring[d]
  /\ d \notin group.excluded
  /\ OwnerLive(d)
  /\ group' = [group EXCEPT !.followers = IF InFollowers(d) THEN @ ELSE Append(@, d)]
  /\ slot' = [slot EXCEPT ![d] = Following(ring[d])]
  /\ WorkerTo(d, At("joined"))
  /\ UNCHANGED <<airplay, cast, task, losses, faults>>

\* (mutant) the host is closed though the owner restarts on it.
StaleHostAlways(d) == {group.host}

LoadKey(d)   == IF group.owner = d /\ group.host # Nobody THEN group.host ELSE d
StaleHost(d) == IF group.owner = d THEN {} ELSE {group.host}

\* An owner that restarts LOADs where the session plays now; a new owner starts afresh.
EnterOwner(d) ==
  /\ Takes(d, "Started") /\ Head(inbox[d]).ring = ring[d]
  /\ d \notin group.excluded
  /\ ~OwnerLive(d)
  /\ LET again == group.owner = d
         g == IF group.here THEN group ELSE NewGroup
     IN /\ group' = [g EXCEPT !.owner = d, !.followers = Without(@, {d}),
                              !.promoting = IF @ = d THEN Nobody ELSE @,
                              !.cast = IF again THEN @ ELSE <<>>,
                              !.host = IF again THEN @ ELSE Nobody]
        /\ Accept(d, LoadKey(d), TRUE)
        /\ CloseHosts(StaleHost(d))
  /\ UNCHANGED <<airplay, task, losses, faults>>

ScheduleJoin(d) ==
  /\ worker[d].pc = "joined" /\ TaskFree
  /\ Schedule(group)
  /\ WorkerTo(d, At("check"))
  /\ UNCHANGED <<airplay, inbox, slot, cast, losses, faults>>

\* The start ends without a session: prebuffer, media server or LOAD failed, or superseded.
StartFails(d) ==
  /\ worker[d].pc = "start"
  /\ slot' = [slot EXCEPT ![d] = IF @.st = "Starting" THEN Idle ELSE @]
  /\ WorkerTo(d, At("check"))
  /\ UNCHANGED <<airplay, inbox, group, cast, task, losses, faults>>

\* Playing is installed where Starting still stands; otherwise the orphan is torn down.
Install(d) ==
  /\ worker[d].pc = "start"
  /\ IF slot[d].st = "Starting"
       THEN /\ slot' = [slot EXCEPT ![d] = Playing(@.ring, worker[d].session, worker[d].grouped)]
            /\ WorkerTo(d, At(IF worker[d].grouped THEN "playing" ELSE "check"))
       ELSE UNCHANGED slot /\ WorkerTo(d, At("check"))
  /\ UNCHANGED <<airplay, inbox, group, cast, task, losses, faults>>

\* group_owner_playing confirms the owner as the only Cast member of a fresh session.
Confirmed(g, d) ==
  IF g.here /\ g.owner = d /\ g.cast = <<>> THEN [g EXCEPT !.cast = <<d>>] ELSE g

OwnerPlaying(d) ==
  /\ worker[d].pc = "playing" /\ TaskFree
  /\ IF group.here /\ group.owner = d THEN Schedule(Confirmed(group, d))
                                        ELSE UNCHANGED <<group, task>>
  /\ WorkerTo(d, At("check"))
  /\ UNCHANGED <<airplay, inbox, slot, cast, losses, faults>>

-----------------------------------------------------------------------------
(***************************************************************************)
(* Device worker: group_check_owner, after every Started and session end.  *)
(***************************************************************************)
\* (mutant) the group of a dropped owner is left to itself.
AfterCheckIdle(was) == Resting

AfterCheck(was) == IF was THEN At("promote") ELSE Resting

CheckOwner(d) ==
  /\ worker[d].pc = "check"
  /\ IF IsLive(d) THEN UNCHANGED <<group, open>> /\ WorkerTo(d, Resting)
     ELSE LET was == group.owner = d
              g == [group EXCEPT !.excluded = @ \ {d},
                                 !.owner = IF was THEN Nobody ELSE @,
                                 !.cast = IF was THEN <<>> ELSE @,
                                 !.host = IF was THEN Nobody ELSE @]
          IN /\ group' = IF IsEmpty(g) THEN NoGroup ELSE g
             /\ CloseHosts(IF was \/ IsEmpty(g) THEN {group.host} ELSE {})
             /\ WorkerTo(d, AfterCheck(was))
  /\ UNCHANGED <<airplay, inbox, slot, route, begun, task, losses, faults>>

\* promote_if_ownerless; `then` says whether the caller schedules a reconcile after it.
Promotable ==
  /\ group.here /\ group.owner = Nobody
  /\ ~(group.promoting # Nobody /\ InFollowers(group.promoting))

Done(d, g) ==
  /\ IF worker[d].then THEN TaskFree /\ Schedule(g) ELSE group' = g /\ UNCHANGED task
  /\ WorkerTo(d, Resting)

Promote(d) ==
  /\ worker[d].pc = "promote" /\ Promotable /\ group.followers # <<>>
  /\ group' = [group EXCEPT !.promoting = Head(group.followers)]
  /\ WorkerTo(d, [worker[d] EXCEPT !.pc = "redispatch", !.who = Head(group.followers)])
  /\ UNCHANGED <<airplay, inbox, slot, cast, task, losses, faults>>

NothingToPromote(d) ==
  /\ worker[d].pc = "promote" /\ ~(Promotable /\ group.followers # <<>>)
  /\ IF Promotable
       THEN /\ CloseHosts({group.host})
            /\ Done(d, IF IsEmpty(group) THEN NoGroup ELSE [group EXCEPT !.host = Nobody])
       ELSE UNCHANGED open /\ Done(d, group)
  /\ UNCHANGED <<airplay, inbox, slot, route, begun, losses, faults>>

RedispatchPromoted(d) ==
  /\ worker[d].pc = "redispatch"
  /\ LET p == worker[d].who IN
       IF slot[p].st = "Following"
         THEN \E first \in BOOLEAN : inbox' = [inbox EXCEPT ![p] = Redispatched(p, first)]
         ELSE UNCHANGED inbox
  /\ Done(d, group)
  /\ UNCHANGED <<airplay, slot, cast, losses, faults>>

-----------------------------------------------------------------------------
(***************************************************************************)
(* Device worker: Ended.                                                   *)
(***************************************************************************)
DropEnded(d) ==
  /\ Takes(d, "Ended")
  /\ slot[d].st = "Idle" \/ slot[d].ring = ring[d]
  /\ UNCHANGED <<airplay, members, worker, cast, task, losses, faults>>

EndFollowing(d) ==
  /\ Takes(d, "Ended") /\ slot[d].st = "Following" /\ slot[d].ring # ring[d]
  /\ slot' = [slot EXCEPT ![d] = Idle]
  /\ WorkerTo(d, At("left"))
  /\ UNCHANGED <<airplay, group, cast, task, losses, faults>>

LeaveFollowers(d) ==
  /\ worker[d].pc = "left"
  /\ group' = [group EXCEPT !.followers = Without(@, {d})]
  /\ WorkerTo(d, [At("promote") EXCEPT !.then = TRUE])
  /\ UNCHANGED <<airplay, inbox, slot, cast, task, losses, faults>>

\* Members that can take the owner's session over: in the Cast session and following (and,
\* for the choice below, receiving the owner's stream format).
Survivors == {f \in Devices : InFollowers(f) /\ f \in ToSet(group.cast) /\ slot[f].st = "Following"}
Owns(d)   == slot[d].grouped /\ group.here /\ group.owner = d

HandOver(d) ==
  /\ Takes(d, "Ended") /\ slot[d].st = "Playing" /\ slot[d].ring # ring[d] /\ Owns(d) /\ TaskFree
  /\ \E f \in Survivors :
       /\ slot' = [slot EXCEPT ![d] = Idle, ![f] = Playing(slot[f].ring, slot[d].session, TRUE)]
       /\ Schedule([group EXCEPT !.owner = f, !.followers = Without(@, {f})])
  /\ UNCHANGED <<airplay, worker, cast, losses, faults>>

\* No member to hand the session to: it ends (STOP on its route), then group_check_owner.
EndPlaying(d) ==
  /\ Takes(d, "Ended") /\ slot[d].st = "Playing" /\ slot[d].ring # ring[d]
  /\ slot' = [slot EXCEPT ![d] = Idle]
  /\ WorkerTo(d, At("check"))
  /\ UNCHANGED <<airplay, group, cast, task, losses, faults>>

-----------------------------------------------------------------------------
(***************************************************************************)
(* Reconcile task: debounce, clear the dirty flag, read the plan, wait for *)
(* the session's re-LOAD flight, ask Cast, apply the answer, follow the    *)
(* session if it moved, and run again if membership changed meanwhile.     *)
(***************************************************************************)
TaskTo(t, pc) == task' = [task EXCEPT ![t].pc = pc]

\* (a group that is gone ends the task)
Wake(t) ==
  /\ task[t].pc = "sleep"
  /\ IF group.here
       THEN group' = [group EXCEPT !.dirty = FALSE] /\ TaskTo(t, "plan")
       ELSE UNCHANGED group /\ task' = [task EXCEPT ![t] = NoTask]
  /\ UNCHANGED <<airplay, inbox, slot, worker, cast, losses, faults>>

\* desired_members: confirmed members first, minus leavers, then new ones.
Desired ==
  LET wanted == {group.owner} \cup {f \in ToSet(group.followers) : slot[f].st = "Following"}
      kept   == Keeping(group.cast, wanted)
      fresh  == Keeping(<<group.owner>> \o group.followers, wanted \ ToSet(kept))
  IN kept \o fresh

\* The owner plays, and for the group: a member Cast refused plays for itself.
GroupPlays ==
  /\ group.here /\ group.owner # Nobody
  /\ slot[group.owner].st = "Playing" /\ slot[group.owner].grouped

PlanDue == GroupPlays /\ group.cast # <<>> /\ Desired # group.cast

Plan(t) ==
  /\ task[t].pc = "plan"
  /\ task' = [task EXCEPT ![t] =
       IF PlanDue
         THEN [NoTask EXCEPT !.pc = "flight", !.session = slot[group.owner].session,
                             !.owner = group.owner, !.desired = Desired,
                             !.added = ToSet(Desired) \ (ToSet(group.cast) \cup {group.owner})]
         ELSE [NoTask EXCEPT !.pc = "finish"]]
  /\ UNCHANGED <<airplay, inbox, members, worker, cast, losses, faults>>

InFlight(s) == \E t \in Tasks : task[t].session = s /\ task[t].pc \in {"sent", "refused", "move"}

Send(t) ==
  /\ task[t].pc = "flight" /\ ~InFlight(task[t].session)
  /\ TaskTo(t, "sent")
  /\ UNCHANGED <<airplay, inbox, members, worker, cast, losses, faults>>

\* (mutant) refused members are taken for confirmed.
ConfirmsAll(t, failed) == task[t].desired

Confirms(t, failed) == Without(task[t].desired, failed)

\* Cast took the list, failing some of the members it was to add, and may have moved the
\* session.
Answer(t) ==
  /\ task[t].pc = "sent"
  /\ \E failed \in SUBSET task[t].added,
        moved \in Hosts \cup {Nobody} :
       /\ \/ failed = {} /\ moved = Nobody /\ UNCHANGED faults
          \/ failed # {} /\ moved = Nobody /\ Fault("refuse")
          \/ failed = {} /\ moved # Nobody /\ Fault("move")
       /\ group' = IF group.here
                     THEN [group EXCEPT !.cast = Confirms(t, failed),
                                        !.followers = Without(@, failed),
                                        !.excluded = @ \cup failed]
                     ELSE group
       /\ task' = [task EXCEPT ![t].pc = "refused", ![t].failed = failed, ![t].moved = moved]
  /\ UNCHANGED <<airplay, inbox, slot, worker, cast, losses>>

\* The request failed: every member to add is refused.
AnswerError(t) ==
  /\ task[t].pc = "sent" /\ Fault("error")
  /\ LET failed == task[t].added IN
       /\ group' = IF group.here
                     THEN [group EXCEPT !.followers = Without(@, failed),
                                        !.excluded = @ \cup failed]
                     ELSE group
       /\ task' = [task EXCEPT ![t].pc = "refused", ![t].failed = failed]
  /\ UNCHANGED <<airplay, inbox, slot, worker, cast, losses>>

\* A refused member that still follows gets a Started of its own (it plays standalone).
Refuse(t) ==
  /\ task[t].pc = "refused"
  /\ \E first \in BOOLEAN : inbox' = [d \in Devices |->
       IF d \in task[t].failed /\ slot[d].st = "Following" THEN Redispatched(d, first) ELSE inbox[d]]
  /\ LET k == task[t].moved IN
       TaskTo(t, IF k # Nobody /\ k # route[task[t].session] THEN "move" ELSE "finish")
  /\ UNCHANGED <<airplay, members, worker, cast, losses, faults>>

\* follow_session_endpoint: media control follows the session host ...
Move(t) ==
  /\ task[t].pc = "move"
  /\ route' = [route EXCEPT ![task[t].session] = task[t].moved]
  /\ group' = IF group.here THEN [group EXCEPT !.host = task[t].moved] ELSE group
  /\ open' = (open \ {group.host}) \cup {task[t].moved}
  /\ TaskTo(t, "finish")
  /\ UNCHANGED <<airplay, inbox, slot, worker, begun, losses, faults>>

\* ... or, where it cannot be taken over, goes back to the owner's speaker, which is LOADed
\* again behind this flight.
MoveFails(t) ==
  /\ task[t].pc = "move"
  /\ route' = [route EXCEPT ![task[t].session] = task[t].owner]
  /\ group' = IF group.here THEN [group EXCEPT !.cast = <<>>, !.host = Nobody] ELSE group
  /\ open' = open \ {group.host, task[t].moved}
  /\ TaskTo(t, "finish")
  /\ UNCHANGED <<airplay, inbox, slot, worker, begun, losses, faults>>

Finish(t) ==
  /\ task[t].pc = "finish"
  /\ IF group.here /\ group.dirty
       THEN UNCHANGED group /\ TaskTo(t, "sleep")
       ELSE /\ group' = IF group.here THEN [group EXCEPT !.running = FALSE] ELSE group
            /\ task' = [task EXCEPT ![t] = NoTask]
  /\ UNCHANGED <<airplay, inbox, slot, worker, cast, losses, faults>>

\* confirm_group_session: a re-LOAD the owner's speaker accepted (the one a failed move asks
\* for, else the stall watchdog's) confirms a session whose membership is unconfirmed.
Unconfirmed(d) == slot[d].st = "Playing" /\ Owns(d) /\ group.cast = <<>>

Reloaded(d) ==
  /\ Unconfirmed(d) /\ ~InFlight(slot[d].session) /\ TaskFree
  /\ Schedule(Confirmed(group, d))
  /\ UNCHANGED <<airplay, inbox, slot, worker, cast, losses, faults>>

-----------------------------------------------------------------------------
(***************************************************************************)
(* Ends from outside: a Cast session lost to another sender, and a stalled *)
(* one.                                                                    *)
(***************************************************************************)
EndGroupSlots == [d \in Devices |->
  IF group.here /\ InFollowers(d) /\ slot[d].st = "Following" THEN Idle ELSE slot[d]]

PlayingOn(k) == {d \in Devices : slot[d].st = "Playing" /\ route[slot[d].session] = k}

\* Another sender takes the Cast session on k; the notice names the key only.
CastLost(k) ==
  /\ PlayingOn(k) # {} /\ Fault("steal")
  /\ notices' = notices \cup {k}
  /\ UNCHANGED <<airplay, inbox, members, worker, cast, task, ending>>

\* end_cast_session: whatever plays on k by now, else whatever session k itself has, is taken
\* (the reads before the take await nothing and are one step here) ...
TakeLost(k) ==
  /\ k \in notices /\ ~ending.on
  /\ notices' = notices \ {k}
  /\ \/ \E d \in IF PlayingOn(k) # {} THEN PlayingOn(k) ELSE {k} \cap Devices :
          /\ ending' = [on |-> TRUE, grouped |-> slot[d].st = "Playing" /\ slot[d].grouped]
          /\ slot' = [slot EXCEPT ![d] = Idle]
     \/ /\ PlayingOn(k) = {} /\ k \in Hosts
        /\ UNCHANGED <<ending, slot>>
  /\ UNCHANGED <<airplay, inbox, group, worker, cast, task, faults>>

\* ... and, once it is torn down, its group ends with it.
EndLost ==
  /\ ending.on
  /\ IF ending.grouped
       THEN slot' = EndGroupSlots /\ group' = NoGroup /\ CloseHosts({group.host})
       ELSE UNCHANGED <<members, open>>
  /\ ending' = NotEnding
  /\ UNCHANGED <<airplay, inbox, worker, route, begun, task, notices, faults>>

\* terminal_stall_end: session and group go in one go.
StallEnd(d) ==
  /\ slot[d].st = "Playing" /\ Fault("stall")
  /\ IF slot[d].grouped
       THEN /\ slot' = [EndGroupSlots EXCEPT ![d] = Idle]
            /\ group' = NoGroup /\ CloseHosts({group.host})
       ELSE slot' = [slot EXCEPT ![d] = Idle] /\ UNCHANGED <<group, open>>
  /\ UNCHANGED <<airplay, inbox, worker, route, begun, task, losses>>

-----------------------------------------------------------------------------
Worker(d) ==
  \/ SkipStale(d) \/ StartAlone(d) \/ EnterFollowing(d) \/ EnterOwner(d) \/ ScheduleJoin(d)
  \/ StartFails(d) \/ Install(d) \/ OwnerPlaying(d)
  \/ CheckOwner(d) \/ Promote(d) \/ NothingToPromote(d) \/ RedispatchPromoted(d)
  \/ DropEnded(d) \/ EndFollowing(d) \/ LeaveFollowers(d) \/ HandOver(d) \/ EndPlaying(d)
Reconcile(t) ==
  \/ Wake(t) \/ Plan(t) \/ Send(t) \/ Answer(t) \/ AnswerError(t) \/ Refuse(t)
  \/ Move(t) \/ MoveFails(t) \/ Finish(t)

Next ==
  \/ \E d \in Devices : Worker(d) \/ Reloaded(d) \/ StallEnd(d) \/ CloseStream(d) \/ OpenStream(d)
  \/ \E t \in Tasks : Reconcile(t)
  \/ \E k \in Keys : CastLost(k) \/ TakeLost(k)
  \/ EndLost

Symmetry == Permutations(Devices)
Spec == Init /\ [][Next]_vars

-----------------------------------------------------------------------------
Quiescent ==
  /\ \A d \in Devices : inbox[d] = <<>> /\ worker[d] = Resting /\ ~Unconfirmed(d)
  /\ \A t \in Tasks : task[t].pc = "off"
  /\ notices = {} /\ ~ending.on

IsFollowing(d) == slot[d].st = "Following"
OwnerPlays     == group.here /\ group.owner # Nobody /\ slot[group.owner].st = "Playing"

\* enter_group decides and installs under one lock so that two members starting together
\* cannot both become owner: a session playing for the multi-select is its owner's, through
\* restarts, hand-overs and promotions.  (A stolen session ends its group in a second step,
\* when a new owner may already have started: it then plays without a group.)
OneOwner == faults["steal"] = 0 =>
  \A d \in Devices : slot[d].st = "Playing" /\ slot[d].grouped => group.owner = d

\* Once nothing is under way and the owner plays for the group, a speaker that follows is in
\* the Cast session: a member that joins while a request is in flight, at whatever step of
\* the reconcile task, is added after.
FollowersPlay == Quiescent /\ GroupPlays =>
  \A d \in Devices : IsFollowing(d) => d \in ToSet(group.cast)

\* And nobody else is: a member that left, at whatever step, has been taken out of the Cast
\* session, unless Cast failed a request (it is not repeated before the next change).
CastMatches == Quiescent /\ GroupPlays /\ faults["error"] = 0 =>
  /\ group.owner \in ToSet(group.cast)
  /\ ToSet(group.cast) \subseteq {group.owner} \cup ToSet(group.followers)

\* Once nothing is under way, a member that follows has an owner that plays, or the group
\* still remembers a member it promoted and that follows.  (Cast may refuse the promoted
\* member: it leaves the record as it restarts alone, and nobody is promoted in its place.)
Unrefused == faults["refuse"] = 0 /\ faults["error"] = 0
FollowersWait == Quiescent /\ Unrefused =>
  \A d \in Devices : IsFollowing(d) => OwnerPlays \/ InFollowers(group.promoting)

\* group.rs:437: "Ownerless group with members: the first member starts its own Cast
\* session (as owner)", so no member that follows is left without one.
FollowersFed == Quiescent => \A d \in Devices : IsFollowing(d) => OwnerPlays

\* Does not hold (README, section 6): members Cast could not add "play standalone until their
\* AirPlay session ends" (group.rs:61), so an excluded member has a session.
ExcludedLive == Quiescent => \A d \in group.excluded : IsLive(d)

\* A session that plays through a session host has that host's worker: hosts are closed
\* by whoever replaces or ends them, never under a session that moved or restarted there.
\* (A second move can be that of a plan from before the owner's restart, and a stolen group
\* ends when a new owner may already play: each closes a host that is not its own.)
HostOpen == faults["steal"] = 0 /\ faults["move"] <= 1 =>
  \A d \in Devices :
    slot[d].st = "Playing" /\ route[slot[d].session] \in Hosts => route[slot[d].session] \in open

=============================================================================
