--------------------------- MODULE CastWorker_proofs ---------------------------
(***************************************************************************)
(* What the Cast worker tracks was answered for, for every number of       *)
(* calls, media sessions and faults.  Alone this is not inductive: while   *)
(* the worker serves a LOAD, what it tracks may be the session that LOAD   *)
(* created and nobody was told of (TrackedInv), which is sound only as no  *)
(* call is answered twice (CallInv).  A loss needs two looks because the   *)
(* streak never runs ahead of the looks, and one recovery fails per        *)
(* episode because a failure is remembered as long as the session is       *)
(* (StreakInv).                                                            *)
(***************************************************************************)
EXTENDS CastWorker, TLAPS

-----------------------------------------------------------------------------
(***************************************************************************)
(* Sequences.                                                              *)
(***************************************************************************)
\* Pushing and taking keep a sequence one of the same set.
LEMMA Push ==
  ASSUME NEW S, NEW q \in Seq(S), NEW e \in S
  PROVE  Append(q, e) \in Seq(S)
OBVIOUS

LEMMA HeadTail ==
  ASSUME NEW S, NEW q \in Seq(S), q # <<>>
  PROVE  /\ Head(q) \in S /\ Tail(q) \in Seq(S)
         /\ \E i \in DOMAIN q : Head(q) = q[i]
         /\ \A i \in DOMAIN Tail(q) : \E j \in DOMAIN q : Tail(q)[i] = q[j]
OBVIOUS

-----------------------------------------------------------------------------
(***************************************************************************)
(* The inductive invariant.                                                *)
(***************************************************************************)
Working == pc \in {"wire", "failed", "again", "rewire", "commit", "installed", "deliver", "reply"}
Queued(c) == \E i \in DOMAIN queue : queue[i] = LoadCmd(c)

\* A call is in one place: not issued, in the queue once, served, or over.
CallInv ==
  /\ \A c \in Calls :
       /\ call[c] = "unsent" => ~Queued(c) /\ ~(Working /\ cur = c) /\ replied[c] = "no"
       /\ Queued(c) => ~(Working /\ cur = c) /\ replied[c] = "no"
       /\ Working /\ cur = c => replied[c] = "no"
  /\ \A i, j \in DOMAIN queue : queue[i] = queue[j] /\ queue[i].op = "LOAD" => i = j

AnsweredFor(m) == loadOf[m] = Self \/ replied[loadOf[m]] = "ok"

\* The tracked session was answered for, or is the one the LOAD being served created.
TrackedInv ==
  /\ active # None => active <= made
  /\ pc = "commit" => fresh # None /\ fresh <= made /\ loadOf[fresh] = cur
  /\ pc = "reply" => cur # Self
  /\ active # None =>
       \/ AnsweredFor(active) /\ pc # "installed"
       \/ pc = "installed" /\ loadOf[active] = cur
       \/ pc \in {"deliver", "reply"} /\ loadOf[active] = cur /\ result = "ok"

\* The loss streak counts looks; a failed recovery is remembered while the session is tracked.
StreakInv ==
  /\ lossStreak <= looks
  /\ pc = "probing" => active # None
  /\ Working /\ cur = Self => tries = 0
  /\ tries # 0 => tries = 1 /\ (reloadAttempted \/ active = None)

\* A STOP leaves nothing, and nothing but a LOAD follows it.
StoppedInv == stopped => active = None /\ pc = "idle"

WorkerInv == TypeOK /\ CallInv /\ TrackedInv /\ StreakInv /\ StoppedInv

-----------------------------------------------------------------------------
(***************************************************************************)
(* Types.                                                                  *)
(***************************************************************************)
LEMMA CommandIs ==
  ASSUME NEW c \in Calls
  PROVE  LoadCmd(c) \in Command /\ StopCmd \in Command /\ MoveCmd \in Command
BY DEF Command

LEMMA ChannelKept == TypeOK /\ [Next]_vars => ChannelType'
<1>. SUFFICES ASSUME TypeOK, [Next]_vars
              PROVE  ChannelType'
  OBVIOUS
<1>1. ChannelType /\ BoundsAssumption
  BY BoundsAssumption DEF TypeOK
<1>2. StopCmd \in Command /\ MoveCmd \in Command
  BY DEF Command
<1>3. CASE TakeLoad \/ ServeStop \/ ServeMove
  <2>1. queue # <<>> /\ queue' = Tail(queue) /\ UNCHANGED callers
    BY <1>3 DEF TakeLoad, ServeStop, ServeMove
  <2>2. queue' \in Seq(Command)
    BY <1>1, <2>1, HeadTail DEF ChannelType
  <2>. QED BY <1>1, <2>1, <2>2 DEF ChannelType, callers
<1>4. CASE SendStop \/ EndpointMoves
  <2>1. UNCHANGED callers /\ (queue' = Append(queue, StopCmd) \/ queue' = Append(queue, MoveCmd))
    BY <1>4 DEF SendStop, EndpointMoves
  <2>2. queue' \in Seq(Command)
    BY <1>1, <1>2, <2>1, Push DEF ChannelType
  <2>. QED BY <1>1, <2>1, <2>2 DEF ChannelType, callers
<1>5. ASSUME NEW c \in Calls, IssueLoad(c)
      PROVE  ChannelType'
  <2>1. LoadCmd(c) \in Command
    BY <1>5 DEF Command
  <2>2. queue' \in Seq(Command)
    BY <1>1, <1>5, <2>1, Push DEF ChannelType, IssueLoad
  <2>. QED BY <1>1, <1>5, <2>2 DEF ChannelType, IssueLoad
<1>6. ASSUME NEW c \in Calls, CallerStep(c)
      PROVE  ChannelType'
  BY <1>1, <1>6 DEF ChannelType, CallerStep, ReceiveReply, GiveUp
<1>7. CASE SendReply
  <2>1. UNCHANGED <<queue, call>> /\ (UNCHANGED replied \/ replied' = [replied EXCEPT ![cur] = result])
    BY <1>7 DEF SendReply
  <2>2. result \in {"no", "ok", "err"}
    BY DEF TypeOK, ServingType
  <2>. QED BY <1>1, <2>1, <2>2 DEF ChannelType
<1>8. CASE UNCHANGED <<queue, callers>>
  BY <1>1, <1>8 DEF ChannelType, callers
<1>9. CASE \/ LoadOnce \/ Reconnect \/ RetryLoad \/ Commit \/ Recheck \/ Deliver \/ Tick \/ Probe \/ Recovered
           \/ Environment \/ SessionEnded
  <2>1. UNCHANGED <<queue, callers>>
    BY <1>9 DEF LoadOnce, Reconnect, RetryLoad, Commit, Recheck, Deliver, Tick, ReconnectTick, PingFails,
                ProbeSkipped, BeginProbe, Probe, Recovered, Environment, GraceElapses, GuardElapses,
                LinkBreaks, Stolen, PlayerChanges, SessionEnded
  <2>. QED BY <1>8, <2>1
<1>. QED BY <1>3, <1>4, <1>5, <1>6, <1>7, <1>8, <1>9 DEF Next, WorkerStep, Load, vars

LEMMA ServingKept == TypeOK /\ [Next]_vars => ServingType'
<1>. SUFFICES ASSUME TypeOK, [Next]_vars
              PROVE  ServingType'
  OBVIOUS
<1>1. ServingType /\ made \in 0..MaxMedia /\ MaxMedia \in Nat /\ BoundsAssumption
  BY BoundsAssumption DEF TypeOK, SpeakerType, BoundsAssumption
<1>2. CASE TakeLoad
  <2>1. Head(queue) \in Command /\ Head(queue).op = "LOAD"
    BY <1>2, HeadTail DEF TakeLoad, TypeOK, ChannelType
  <2>2. Head(queue).call \in Calls
    BY <2>1 DEF Command, LoadCmd, StopCmd, MoveCmd
  <2>. QED BY <1>1, <1>2, <2>2 DEF TakeLoad, ServingType, WorkerPcs
<1>3. CASE LoadOnce
  <2>1. fresh' = fresh \/ (made < MaxMedia /\ fresh' = made + 1)
    BY <1>3 DEF LoadOnce
  <2>2. fresh' \in Medias \cup {None}
    BY <1>1, <2>1 DEF ServingType, Medias
  <2>3. cur' = cur /\ pc' \in WorkerPcs /\ result' \in {"ok", "err"}
    BY <1>1, <1>3 DEF LoadOnce, ServingType, WorkerPcs
  <2>. QED BY <1>1, <2>2, <2>3 DEF ServingType
<1>4. CASE Reconnect \/ RetryLoad \/ Commit \/ Recheck \/ Deliver \/ SendReply
  <2>1. cur' = cur /\ fresh' \in {fresh, None} /\ result' \in {result, "ok", "err"} /\ pc' \in WorkerPcs
    BY <1>1, <1>4 DEF Reconnect, RetryLoad, Commit, Recheck, Deliver, SendReply, serving, WorkerPcs
  <2>. QED BY <1>1, <2>1 DEF ServingType
<1>5. CASE Probe
  <2>1. cur' \in {cur, Self} /\ fresh' = fresh /\ result' = result /\ pc' \in WorkerPcs
    BY <1>1, <1>5 DEF Probe, Owned, Inconclusive, SuspectReconnect, LostSignal, AttemptReload, WorkerPcs
  <2>. QED BY <1>1, <2>1 DEF ServingType
<1>6. CASE BeginProbe \/ Recovered
  BY <1>1, <1>6 DEF BeginProbe, Recovered, ServingType, serving, WorkerPcs
<1>7. CASE UNCHANGED <<pc, serving>>
  BY <1>1, <1>7 DEF ServingType, serving
<1>8. CASE ServeStop \/ ServeMove \/ ReconnectTick \/ PingFails \/ ProbeSkipped \/ Environment \/ SessionEnded
           \/ SendStop \/ EndpointMoves \/ (\E c \in Calls : IssueLoad(c) \/ CallerStep(c))
  <2>1. UNCHANGED <<pc, serving>>
    BY <1>8 DEF ServeStop, ServeMove, ReconnectTick, PingFails, ProbeSkipped, Environment, GraceElapses,
                GuardElapses, LinkBreaks, Stolen, PlayerChanges, SessionEnded, SendStop, EndpointMoves,
                IssueLoad, CallerStep, ReceiveReply, GiveUp
  <2>. QED BY <1>7, <2>1
<1>. QED BY <1>2, <1>3, <1>4, <1>5, <1>6, <1>7, <1>8 DEF Next, WorkerStep, Load, Tick, vars

\* The streaks' ranges and the flags, each by themselves.
LEMMA TrackingIs ==
  ASSUME active' \in Medias \cup {None}, lossStreak' \in {0, 1}, bufferingStreak' \in 0..BufferingStuckProbes,
         settled' \in BOOLEAN, reloadAttempted' \in BOOLEAN
  PROVE  TrackingType'
<1>1. lossStreak' \in 0..(OwnershipLossConfirmations - 1)
  BY DEF OwnershipLossConfirmations
<1>. QED BY <1>1 DEF TrackingType

LEMMA Zero == 0 \in 0..BufferingStuckProbes /\ None \in Medias \cup {None} /\ 0 \in {0, 1}
BY DEF BufferingStuckProbes

LEMMA TrackingNow ==
  ASSUME TypeOK
  PROVE  /\ active \in Medias \cup {None} /\ lossStreak \in {0, 1} /\ bufferingStreak \in 0..BufferingStuckProbes
         /\ settled \in BOOLEAN /\ reloadAttempted \in BOOLEAN
<1>1. TrackingType
  BY DEF TypeOK
<1>2. lossStreak \in {0, 1}
  BY <1>1 DEF TrackingType, OwnershipLossConfirmations
<1>. QED BY <1>1, <1>2 DEF TrackingType

LEMMA ClearedIs == ClearActive => TrackingType'
<1>. SUFFICES ASSUME ClearActive
              PROVE  TrackingType'
  OBVIOUS
<1>1. settled' \in BOOLEAN /\ reloadAttempted' \in BOOLEAN
  BY DEF ClearActive
<1>2. active' = None /\ lossStreak' = 0 /\ bufferingStreak' = 0
  BY DEF ClearActive
<1>. QED BY <1>1, <1>2, Zero, TrackingIs

\* NoteLost clears what is tracked or counts one more signal.
LEMMA NoteLostIs ==
  ASSUME TypeOK, NEW tried \in BOOLEAN, NEW buffered \in 0..BufferingStuckProbes, NoteLost(tried, buffered)
  PROVE  /\ TrackingType'
         /\ \/ lossStreak = 1 /\ ClearActive
            \/ /\ lossStreak = 0 /\ lossStreak' = 1 /\ reloadAttempted' = tried
               /\ active' = active /\ settled' = settled
<1>1. lossStreak \in {0, 1}
  BY TrackingNow
<1>2. CASE lossStreak = 1
  <2>1. ClearActive
    BY <1>2 DEF NoteLost, Declare, LossConfirmed, OwnershipLossConfirmations
  <2>. QED BY <1>2, <2>1, ClearedIs
<1>3. CASE lossStreak = 0
  <2>1. ~LossConfirmed(lossStreak + 1) /\ lossStreak + 1 = 1
    BY <1>3 DEF LossConfirmed, OwnershipLossConfirmations
  <2>2. lossStreak' = 1 /\ reloadAttempted' = tried /\ bufferingStreak' = buffered
        /\ active' = active /\ settled' = settled
    BY <2>1 DEF NoteLost
  <2>3. TrackingType'
    BY <2>2, TrackingNow, TrackingIs
  <2>. QED BY <1>3, <2>2, <2>3
<1>. QED BY <1>1, <1>2, <1>3

LEMMA BufferingIs ==
  ASSUME TypeOK, NEW seen
  PROVE  Buffering(seen) \in 0..BufferingStuckProbes
BY DEF TypeOK, TrackingType, Buffering, BufferingStuckProbes

LEMMA TrackingKept == TypeOK /\ [Next]_vars => TrackingType'
<1>. SUFFICES ASSUME TypeOK, [Next]_vars
              PROVE  TrackingType'
  OBVIOUS
<1>1. fresh \in Medias \cup {None}
  BY DEF TypeOK, ServingType
<1>2. ASSUME SetActive(fresh)
      PROVE  TrackingType'
  <2>1. settled' \in BOOLEAN /\ reloadAttempted' \in BOOLEAN
    BY <1>2 DEF SetActive
  <2>2. active' = fresh /\ lossStreak' = 0 /\ bufferingStreak' = 0
    BY <1>2 DEF SetActive
  <2>. QED BY <1>1, <2>1, <2>2, Zero, TrackingIs
<1>3. ASSUME UNCHANGED tracking
      PROVE  TrackingType'
  BY <1>3, TrackingNow, TrackingIs DEF tracking, streaks
<1>4. ASSUME lossStreak' \in {lossStreak, 0}, bufferingStreak' \in 0..BufferingStuckProbes,
             UNCHANGED <<active, settled>>, reloadAttempted' \in BOOLEAN
      PROVE  TrackingType'
  BY <1>4, TrackingNow, TrackingIs
<1>5. CASE Commit \/ Recheck \/ Deliver \/ SendReply \/ ServeStop \/ ServeMove
  <2>1. ClearActive \/ SetActive(fresh) \/ UNCHANGED tracking
    BY <1>5 DEF Commit, Recheck, Deliver, SendReply, StopUnreceived, ServeStop, ServeMove, StopMedia
  <2>. QED BY <1>2, <1>3, <2>1, ClearedIs
<1>6. CASE PingFails
  <2>1. \/ UNCHANGED tracking
        \/ NoteLost(reloadAttempted, bufferingStreak)
        \/ lossStreak' = 0 /\ bufferingStreak' = 0 /\ UNCHANGED <<active, settled, reloadAttempted>>
    BY <1>6 DEF PingFails
  <2>. QED BY <1>3, <1>4, <2>1, NoteLostIs, TrackingNow, Zero
<1>7. CASE ProbeSkipped
  BY <1>4, <1>7, TrackingNow, Zero DEF ProbeSkipped
<1>8. CASE Probe
  <2>1. PICK seen \in Sightings :
          Owned(seen) \/ Inconclusive(seen) \/ SuspectReconnect(seen) \/ LostSignal(seen) \/ AttemptReload(seen)
    BY <1>8 DEF Probe
  <2>2. Buffering(seen) \in 0..BufferingStuckProbes
    BY BufferingIs
  <2>3. CASE LostSignal(seen)
    BY <2>2, <2>3, NoteLostIs, TrackingNow DEF LostSignal
  <2>4. CASE Owned(seen)
    <3>1. reloadAttempted' \in BOOLEAN
      BY <2>4 DEF Owned, OwnedResets
    <3>. QED BY <1>4, <2>2, <2>4, <3>1 DEF Owned, OwnedResets
  <2>5. CASE Inconclusive(seen) \/ SuspectReconnect(seen) \/ AttemptReload(seen)
    <3>1. UNCHANGED <<active, settled, lossStreak, reloadAttempted>> /\ bufferingStreak' \in {0, Buffering(seen)}
      BY <2>5 DEF Inconclusive, SuspectReconnect, AttemptReload
    <3>. QED BY <1>4, <2>2, <3>1, TrackingNow, Zero
  <2>. QED BY <2>1, <2>3, <2>4, <2>5
<1>9. CASE Recovered
  <2>1. \/ NoteLost(TRUE, bufferingStreak)
        \/ lossStreak' = 0 /\ bufferingStreak' = 0 /\ reloadAttempted' = FALSE /\ UNCHANGED <<active, settled>>
    BY <1>9 DEF Recovered, TriedAfter
  <2>2. ASSUME reloadAttempted' = FALSE
        PROVE  reloadAttempted' \in BOOLEAN
    BY <2>2
  <2>3. TRUE \in BOOLEAN
    OBVIOUS
  <2>. QED BY <1>4, <2>1, <2>2, <2>3, NoteLostIs, TrackingNow, Zero
<1>10. CASE GraceElapses
  <2>1. settled' \in BOOLEAN
    BY <1>10 DEF GraceElapses
  <2>2. UNCHANGED <<active, streaks>>
    BY <1>10 DEF GraceElapses
  <2>. QED BY <2>1, <2>2, TrackingNow, TrackingIs DEF streaks
<1>11. CASE TakeLoad \/ LoadOnce \/ Reconnect \/ RetryLoad \/ ReconnectTick \/ BeginProbe \/ GuardElapses
            \/ LinkBreaks \/ Stolen \/ PlayerChanges \/ SessionEnded
            \/ SendStop \/ EndpointMoves \/ (\E c \in Calls : IssueLoad(c) \/ CallerStep(c))
  <2>1. UNCHANGED tracking
    BY <1>11 DEF TakeLoad, LoadOnce, Reconnect, RetryLoad, ReconnectTick, BeginProbe, GuardElapses,
                 LinkBreaks, Stolen, PlayerChanges, SessionEnded, SendStop, EndpointMoves,
                 IssueLoad, CallerStep, ReceiveReply, GiveUp
  <2>. QED BY <1>3, <2>1
<1>12. CASE UNCHANGED vars
  BY <1>3, <1>12 DEF vars
<1>. QED BY <1>5, <1>6, <1>7, <1>8, <1>9, <1>10, <1>11, <1>12 DEF Next, WorkerStep, Load, Tick, Environment

LEMMA BridgeKept == TypeOK /\ [Next]_vars => BridgeType'
<1>. SUFFICES ASSUME TypeOK, [Next]_vars
              PROVE  BridgeType'
  OBVIOUS
<1>1. BridgeType /\ MaxEnds \in Nat /\ MaxMoves \in Nat
  BY BoundsAssumption DEF TypeOK, BoundsAssumption
<1>2. guard' \in BOOLEAN
  <2>1. guard' \in {guard, TRUE, FALSE}
    BY DEF Next, WorkerStep, Load, Tick, Environment, TakeLoad, LoadOnce, Reconnect, RetryLoad, Commit,
           Recheck, Deliver, SendReply, ServeStop, ServeMove, ReconnectTick, PingFails, ProbeSkipped,
           BeginProbe, Probe, Owned, Inconclusive, SuspectReconnect, LostSignal, AttemptReload, Recovered,
           GraceElapses, GuardElapses, LinkBreaks, Stolen, PlayerChanges, SessionEnded, SendStop,
           EndpointMoves, IssueLoad, CallerStep, ReceiveReply, GiveUp, vars
  <2>. QED BY <1>1, <2>1 DEF BridgeType
<1>3. standDown' \in BOOLEAN
  <2>1. standDown' \in {standDown, TRUE, FALSE}
    BY DEF Next, WorkerStep, Load, Tick, Environment, TakeLoad, LoadOnce, Reconnect, RetryLoad, Commit,
           Recheck, Deliver, SendReply, ServeStop, ServeMove, ReconnectTick, PingFails, ProbeSkipped,
           BeginProbe, Probe, Recovered, SetActive,
           GraceElapses, GuardElapses, LinkBreaks, Stolen, PlayerChanges, SessionEnded, SendStop,
           EndpointMoves, IssueLoad, CallerStep, ReceiveReply, GiveUp, vars
  <2>. QED BY <1>1, <2>1 DEF BridgeType
<1>4. ending' \in BOOLEAN /\ ends' \in 0..MaxEnds /\ moves' \in 0..MaxMoves
  <2>1. CASE SessionEnded
    <3>1. ending' \in BOOLEAN /\ moves' = moves
      BY <2>1 DEF SessionEnded
    <3>2. ends < MaxEnds /\ ends' = ends + 1
      BY <2>1 DEF SessionEnded
    <3>. QED BY <1>1, <3>1, <3>2 DEF BridgeType
  <2>2. CASE SendStop
    BY <1>1, <2>2 DEF BridgeType, SendStop
  <2>3. CASE EndpointMoves
    BY <1>1, <2>3 DEF BridgeType, EndpointMoves
  <2>4. CASE UNCHANGED bridge
    BY <1>1, <2>4 DEF BridgeType, bridge
  <2>5. CASE WorkerStep \/ Environment \/ (\E c \in Calls : IssueLoad(c) \/ CallerStep(c)) \/ UNCHANGED vars
    <3>1. UNCHANGED bridge
      BY <2>5 DEF WorkerStep, Load, Tick, Environment, TakeLoad, LoadOnce, Reconnect, RetryLoad, Commit,
           Recheck, Deliver, SendReply, ServeStop, ServeMove, ReconnectTick, PingFails, ProbeSkipped,
           BeginProbe, Probe, Recovered, GraceElapses, GuardElapses, LinkBreaks, Stolen, PlayerChanges,
           IssueLoad, CallerStep, ReceiveReply, GiveUp, vars
    <3>. QED BY <2>4, <3>1
  <2>. QED BY <2>1, <2>2, <2>3, <2>5 DEF Next
<1>. QED BY <1>2, <1>3, <1>4 DEF BridgeType

\* StopMedia and Connect leave a connection of one of the three kinds.
LEMMA NetKept == TypeOK /\ [Next]_vars => NetType'
<1>. SUFFICES ASSUME TypeOK, [Next]_vars
              PROVE  NetType'
  OBVIOUS
<1>1. NetType /\ MaxBreaks \in Nat
  BY BoundsAssumption DEF TypeOK, BoundsAssumption
<1>2. ASSUME UNCHANGED <<link, terminal, breaks>>
      PROVE  NetType'
  BY <1>1, <1>2 DEF NetType
<1>3. ASSUME Connect, UNCHANGED breaks
      PROVE  NetType'
  <2>1. link' \in {"live", "none"} /\ terminal' \in BOOLEAN
    BY <1>1, <1>3 DEF Connect, NetType
  <2>. QED BY <1>1, <1>3, <2>1 DEF NetType
<1>4. ASSUME NEW m, StopMedia(m)
      PROVE  NetType'
  <2>1. link' \in {link, "dead", "none"} /\ UNCHANGED <<terminal, breaks>>
    BY <1>4 DEF StopMedia
  <2>. QED BY <1>1, <2>1 DEF NetType
<1>5. CASE Commit \/ Recheck \/ Deliver \/ SendReply \/ ServeStop
  <2>1. UNCHANGED <<link, terminal, breaks>> \/ (\E m : StopMedia(m))
    BY <1>5 DEF Commit, Recheck, Deliver, SendReply, StopUnreceived, ServeStop, net
  <2>. QED BY <1>2, <1>4, <2>1
<1>6. CASE ServeMove \/ ReconnectTick \/ PingFails \/ Reconnect
  <2>1. UNCHANGED <<link, terminal, breaks>> \/ (Connect /\ UNCHANGED breaks)
    BY <1>6 DEF ServeMove, ReconnectTick, PingFails, Reconnect
  <2>. QED BY <1>2, <1>3, <2>1
<1>7. CASE Probe
  <2>1. UNCHANGED <<link, terminal, breaks>> \/ (Connect /\ UNCHANGED breaks)
    BY <1>7 DEF Probe, Owned, Inconclusive, SuspectReconnect, LostSignal, AttemptReload
  <2>. QED BY <1>2, <1>3, <2>1
<1>8. CASE LinkBreaks
  <2>1. link' \in {"dead", "none"} /\ UNCHANGED terminal
    BY <1>8 DEF LinkBreaks
  <2>2. breaks' \in 0..MaxBreaks
    BY <1>1, <1>8 DEF LinkBreaks, NetType
  <2>. QED BY <1>1, <2>1, <2>2 DEF NetType
<1>9. CASE TakeLoad \/ LoadOnce \/ RetryLoad \/ ProbeSkipped \/ BeginProbe \/ Recovered
           \/ GraceElapses \/ GuardElapses \/ Stolen \/ PlayerChanges \/ SessionEnded
           \/ SendStop \/ EndpointMoves \/ (\E c \in Calls : IssueLoad(c) \/ CallerStep(c)) \/ UNCHANGED vars
  <2>1. UNCHANGED net
    BY <1>9 DEF TakeLoad, LoadOnce, RetryLoad, ProbeSkipped, BeginProbe, Recovered, GraceElapses,
                GuardElapses, Stolen, PlayerChanges, SessionEnded, SendStop, EndpointMoves,
                IssueLoad, CallerStep, ReceiveReply, GiveUp, vars
  <2>. QED BY <1>2, <2>1 DEF net
<1>. QED BY <1>5, <1>6, <1>7, <1>8, <1>9 DEF Next, WorkerStep, Load, Tick, Environment

LEMMA SpeakerKept == TypeOK /\ [Next]_vars => SpeakerType'
<1>. SUFFICES ASSUME TypeOK, [Next]_vars
              PROVE  SpeakerType'
  OBVIOUS
<1>1. SpeakerType /\ MaxMedia \in Nat \ {0} /\ MaxThefts \in Nat /\ cur \in Calls \cup {Self}
  BY BoundsAssumption DEF TypeOK, ServingType, BoundsAssumption
<1>2. ASSUME UNCHANGED speaker
      PROVE  SpeakerType'
  BY <1>1, <1>2 DEF SpeakerType, speaker
<1>3. ASSUME NEW m, StopMedia(m)
      PROVE  SpeakerType'
  <2>1. cast' \in {cast, None} /\ UNCHANGED <<player, made, loadOf, thefts>>
    BY <1>3 DEF StopMedia
  <2>. QED BY <1>1, <2>1 DEF SpeakerType
<1>4. CASE LoadOnce
  <2>1. CASE made < MaxMedia /\ made' = made + 1 /\ loadOf' = [loadOf EXCEPT ![made + 1] = cur]
             /\ cast' = made + 1 /\ player' = "playing"
    <3>1. made + 1 \in 0..MaxMedia /\ made + 1 \in Medias
      BY <1>1, <2>1 DEF SpeakerType, Medias
    <3>2. loadOf' \in [Medias -> Calls \cup {Self}]
      BY <1>1, <2>1, <3>1 DEF SpeakerType
    <3>. QED BY <1>1, <1>4, <2>1, <3>1, <3>2 DEF SpeakerType, LoadOnce
  <2>2. CASE UNCHANGED <<cast, player, made, loadOf>>
    BY <1>1, <1>4, <2>2 DEF SpeakerType, LoadOnce
  <2>. QED BY <1>4, <2>1, <2>2 DEF LoadOnce
<1>5. CASE Commit \/ Recheck \/ Deliver \/ SendReply \/ ServeStop
  <2>1. UNCHANGED speaker \/ (\E m : StopMedia(m))
    BY <1>5 DEF Commit, Recheck, Deliver, SendReply, StopUnreceived, ServeStop
  <2>. QED BY <1>2, <1>3, <2>1
<1>6. CASE Stolen
  <2>1. thefts' \in 0..MaxThefts
    BY <1>1, <1>6 DEF SpeakerType, Stolen
  <2>. QED BY <1>1, <1>6, <2>1 DEF SpeakerType, Stolen
<1>7. CASE PlayerChanges
  BY <1>1, <1>7 DEF SpeakerType, PlayerChanges
<1>8. CASE TakeLoad \/ Reconnect \/ RetryLoad \/ ServeMove \/ Tick \/ Probe \/ Recovered
           \/ GraceElapses \/ GuardElapses \/ LinkBreaks \/ SessionEnded
           \/ SendStop \/ EndpointMoves \/ (\E c \in Calls : IssueLoad(c) \/ CallerStep(c)) \/ UNCHANGED vars
  <2>1. UNCHANGED speaker
    BY <1>8 DEF TakeLoad, Reconnect, RetryLoad, ServeMove, Tick, ReconnectTick, PingFails, ProbeSkipped,
                BeginProbe, Probe, Recovered, GraceElapses, GuardElapses, LinkBreaks, SessionEnded, SendStop,
                EndpointMoves, IssueLoad, CallerStep, ReceiveReply, GiveUp, vars
  <2>. QED BY <1>2, <2>1
<1>. QED BY <1>4, <1>5, <1>6, <1>7, <1>8 DEF Next, WorkerStep, Load, Environment

\* Each step looks once or not at all, and what a recovery came to is counted.
LEMMA LooksMove ==
  ASSUME TypeOK, [Next]_vars
  PROVE  looks' \in {looks, 0, Add(looks)} /\ tries' \in {tries, 0, Add(tries)}
BY DEF Next, WorkerStep, Load, Tick, Environment, TakeLoad, LoadOnce, Reconnect, RetryLoad, Commit,
       Recheck, Deliver, SendReply, ServeStop, ServeMove, ReconnectTick, PingFails, ProbeSkipped,
       BeginProbe, Probe, Owned, Inconclusive, SuspectReconnect, LostSignal, AttemptReload, Recovered,
       GraceElapses, GuardElapses, LinkBreaks, Stolen, PlayerChanges, SessionEnded, SendStop,
       EndpointMoves, IssueLoad, CallerStep, ReceiveReply, GiveUp, Healthy, Unhealthy, looking, history, vars

LEMMA HistoryKept == TypeOK /\ [Next]_vars => HistoryType'
<1>. SUFFICES ASSUME TypeOK, [Next]_vars
              PROVE  HistoryType'
  OBVIOUS
<1>1. HistoryType
  BY DEF TypeOK
<1>2. looks' \in 0..2 /\ tries' \in 0..2
  BY <1>1, LooksMove DEF HistoryType, Add
<1>3. stopped' \in {stopped, TRUE, FALSE}
  BY DEF Next, WorkerStep, Load, Tick, Environment, TakeLoad, LoadOnce, Reconnect, RetryLoad, Commit,
         Recheck, Deliver, SendReply, ServeStop, ServeMove, ReconnectTick, PingFails, ProbeSkipped,
         BeginProbe, Probe, Recovered, GraceElapses, GuardElapses, LinkBreaks, Stolen, PlayerChanges,
         SessionEnded, SendStop, EndpointMoves, IssueLoad, CallerStep, ReceiveReply, GiveUp, history, vars
<1>. QED BY <1>1, <1>2, <1>3 DEF HistoryType

LEMMA TypeInit == Init => TypeOK
<1>. SUFFICES ASSUME Init
              PROVE  TypeOK
  OBVIOUS
<1>1. \A S : <<>> \in Seq(S)
  OBVIOUS
<1>2. ChannelType
  BY <1>1 DEF Init, ChannelType
<1>3. ServingType
  BY DEF Init, ServingType, WorkerPcs
<1>4. TrackingType
  <2>1. settled \in BOOLEAN /\ reloadAttempted \in BOOLEAN
    BY DEF Init
  <2>2. lossStreak \in 0..1 /\ bufferingStreak \in 0..3 /\ active = None
    BY DEF Init
  <2>. QED BY <2>1, <2>2 DEF TrackingType, OwnershipLossConfirmations, BufferingStuckProbes
<1>5. guard \in BOOLEAN /\ standDown \in BOOLEAN /\ ending \in BOOLEAN /\ terminal \in BOOLEAN /\ stopped \in BOOLEAN
  BY DEF Init
<1>6. BridgeType /\ NetType /\ HistoryType
  BY <1>5, BoundsAssumption DEF Init, BridgeType, NetType, HistoryType, BoundsAssumption
<1>7. SpeakerType
  BY BoundsAssumption DEF Init, SpeakerType, BoundsAssumption
<1>. QED BY <1>2, <1>3, <1>4, <1>6, <1>7 DEF TypeOK

LEMMA TypeStep == TypeOK /\ [Next]_vars => TypeOK'
BY ChannelKept, ServingKept, TrackingKept, BridgeKept, NetKept, SpeakerKept, HistoryKept DEF TypeOK

-----------------------------------------------------------------------------
(***************************************************************************)
(* Where a call is.                                                        *)
(***************************************************************************)
LEMMA TailIs ==
  ASSUME NEW S, NEW q \in Seq(S), q # <<>>
  PROVE  /\ 1 \in DOMAIN q /\ Head(q) = q[1]
         /\ \A i \in DOMAIN Tail(q) : i + 1 \in DOMAIN q /\ Tail(q)[i] = q[i + 1] /\ i \in Nat \ {0}
OBVIOUS

LEMMA PushIs ==
  ASSUME NEW S, NEW q \in Seq(S), NEW e
  PROVE  \A i \in DOMAIN Append(q, e) :
           \/ i \in DOMAIN q /\ Append(q, e)[i] = q[i]
           \/ i = Len(q) + 1 /\ Append(q, e)[i] = e
OBVIOUS

LEMMA LoadIs ==
  ASSUME TypeOK, NEW i \in DOMAIN queue, queue[i].op = "LOAD"
  PROVE  queue[i].call \in Calls /\ queue[i] = LoadCmd(queue[i].call)
<1>1. queue[i] \in Command
  BY DEF TypeOK, ChannelType
<1>. QED BY <1>1 DEF Command, LoadCmd, StopCmd, MoveCmd

\* A command taken: what was queued and is not any more is what was taken.
LEMMA TakenOut ==
  ASSUME TypeOK, CallInv, queue # <<>>, queue' = Tail(queue)
  PROVE  /\ \A c \in Calls : Queued(c)' => Queued(c) /\ Head(queue) # LoadCmd(c)
         /\ \A i, j \in DOMAIN queue' : queue'[i] = queue'[j] /\ queue'[i].op = "LOAD" => i = j
         /\ Head(queue).op = "LOAD" => Head(queue).call \in Calls /\ Queued(Head(queue).call)
<1>1. queue \in Seq(Command)
  BY DEF TypeOK, ChannelType
<1>2. /\ 1 \in DOMAIN queue /\ Head(queue) = queue[1]
      /\ \A i \in DOMAIN queue' : i + 1 \in DOMAIN queue /\ queue'[i] = queue[i + 1] /\ i \in Nat \ {0}
  BY <1>1, TailIs
<1>3. ASSUME NEW c \in Calls, Queued(c)'
      PROVE  Queued(c) /\ Head(queue) # LoadCmd(c)
  <2>1. PICK i \in DOMAIN queue' : queue'[i] = LoadCmd(c)
    BY <1>3 DEF Queued
  <2>2. i + 1 \in DOMAIN queue /\ queue[i + 1] = LoadCmd(c) /\ i + 1 # 1
    BY <1>2, <2>1
  <2>3. LoadCmd(c).op = "LOAD"
    BY DEF LoadCmd
  <2>4. queue[1] # LoadCmd(c)
    BY <1>2, <2>2, <2>3 DEF CallInv
  <2>. QED BY <1>2, <2>2, <2>4 DEF Queued
<1>4. ASSUME NEW i \in DOMAIN queue', NEW j \in DOMAIN queue', queue'[i] = queue'[j], queue'[i].op = "LOAD"
      PROVE  i = j
  <2>1. i + 1 = j + 1
    BY <1>2, <1>4 DEF CallInv
  <2>. QED BY <1>2, <2>1
<1>5. ASSUME Head(queue).op = "LOAD"
      PROVE  Head(queue).call \in Calls /\ Queued(Head(queue).call)
  BY <1>2, <1>5, LoadIs DEF Queued
<1>. QED BY <1>3, <1>4, <1>5

LEMMA CallStep == TypeOK /\ CallInv /\ [Next]_vars => CallInv'
<1>. SUFFICES ASSUME TypeOK, CallInv, [Next]_vars
              PROVE  CallInv'
  OBVIOUS
<1>1. queue \in Seq(Command) /\ cur \in Calls \cup {Self} /\ Self \notin Calls
      /\ call \in [Calls -> {"unsent", "waiting", "expired", "abandoned", "answered", "gone"}]
      /\ replied \in [Calls -> {"no", "ok", "err"}]
  BY DEF TypeOK, ChannelType, ServingType, Self, Calls
<1>2. ASSUME NEW c \in Calls, IssueLoad(c)
      PROVE  CallInv'
  <2>1. queue' = Append(queue, LoadCmd(c)) /\ call[c] = "unsent" /\ call' = [call EXCEPT ![c] = "waiting"]
        /\ UNCHANGED <<replied, pc, cur>>
    BY <1>2 DEF IssueLoad, serving
  <2>2. \A i \in DOMAIN queue' : \/ i \in DOMAIN queue /\ queue'[i] = queue[i]
                                 \/ i = Len(queue) + 1 /\ queue'[i] = LoadCmd(c)
    BY <1>1, <2>1, PushIs
  <2>3. \A i \in DOMAIN queue : queue[i] # LoadCmd(c)
    BY <2>1 DEF CallInv, Queued
  <2>4. \A d \in Calls : d # c => LoadCmd(d) # LoadCmd(c)
    BY DEF LoadCmd
  <2>5. \A d \in Calls : Queued(d)' => d = c \/ Queued(d)
    BY <2>2, <2>4 DEF Queued
  <2>6. \A i, j \in DOMAIN queue' : queue'[i] = queue'[j] /\ queue'[i].op = "LOAD" => i = j
    BY <2>2, <2>3 DEF CallInv
  <2>7. \A d \in Calls : d # c => call'[d] = call[d]
    BY <1>1, <2>1
  <2>8. call'[c] # "unsent"
    BY <1>1, <2>1
  <2>. QED BY <2>1, <2>5, <2>6, <2>7, <2>8 DEF CallInv, Working
<1>3. ASSUME NEW c \in Calls, CallerStep(c)
      PROVE  CallInv'
  <2>1. \A d \in Calls : call'[d] = "unsent" => call[d] = "unsent"
    BY <1>1, <1>3 DEF CallerStep, ReceiveReply, GiveUp
  <2>2. UNCHANGED <<queue, replied, pc, cur>>
    BY <1>3 DEF CallerStep, ReceiveReply, GiveUp, serving
  <2>. QED BY <2>1, <2>2 DEF CallInv, Working, Queued
<1>4. CASE TakeLoad
  <2>1. queue # <<>> /\ queue' = Tail(queue) /\ Head(queue).op = "LOAD" /\ cur' = Head(queue).call
        /\ pc = "idle" /\ UNCHANGED <<call, replied>>
    BY <1>4 DEF TakeLoad, callers
  <2>2. PICK d \in Calls : d = Head(queue).call /\ Queued(d) /\ Head(queue) = LoadCmd(d)
    <3>1. 1 \in DOMAIN queue /\ Head(queue) = queue[1]
      BY <1>1, <2>1, TailIs
    <3>. QED BY <2>1, <3>1, LoadIs, TakenOut
  <2>3. replied[d] = "no" /\ call[d] # "unsent" /\ cur' = d
    BY <2>1, <2>2 DEF CallInv
  <2>4. \A c \in Calls : Queued(c)' => Queued(c) /\ c # d
    BY <2>1, <2>2, TakenOut
  <2>. QED BY <2>1, <2>2, <2>3, <2>4, TakenOut DEF CallInv
<1>5. CASE ServeStop \/ ServeMove
  <2>1. queue # <<>> /\ queue' = Tail(queue) /\ UNCHANGED <<call, replied, pc, cur>>
    BY <1>5 DEF ServeStop, ServeMove, callers, serving
  <2>. QED BY <2>1, TakenOut DEF CallInv, Working
<1>6. CASE SendStop \/ EndpointMoves
  <2>1. UNCHANGED <<call, replied, pc, cur>>
    BY <1>6 DEF SendStop, EndpointMoves, callers, serving
  <2>2. PICK e : queue' = Append(queue, e) /\ e.op # "LOAD"
    BY <1>6 DEF SendStop, EndpointMoves, StopCmd, MoveCmd
  <2>3. \A i \in DOMAIN queue' : \/ i \in DOMAIN queue /\ queue'[i] = queue[i]
                                 \/ i = Len(queue) + 1 /\ queue'[i] = e
    BY <1>1, <2>2, PushIs
  <2>4. \A c : LoadCmd(c) # e
    BY <2>2 DEF LoadCmd
  <2>5. \A c \in Calls : Queued(c)' => Queued(c)
    BY <2>3, <2>4 DEF Queued
  <2>6. \A i, j \in DOMAIN queue' : queue'[i] = queue'[j] /\ queue'[i].op = "LOAD" => i = j
    BY <2>2, <2>3 DEF CallInv
  <2>. QED BY <2>1, <2>5, <2>6 DEF CallInv, Working
<1>7. CASE SendReply
  <2>1. UNCHANGED <<queue, call>> /\ pc = "reply" /\ pc' = "idle"
        /\ (UNCHANGED replied \/ replied' = [replied EXCEPT ![cur] = result])
    BY <1>7 DEF SendReply
  <2>2. \A c \in Calls : c # cur => replied'[c] = replied[c]
    BY <1>1, <2>1
  <2>3. Working /\ ~Working'
    BY <2>1 DEF Working
  <2>4. \A c \in Calls : Queued(c)' => Queued(c) /\ c # cur
    BY <2>1, <2>3 DEF CallInv, Queued
  <2>. QED BY <2>1, <2>2, <2>3, <2>4 DEF CallInv
<1>8. ASSUME UNCHANGED <<queue, callers>>, \A c \in Calls : (Working /\ cur = c)' => Working /\ cur = c
      PROVE  CallInv'
  BY <1>8 DEF CallInv, Queued, callers
<1>9. CASE LoadOnce \/ Reconnect \/ RetryLoad \/ Commit \/ Recheck \/ Deliver
  <2>1. UNCHANGED <<queue, callers, cur>> /\ Working
    BY <1>9 DEF LoadOnce, Reconnect, RetryLoad, Commit, Recheck, Deliver, serving, Working
  <2>. QED BY <1>8, <2>1
<1>10. CASE Probe
  <2>1. UNCHANGED <<queue, callers>> /\ (cur' = Self \/ pc' = "idle")
    BY <1>10 DEF Probe, Owned, Inconclusive, SuspectReconnect, LostSignal, AttemptReload
  <2>. QED BY <1>1, <1>8, <2>1 DEF Working
<1>11. CASE Tick \/ Recovered \/ Environment \/ SessionEnded \/ UNCHANGED vars
  <2>1. UNCHANGED <<queue, callers>> /\ (UNCHANGED <<pc, cur>> \/ pc' \in {"idle", "probing"})
    BY <1>11 DEF Tick, ReconnectTick, PingFails, ProbeSkipped, BeginProbe, Recovered, Environment,
                 GraceElapses, GuardElapses, LinkBreaks, Stolen, PlayerChanges, SessionEnded, serving, vars
  <2>. QED BY <1>8, <2>1 DEF Working
<1>. QED BY <1>2, <1>3, <1>4, <1>5, <1>6, <1>7, <1>9, <1>10, <1>11 DEF Next, WorkerStep, Load

-----------------------------------------------------------------------------
(***************************************************************************)
(* What is tracked.                                                        *)
(***************************************************************************)
LEMMA ActiveMoves ==
  ASSUME TypeOK, ServeStop \/ ServeMove \/ Tick \/ Probe \/ Recovered
  PROVE  active' \in {active, None}
<1>1. CASE ServeStop \/ ServeMove \/ ReconnectTick \/ ProbeSkipped \/ BeginProbe
  BY <1>1 DEF ServeStop, ServeMove, StopMedia, ClearActive, ReconnectTick, ProbeSkipped, BeginProbe, tracking
<1>2. CASE PingFails \/ Probe \/ Recovered
  BY <1>2 DEF PingFails, Probe, Recovered, NoteLost, Declare, ClearActive, tracking,
              Owned, Inconclusive, SuspectReconnect, LostSignal, AttemptReload
<1>. QED BY <1>1, <1>2 DEF Tick

LEMMA TrackedStep == TypeOK /\ CallInv /\ TrackedInv /\ [Next]_vars => TrackedInv'
<1>. SUFFICES ASSUME TypeOK, CallInv, TrackedInv, [Next]_vars
              PROVE  TrackedInv'
  OBVIOUS
<1>. DEFINE Before == {"idle", "probing", "wire", "failed", "again", "rewire"}
<1>1. /\ active \in 0..MaxMedia /\ fresh \in 0..MaxMedia /\ made \in 0..MaxMedia /\ MaxMedia \in Nat \ {0}
      /\ cur \in Calls \cup {Self} /\ Self \notin Calls
      /\ loadOf \in [1..MaxMedia -> Calls \cup {Self}] /\ replied \in [Calls -> {"no", "ok", "err"}]
  BY BoundsAssumption DEF TypeOK, TrackingType, ServingType, SpeakerType, ChannelType, Medias, None, Self,
                          Calls, BoundsAssumption
<1>2. ASSUME active' \in {active, None}, UNCHANGED <<loadOf, replied, made>>, pc \in Before,
             pc' \in Before \cup {"deliver"}
      PROVE  TrackedInv'
  BY <1>2 DEF TrackedInv, AnsweredFor
<1>3. CASE TakeLoad \/ Reconnect \/ RetryLoad
  <2>1. active' = active /\ UNCHANGED <<loadOf, replied, made>> /\ pc \in Before /\ pc' \in Before \cup {"deliver"}
    BY <1>3 DEF TakeLoad, Reconnect, RetryLoad, tracking, callers, speaker
  <2>. QED BY <1>2, <2>1
<1>4. CASE ServeStop \/ ServeMove \/ Tick
  <2>1. active' \in {active, None}
    BY <1>4, ActiveMoves
  <2>2. UNCHANGED <<loadOf, replied, made>> /\ pc \in Before /\ pc' \in Before
    BY <1>4 DEF ServeStop, ServeMove, StopMedia, Tick, ReconnectTick, PingFails, ProbeSkipped, BeginProbe,
                IdleTick, callers, speaker
  <2>. QED BY <1>2, <2>1, <2>2
<1>5. CASE Probe
  <2>1. active' \in {active, None}
    BY <1>5, ActiveMoves
  <2>2. UNCHANGED <<loadOf, replied, made>> /\ pc = "probing" /\ pc' \in {"idle", "wire"}
    BY <1>5 DEF Probe, Owned, Inconclusive, SuspectReconnect, LostSignal, AttemptReload, callers, speaker
  <2>. QED BY <1>2, <2>1, <2>2
<1>6. CASE Recovered
  <2>1. active' \in {active, None}
    BY <1>6, ActiveMoves
  <2>2. UNCHANGED <<loadOf, replied, made>> /\ pc = "deliver" /\ pc' = "idle" /\ cur = Self
    BY <1>6 DEF Recovered, callers, speaker
  <2>. QED BY <2>1, <2>2 DEF TrackedInv, AnsweredFor
<1>7. CASE LoadOnce
  <2>1. /\ UNCHANGED <<active, replied, cur>> /\ pc \in Before
        /\ pc' \in {"commit", "failed", "deliver"}
    BY <1>7 DEF LoadOnce, tracking, callers
  <2>2. \/ UNCHANGED <<made, loadOf>> /\ pc' # "commit"
        \/ made' = made + 1 /\ made < MaxMedia /\ loadOf' = [loadOf EXCEPT ![made + 1] = cur]
           /\ (pc' = "commit" => fresh' = made + 1)
    BY <1>7 DEF LoadOnce
  <2>3. CASE UNCHANGED <<made, loadOf>> /\ pc' # "commit"
    BY <1>2, <2>1, <2>3
  <2>4. CASE made' = made + 1 /\ made < MaxMedia /\ loadOf' = [loadOf EXCEPT ![made + 1] = cur]
             /\ (pc' = "commit" => fresh' = made + 1)
    <3>1. loadOf'[made + 1] = cur /\ \A m \in 1..made : loadOf'[m] = loadOf[m]
      BY <1>1, <2>4
    <3>2. active # None => active \in 1..made /\ AnsweredFor(active)
      BY <1>1, <2>1 DEF TrackedInv, None
    <3>3. active' # None => active' <= made' /\ AnsweredFor(active)'
      BY <1>1, <2>1, <2>4, <3>1, <3>2 DEF AnsweredFor
    <3>4. pc' = "commit" => fresh' # None /\ fresh' <= made' /\ loadOf'[fresh'] = cur'
      BY <1>1, <2>1, <2>4, <3>1 DEF None
    <3>. QED BY <2>1, <3>3, <3>4 DEF TrackedInv
  <2>. QED BY <2>2, <2>3, <2>4
<1>8. CASE Commit
  <2>1. pc = "commit" /\ UNCHANGED <<loadOf, made, replied, cur>>
    BY <1>8 DEF Commit, StopMedia, speaker, callers
  <2>2. \/ active' = None /\ pc' = "deliver"
        \/ active' = fresh /\ pc' = "installed"
    BY <1>8 DEF Commit, StopMedia, ClearActive, SetActive
  <2>. QED BY <2>1, <2>2 DEF TrackedInv, AnsweredFor
<1>9. CASE Recheck
  <2>1. pc = "installed" /\ pc' = "deliver" /\ UNCHANGED <<loadOf, made, replied, cur>>
    BY <1>9 DEF Recheck, StopMedia, speaker, callers
  <2>2. active' = None \/ (active' = active /\ result' = "ok")
    BY <1>9 DEF Recheck, StopMedia, ClearActive, tracking
  <2>. QED BY <2>1, <2>2 DEF TrackedInv, AnsweredFor
<1>10. CASE Deliver
  <2>1. pc = "deliver" /\ pc' = "reply" /\ cur # Self /\ UNCHANGED <<loadOf, made, replied, cur>>
    BY <1>10 DEF Deliver, StopMedia, speaker, callers
  <2>2. active' = None \/ (active' = active /\ result' = result)
    BY <1>10 DEF Deliver, StopMedia, ClearActive, tracking
  <2>. QED BY <2>1, <2>2 DEF TrackedInv, AnsweredFor
<1>11. CASE SendReply
  <2>1. pc = "reply" /\ pc' = "idle" /\ UNCHANGED <<loadOf, made, cur>>
    BY <1>11 DEF SendReply, StopUnreceived, StopMedia, speaker, serving
  <2>2. \/ active' = None
        \/ active' = active /\ replied' = [replied EXCEPT ![cur] = result]
    BY <1>11 DEF SendReply, StopUnreceived, StopMedia, ClearActive, tracking
  <2>3. cur \in Calls /\ replied[cur] = "no"
    BY <1>1, <2>1 DEF TrackedInv, CallInv, Working
  <2>4. CASE active' = active /\ active # None /\ replied' = [replied EXCEPT ![cur] = result]
    <3>1. loadOf[active] \in Calls \cup {Self} /\ active <= made
      BY <1>1, <2>4 DEF None, TrackedInv
    <3>2. AnsweredFor(active)'
      BY <1>1, <2>1, <2>3, <2>4, <3>1 DEF TrackedInv, AnsweredFor
    <3>. QED BY <2>1, <2>4, <3>1, <3>2 DEF TrackedInv, AnsweredFor
  <2>. QED BY <2>1, <2>2, <2>4 DEF TrackedInv
<1>12. CASE Environment \/ SessionEnded \/ SendStop \/ EndpointMoves \/ UNCHANGED vars
            \/ (\E c \in Calls : IssueLoad(c) \/ CallerStep(c))
  <2>1. UNCHANGED <<loadOf, made, replied, cur, pc, active, result, fresh>>
    BY <1>12 DEF Environment, GraceElapses, GuardElapses, LinkBreaks, Stolen, PlayerChanges, SessionEnded,
                 SendStop, EndpointMoves, IssueLoad, CallerStep, ReceiveReply, GiveUp, tracking, serving,
                 speaker, callers, vars
  <2>. QED BY <2>1 DEF TrackedInv, AnsweredFor
<1>. QED BY <1>3, <1>4, <1>5, <1>6, <1>7, <1>8, <1>9, <1>10, <1>11, <1>12 DEF Next, WorkerStep, Load

-----------------------------------------------------------------------------
(***************************************************************************)
(* Looks, streaks and recoveries.                                          *)
(***************************************************************************)
LEMMA LookRanges ==
  ASSUME TypeOK
  PROVE  looks \in 0..2 /\ tries \in 0..2 /\ lossStreak \in {0, 1} /\ cur \in Calls \cup {Self} /\ Self \notin Calls
BY TrackingNow DEF TypeOK, HistoryType, ServingType, Self, Calls

\* One more signal is at most one more look, and a failed recovery is remembered.
LEMMA SignalKeeps ==
  ASSUME TypeOK, StreakInv, NEW tried \in BOOLEAN, NEW buffered \in 0..BufferingStuckProbes,
         NoteLost(tried, buffered), looks' = Add(looks)
  PROVE  /\ lossStreak' <= looks'
         /\ active' = None \/ (active' = active /\ reloadAttempted' = tried)
         /\ active # None /\ active' = None => looks' = 2
<1>1. \/ lossStreak = 1 /\ ClearActive
      \/ lossStreak = 0 /\ lossStreak' = 1 /\ reloadAttempted' = tried /\ active' = active
  BY NoteLostIs
<1>2. lossStreak <= looks /\ looks \in 0..2
  BY LookRanges DEF StreakInv
<1>3. CASE lossStreak = 1 /\ ClearActive
  <2>1. looks' = 2
    BY <1>2, <1>3 DEF Add
  <2>. QED BY <1>3, <2>1 DEF ClearActive
<1>4. CASE lossStreak = 0 /\ lossStreak' = 1 /\ reloadAttempted' = tried /\ active' = active
  BY <1>2, <1>4 DEF Add
<1>. QED BY <1>1, <1>3, <1>4

LEMMA StreakStep == TypeOK /\ StreakInv /\ [Next]_vars => StreakInv'
<1>. SUFFICES ASSUME TypeOK, StreakInv, [Next]_vars
              PROVE  StreakInv'
  OBVIOUS
<1>1. looks \in 0..2 /\ tries \in 0..2 /\ lossStreak \in {0, 1} /\ cur \in Calls \cup {Self} /\ Self \notin Calls
  BY LookRanges
<1>2. ASSUME lossStreak' \in {0, lossStreak}, UNCHANGED <<looks, tries>>,
             active' = None \/ (UNCHANGED <<active, reloadAttempted>>),
             pc' = "probing" => active' # None, (Working /\ cur = Self)' => Working /\ cur = Self
      PROVE  StreakInv'
  BY <1>1, <1>2 DEF StreakInv
<1>3. CASE TakeLoad
  <2>1. Head(queue) \in Command /\ Head(queue).op = "LOAD"
    BY <1>3, HeadTail DEF TakeLoad, TypeOK, ChannelType
  <2>2. Head(queue).call \in Calls
    BY <2>1 DEF Command, LoadCmd, StopCmd, MoveCmd
  <2>3. cur' # Self /\ pc' = "wire" /\ UNCHANGED <<looks, tries, lossStreak, active, reloadAttempted>>
    BY <1>1, <1>3, <2>2 DEF TakeLoad, tracking, streaks, looking
  <2>. QED BY <1>2, <2>3
<1>4. CASE LoadOnce \/ Reconnect \/ RetryLoad
  <2>1. /\ pc' # "probing" /\ Working /\ cur' = cur
        /\ UNCHANGED <<looks, tries, lossStreak, active, reloadAttempted>>
    BY <1>4 DEF LoadOnce, Reconnect, RetryLoad, Working, serving, tracking, streaks, looking, history
  <2>. QED BY <1>2, <2>1
<1>5. CASE Commit
  <2>1. pc' # "probing" /\ Working /\ cur' = cur
    BY <1>5 DEF Commit, Working
  <2>2. \/ ClearActive /\ UNCHANGED <<looks, tries>>
        \/ SetActive(fresh) /\ looks' = 0 /\ tries' = 0
    BY <1>5 DEF Commit, StopMedia, looking
  <2>3. CASE ClearActive /\ UNCHANGED <<looks, tries>>
    BY <1>2, <2>1, <2>3 DEF ClearActive
  <2>4. CASE SetActive(fresh) /\ looks' = 0 /\ tries' = 0
    BY <2>1, <2>4 DEF SetActive, StreakInv
  <2>. QED BY <2>2, <2>3, <2>4
<1>6. CASE Recheck \/ Deliver \/ SendReply
  <2>1. pc' # "probing" /\ Working /\ cur' = cur /\ UNCHANGED <<looks, tries>>
    BY <1>6 DEF Recheck, Deliver, SendReply, Working, serving, looking, history
  <2>2. ClearActive \/ UNCHANGED <<lossStreak, active, reloadAttempted>>
    BY <1>6 DEF Recheck, Deliver, SendReply, StopUnreceived, StopMedia, tracking, streaks
  <2>. QED BY <1>2, <2>1, <2>2 DEF ClearActive
<1>7. CASE ServeStop \/ ServeMove
  <2>1. pc' = "idle" /\ UNCHANGED <<looks, tries>> /\ ClearActive
    BY <1>7 DEF ServeStop, ServeMove, StopMedia, looking, history
  <2>. QED BY <1>2, <2>1 DEF ClearActive, Working
<1>8. CASE PingFails
  <2>1. pc' = "idle"
    BY <1>8 DEF PingFails, IdleTick
  <2>2. \/ UNCHANGED <<tracking, looking>>
        \/ Unhealthy /\ NoteLost(reloadAttempted, bufferingStreak)
        \/ Unhealthy /\ lossStreak' = 0 /\ UNCHANGED <<active, reloadAttempted>>
    BY <1>8 DEF PingFails
  <2>3. CASE UNCHANGED <<tracking, looking>>
    BY <1>2, <2>1, <2>3 DEF tracking, streaks, looking, Working
  <2>4. CASE Unhealthy /\ NoteLost(reloadAttempted, bufferingStreak)
    <3>1. lossStreak' <= looks' /\ (active' = None \/ UNCHANGED <<active, reloadAttempted>>)
      BY <2>4, SignalKeeps, TrackingNow DEF Unhealthy
    <3>. QED BY <2>1, <2>4, <3>1 DEF StreakInv, Unhealthy, Working
  <2>5. CASE Unhealthy /\ lossStreak' = 0 /\ UNCHANGED <<active, reloadAttempted>>
    <3>1. lossStreak' <= looks'
      BY <1>1, <2>5 DEF Unhealthy, Add
    <3>. QED BY <2>1, <2>5, <3>1 DEF StreakInv, Unhealthy, Working
  <2>. QED BY <2>2, <2>3, <2>4, <2>5
<1>9. CASE ReconnectTick \/ ProbeSkipped
  <2>1. pc' = "idle" /\ UNCHANGED <<looks, tries, active, reloadAttempted>> /\ lossStreak' \in {0, lossStreak}
    BY <1>9 DEF ReconnectTick, ProbeSkipped, IdleTick, tracking, streaks, looking, history
  <2>. QED BY <1>2, <2>1 DEF Working
<1>10. CASE BeginProbe
  <2>1. pc' = "probing" /\ active # None /\ UNCHANGED <<looks, tries, lossStreak, active, reloadAttempted>>
    BY <1>10 DEF BeginProbe, ProbeStandsDown, tracking, streaks, looking, history
  <2>. QED BY <1>2, <2>1 DEF Working
<1>11. CASE Probe
  <2>1. PICK seen \in Sightings :
          Owned(seen) \/ Inconclusive(seen) \/ SuspectReconnect(seen) \/ LostSignal(seen) \/ AttemptReload(seen)
    BY <1>11 DEF Probe
  <2>2. pc = "probing" /\ active # None
    BY <1>11 DEF Probe, StreakInv
  <2>3. CASE Owned(seen)
    BY <2>3 DEF Owned, OwnedResets, Healthy, StreakInv, Working
  <2>4. CASE Inconclusive(seen) \/ SuspectReconnect(seen)
    <3>1. pc' = "idle" /\ UNCHANGED <<looks, tries, lossStreak, active, reloadAttempted>>
      BY <2>4 DEF Inconclusive, SuspectReconnect, looking
    <3>. QED BY <1>2, <3>1 DEF Working
  <2>5. CASE LostSignal(seen)
    <3>1. Unhealthy /\ NoteLost(reloadAttempted, Buffering(seen)) /\ pc' = "idle"
      BY <2>5 DEF LostSignal
    <3>2. lossStreak' <= looks' /\ (active' = None \/ UNCHANGED <<active, reloadAttempted>>)
      BY <3>1, SignalKeeps, TrackingNow, BufferingIs DEF Unhealthy
    <3>. QED BY <3>1, <3>2 DEF StreakInv, Unhealthy, Working
  <2>6. CASE AttemptReload(seen)
    <3>1. ~reloadAttempted
      BY <2>6 DEF AttemptReload, OwnershipAction, RecoverableOrLost
    <3>2. tries = 0
      BY <2>2, <3>1 DEF StreakInv
    <3>3. pc' = "wire" /\ UNCHANGED <<looks, tries, lossStreak, active, reloadAttempted>>
      BY <2>6 DEF AttemptReload, looking
    <3>. QED BY <3>2, <3>3 DEF StreakInv
  <2>. QED BY <2>1, <2>3, <2>4, <2>5, <2>6
<1>12. CASE Recovered
  <2>1. tries = 0 /\ pc' = "idle"
    BY <1>12 DEF Recovered, StreakInv, Working
  <2>2. CASE result = "ok"
    <3>1. lossStreak' = 0 /\ looks' = looks /\ tries' = tries
      BY <1>12, <2>2 DEF Recovered, looking
    <3>. QED BY <1>1, <2>1, <3>1 DEF StreakInv, Working
  <2>3. CASE result # "ok"
    <3>1. looks' = Add(looks) /\ tries' = Add(tries) /\ NoteLost(TRUE, bufferingStreak)
      BY <1>12, <2>3 DEF Recovered, TriedAfter
    <3>2. lossStreak' <= looks' /\ (active' = None \/ reloadAttempted')
      BY <3>1, SignalKeeps, TrackingNow
    <3>3. tries' = 1
      BY <2>1, <3>1 DEF Add
    <3>. QED BY <2>1, <3>2, <3>3 DEF StreakInv, Working
  <2>. QED BY <2>2, <2>3
<1>13. CASE Environment \/ SessionEnded \/ SendStop \/ EndpointMoves \/ UNCHANGED vars
            \/ (\E c \in Calls : IssueLoad(c) \/ CallerStep(c))
  <2>1. UNCHANGED <<looks, tries, lossStreak, active, reloadAttempted, pc, cur>>
    BY <1>13 DEF Environment, GraceElapses, GuardElapses, LinkBreaks, Stolen, PlayerChanges, SessionEnded,
                 SendStop, EndpointMoves, IssueLoad, CallerStep, ReceiveReply, GiveUp, tracking, streaks,
                 serving, looking, history, vars
  <2>. QED BY <2>1 DEF StreakInv, Working
<1>. QED BY <1>3, <1>4, <1>5, <1>6, <1>7, <1>8, <1>9, <1>10, <1>11, <1>12, <1>13
            DEF Next, WorkerStep, Load, Tick

LEMMA StoppedStep == TypeOK /\ StoppedInv /\ [Next]_vars => StoppedInv'
<1>. SUFFICES ASSUME TypeOK, StoppedInv, [Next]_vars
              PROVE  StoppedInv'
  OBVIOUS
<1>1. CASE TakeLoad
  BY <1>1 DEF TakeLoad, StoppedInv
<1>2. CASE ServeStop
  BY <1>2 DEF ServeStop, StopMedia, ClearActive, StoppedInv
<1>3. CASE ServeMove \/ ReconnectTick \/ PingFails \/ ProbeSkipped
  <2>1. stopped' = stopped /\ pc' = "idle"
    BY <1>3 DEF ServeMove, ReconnectTick, PingFails, ProbeSkipped, IdleTick, history
  <2>2. active' \in {active, None}
    BY <1>3, ActiveMoves DEF Tick
  <2>. QED BY <2>1, <2>2 DEF StoppedInv
<1>4. CASE BeginProbe
  BY <1>4 DEF BeginProbe, ProbeStandsDown, StoppedInv, history
<1>5. CASE LoadOnce \/ Reconnect \/ RetryLoad \/ Commit \/ Recheck \/ Deliver \/ SendReply \/ Probe \/ Recovered
  <2>1. pc # "idle" /\ stopped' = stopped
    BY <1>5 DEF LoadOnce, Reconnect, RetryLoad, Commit, Recheck, Deliver, SendReply, Probe, Recovered, history
  <2>. QED BY <2>1 DEF StoppedInv
<1>6. CASE Environment \/ SessionEnded \/ SendStop \/ EndpointMoves \/ UNCHANGED vars
            \/ (\E c \in Calls : IssueLoad(c) \/ CallerStep(c))
  <2>1. UNCHANGED <<active, pc, stopped>>
    BY <1>6 DEF Environment, GraceElapses, GuardElapses, LinkBreaks, Stolen, PlayerChanges, SessionEnded,
                SendStop, EndpointMoves, IssueLoad, CallerStep, ReceiveReply, GiveUp, tracking, history, vars
  <2>. QED BY <2>1 DEF StoppedInv
<1>. QED BY <1>1, <1>2, <1>3, <1>4, <1>5, <1>6 DEF Next, WorkerStep, Load, Tick

-----------------------------------------------------------------------------
(***************************************************************************)
(* Theorems.                                                               *)
(***************************************************************************)
LEMMA WorkerInit == Init => WorkerInv
<1>. SUFFICES ASSUME Init
              PROVE  WorkerInv
  OBVIOUS
<1>1. TypeOK
  BY TypeInit
<1>2. DOMAIN queue = {}
  BY DEF Init
<1>3. CallInv
  BY <1>2 DEF Init, CallInv, Queued, Working
<1>4. TrackedInv /\ StreakInv /\ StoppedInv
  BY DEF Init, TrackedInv, StreakInv, StoppedInv, Working
<1>. QED BY <1>1, <1>3, <1>4 DEF WorkerInv

LEMMA WorkerStays == WorkerInv /\ [Next]_vars => WorkerInv'
BY TypeStep, CallStep, TrackedStep, StreakStep, StoppedStep DEF WorkerInv

\* What the worker knows is consistent with what it told its callers, in every behaviour.
THEOREM WorkerInvariant == Spec => []WorkerInv
BY WorkerInit, WorkerStays, PTL DEF Spec

\* Every variable keeps its type.
THEOREM TypeCorrect == Spec => []TypeOK
<1>1. WorkerInv => TypeOK
  BY DEF WorkerInv
<1>. QED BY <1>1, WorkerInvariant, PTL

\* For every number of callers that give up at any moment: between operations the worker tracks
\* only media whose load() was answered with success, or its own recovery's.
THEOREM AnsweredOrGone == Spec => []TrackedIsAnswered
<1>1. WorkerInv => TrackedIsAnswered
  BY DEF WorkerInv, TrackedInv, TrackedIsAnswered, AnsweredFor
<1>. QED BY <1>1, WorkerInvariant, PTL

\* A STOP that was served leaves nothing tracked until the next LOAD.
THEOREM StopsAreFinal == Spec => []StopIsFinal
<1>1. WorkerInv => StopIsFinal
  BY DEF WorkerInv, StoppedInv, StopIsFinal
<1>. QED BY <1>1, WorkerInvariant, PTL

\* A trouble episode has at most one failed recovery.
THEOREM RecoversOnce == Spec => []OneFailedRecovery
<1>1. WorkerInv => OneFailedRecovery
  BY DEF WorkerInv, StreakInv, OneFailedRecovery
<1>. QED BY <1>1, WorkerInvariant, PTL

\* Only a second unhealthy look in a row gives the session up as taken.
LEMMA LossStep == WorkerInv /\ [Next]_vars => [Declared => looks' = 2]_vars
<1>. SUFFICES ASSUME TypeOK, StreakInv, Next, Declared
              PROVE  looks' = 2
  BY DEF WorkerInv, vars
<1>1. active # None /\ active' = None /\ queue' = queue /\ queue \in Seq(Command)
      /\ (pc \in {"idle", "probing"} \/ (pc = "deliver" /\ cur = Self))
  BY DEF Declared, TypeOK, ChannelType
<1>2. ASSUME NEW q \in Seq(Command), q # <<>>
      PROVE  Tail(q) # q
  BY <1>2
<1>3. ~(TakeLoad \/ ServeStop \/ ServeMove)
  BY <1>1, <1>2 DEF TakeLoad, ServeStop, ServeMove
<1>4. ~(LoadOnce \/ Reconnect \/ RetryLoad \/ Commit \/ Recheck \/ Deliver \/ SendReply)
  BY <1>1 DEF LoadOnce, Reconnect, RetryLoad, Commit, Recheck, Deliver, SendReply
<1>5. ~(ReconnectTick \/ ProbeSkipped \/ BeginProbe \/ Environment \/ SessionEnded \/ SendStop \/ EndpointMoves
        \/ (\E c \in Calls : IssueLoad(c) \/ CallerStep(c)))
  BY <1>1 DEF ReconnectTick, ProbeSkipped, BeginProbe, Environment, GraceElapses, GuardElapses, LinkBreaks,
              Stolen, PlayerChanges, SessionEnded, SendStop, EndpointMoves, IssueLoad, CallerStep,
              ReceiveReply, GiveUp, tracking
<1>6. CASE PingFails
  <2>1. Unhealthy /\ NoteLost(reloadAttempted, bufferingStreak)
    BY <1>1, <1>6 DEF PingFails, tracking
  <2>. QED BY <1>1, <2>1, SignalKeeps, TrackingNow DEF Unhealthy
<1>7. CASE Probe
  <2>1. PICK seen \in Sightings : LostSignal(seen)
    BY <1>1, <1>7 DEF Probe, Owned, Inconclusive, SuspectReconnect, AttemptReload
  <2>. QED BY <1>1, <2>1, SignalKeeps, TrackingNow, BufferingIs DEF Unhealthy, LostSignal
<1>8. CASE Recovered
  <2>1. looks' = Add(looks) /\ NoteLost(TRUE, bufferingStreak)
    BY <1>1, <1>8 DEF Recovered, TriedAfter
  <2>. QED BY <1>1, <2>1, SignalKeeps, TrackingNow
<1>. QED BY <1>3, <1>4, <1>5, <1>6, <1>7, <1>8 DEF Next, WorkerStep, Load, Tick

\* For every number of faults: the session is given up as taken only after two unhealthy looks
\* with no healthy one and no new LOAD in between.
THEOREM LossTakesTwoLooks == Spec => LossNeedsTwoLooks
<1>1. WorkerInv /\ [Next]_vars => [Declared => looks' = 2]_vars
  BY LossStep
<1>. QED BY <1>1, WorkerInvariant, PTL DEF Spec, LossNeedsTwoLooks
=============================================================================
