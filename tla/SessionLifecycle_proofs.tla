----------------------- MODULE SessionLifecycle_proofs -----------------------
(***************************************************************************)
(* What SessionLifecycle promises for every number of streams and re-LOADs *)
(* and in every mode: type correctness, one holder per session, no leaked  *)
(* media server, the two facts that keep a replaced session's late LOAD    *)
(* from stopping its successor (SessionInv, the inductive invariant), and  *)
(* that the slot settles on the receiver's stream (StartInv, ServesInv).   *)
(* Where sessions end through the device worker and no Cast call times     *)
(* out: no dead media comes back, and no STOP hits a newer session         *)
(* (QuietInv).  Each part has a step per action below.                     *)
(***************************************************************************)
EXTENDS SessionLifecycle, TLAPS

-----------------------------------------------------------------------------
(***************************************************************************)
(* Sequences, events and commands.                                         *)
(***************************************************************************)
LEMMA AppendType ==
  ASSUME NEW S, NEW q \in Seq(S), NEW e \in S
  PROVE  Append(q, e) \in Seq(S)
OBVIOUS

LEMMA HeadTailType ==
  ASSUME NEW S, NEW q \in Seq(S), q # <<>>
  PROVE  Head(q) \in S /\ Tail(q) \in Seq(S)
OBVIOUS

LEMMA PostType ==
  ASSUME inbox \in Seq(Event), NEW e \in Event, Post(e)
  PROVE  inbox' \in Seq(Event)
BY AppendType DEF Post

LEMMA WorkerTakesType ==
  ASSUME inbox \in Seq(Event), NEW k, WorkerTakes(k)
  PROVE  inbox' \in Seq(Event) /\ Head(inbox) \in Event
BY HeadTailType DEF WorkerTakes, Head1

LEMMA SendType ==
  ASSUME commands \in Seq(Command), NEW op \in {"LOAD", "STOP"}, NEW by \in Callers, NEW g \in Gens,
         Send(Cmd(op, by, g))
  PROVE  commands' \in Seq(Command)
<1>1. Cmd(op, by, g) \in Command
  BY DEF Cmd, Command
<1>. QED BY <1>1, AppendType DEF Send

LEMMA ServesType ==
  ASSUME commands \in Seq(Command), NEW op, Serves(op)
  PROVE  /\ commands' \in Seq(Command)
         /\ Head(commands).op \in {"LOAD", "STOP"} /\ Head(commands).by \in Callers /\ Head(commands).gen \in Gens
<1>1. Head(commands) \in Command /\ Tail(commands) \in Seq(Command)
  BY HeadTailType DEF Serves
<1>. QED BY <1>1 DEF Serves, Command

LEMMA PublishedInbox ==
  ASSUME inbox \in Seq(Event), NEW s \in Streams, PublishStarted(s)
  PROVE  inbox' \in Seq(Event)
<1>1. [kind |-> "Started", ring |-> s] \in Event
  BY DEF Event
<1>. QED BY <1>1, PostType DEF PublishStarted

LEMMA ClosedInbox ==
  ASSUME inbox \in Seq(Event), NEW s, CloseStream(s)
  PROVE  inbox' \in Seq(Event)
<1>1. [kind |-> "Ended", ring |-> None] \in Event
  BY DEF Event
<1>. QED BY <1>1, PostType DEF CloseStream

LEMMA TakenInbox ==
  ASSUME inbox \in Seq(Event), SkipStaleStart \/ AcceptStart \/ DropEnded \/ HandleEnded
  PROVE  inbox' \in Seq(Event) /\ Head(inbox) \in Event
<1>1. PICK k : WorkerTakes(k)
  BY DEF SkipStaleStart, AcceptStart, DropEnded, HandleEnded
<1>. QED BY <1>1, WorkerTakesType

LEMMA SentByStart ==
  ASSUME commands \in Seq(Command), worker.gen \in Gens, BeginLoad \/ AfterLoad
  PROVE  commands' \in Seq(Command)
<1>1. \/ commands' = commands
      \/ \E op \in {"LOAD", "STOP"} : Send(Cmd(op, "start", worker.gen))
  BY DEF BeginLoad, AfterLoad
<1>. QED BY <1>1, SendType DEF Callers

LEMMA SentBySession ==
  ASSUME commands \in Seq(Command), NEW g \in Gens,
         JoinAndEndMedia(g) \/ SendReload(g) \/ ReadLateStop(g) \/ SendDiscard(g)
  PROVE  commands' \in Seq(Command)
<1>1. \/ commands' = commands
      \/ \E op \in {"LOAD", "STOP"}, by \in Callers : Send(Cmd(op, by, g))
  BY DEF JoinAndEndMedia, SendReload, ReadLateStop, SendDiscard, Callers
<1>. QED BY <1>1, SendType

LEMMA StartedRing ==
  ASSUME NEW e \in Event, e.kind = "Started"
  PROVE  e.ring \in Streams
BY DEF Event

-----------------------------------------------------------------------------
(***************************************************************************)
(* Type correctness.                                                       *)
(***************************************************************************)
LEMMA TypeInit == Init => TypeOK
<1>. SUFFICES ASSUME Init PROVE TypeOK
  OBVIOUS
<1>1. /\ opened \in 0..MaxStreams /\ phase \in [Streams -> {"unopened", "opening", "live", "closed"}]
      /\ ringSlot \in Streams \cup {None} /\ inbox \in Seq(Event)
      /\ generation \in 0..MaxStreams
  BY BoundsAssumption DEF Init
<1>5. stopping \in BOOLEAN
  BY DEF Init
<1>6. slot \in {Idle} \cup [st : {"Starting", "Playing"}, gen : Gens]
  BY DEF Init
<1>2. worker \in {Resting, At("exited", None)} \cup [pc : StartPcs \cup {"ending"}, gen : Gens]
  BY DEF Init
<1>3. /\ ringOf \in [Gens -> Streams \cup {None}] /\ media \subseteq Gens /\ alive \subseteq Gens
      /\ lateStop \subseteq Gens /\ tear \in [Gens -> TearPcs]
      /\ policy \in [Gens -> {"StopBestEffort", "SkipStopForReplace"}]
  BY DEF Init, TearPcs
<1>4. /\ reload \in [Gens -> LoadPcs] /\ loaded \subseteq Gens /\ reloads \in [Gens -> 0..MaxReloads]
      /\ commands \in Seq(Command) /\ cast \in Gens \cup {None, Other} /\ active \in Gens \cup {None}
  BY BoundsAssumption DEF Init, LoadPcs
<1>. QED BY <1>1, <1>2, <1>3, <1>4, <1>5, <1>6 DEF TypeOK

LEMMA BeginTeardownType ==
  ASSUME TypeOK, NEW g \in Gens, NEW p \in {"StopBestEffort", "SkipStopForReplace"}, BeginTeardown(g, p)
  PROVE  /\ tear' \in [Gens -> TearPcs]
         /\ policy' \in [Gens -> {"StopBestEffort", "SkipStopForReplace"}]
<1>1. tear \in [Gens -> TearPcs] /\ policy \in [Gens -> {"StopBestEffort", "SkipStopForReplace"}]
  BY DEF TypeOK
<1>. QED BY <1>1 DEF BeginTeardown, TearPcs

LEMMA TypeStep ==
  ASSUME TypeOK, [Next]_vars
  PROVE  TypeOK'
<1>1. CASE OpenStream
  <2>1. opened' \in 0..MaxStreams
    BY <1>1, BoundsAssumption DEF TypeOK, OpenStream, Streams
  <2>2. phase' \in [Streams -> {"unopened", "opening", "live", "closed"}]
    BY <1>1, BoundsAssumption DEF TypeOK, OpenStream, Streams
  <2>3. ringSlot' \in Streams \cup {None}
    BY <1>1, BoundsAssumption DEF TypeOK, OpenStream, Streams
  <2>4. UNCHANGED <<inbox, stopping, slot, generation, worker, ringOf, media, alive, lateStop, tear, policy, reload, loaded, reloads, commands, cast, active>>
    BY <1>1 DEF OpenStream, sessions, teardown, loads, castpool, speaker
  <2>. QED BY <2>1, <2>2, <2>3, <2>4 DEF TypeOK
<1>2. ASSUME NEW s \in Streams, PublishStarted(s) PROVE TypeOK'
  <2>1. phase' \in [Streams -> {"unopened", "opening", "live", "closed"}]
    BY <1>2 DEF TypeOK, PublishStarted
  <2>2. inbox' \in Seq(Event)
    BY <1>2, PublishedInbox DEF TypeOK
  <2>3. UNCHANGED <<opened, ringSlot, stopping, slot, generation, worker, ringOf, media, alive, lateStop, tear, policy, reload, loaded, reloads, commands, cast, active>>
    BY <1>2 DEF PublishStarted, airplay, sessions, teardown, loads, castpool, speaker
  <2>. QED BY <2>1, <2>2, <2>3 DEF TypeOK
<1>3. ASSUME NEW s \in Streams, CloseStream(s) PROVE TypeOK'
  <2>1. phase' \in [Streams -> {"unopened", "opening", "live", "closed"}]
    BY <1>3 DEF TypeOK, CloseStream
  <2>2. ringSlot' \in Streams \cup {None}
    BY <1>3 DEF TypeOK, CloseStream
  <2>3. inbox' \in Seq(Event)
    BY <1>3, ClosedInbox DEF TypeOK
  <2>4. UNCHANGED <<opened, stopping, slot, generation, worker, ringOf, media, alive, lateStop, tear, policy, reload, loaded, reloads, commands, cast, active>>
    BY <1>3 DEF CloseStream, airplay, sessions, teardown, loads, castpool, speaker
  <2>. QED BY <2>1, <2>2, <2>3, <2>4 DEF TypeOK
<1>4. CASE SkipStaleStart
  <2>1. inbox' \in Seq(Event)
    BY <1>4, TakenInbox DEF TypeOK
  <2>2. UNCHANGED <<opened, phase, ringSlot, stopping, slot, generation, worker, ringOf, media, alive, lateStop, tear, policy, reload, loaded, reloads, commands, cast, active>>
    BY <1>4 DEF SkipStaleStart, airplay, sessions, teardown, loads, castpool, speaker
  <2>. QED BY <2>1, <2>2 DEF TypeOK
<1>5. CASE AcceptStart
  <2>0. UNCHANGED <<tear, policy>> \/ (slot.gen \in Gens /\ BeginTeardown(slot.gen, "SkipStopForReplace"))
    BY <1>5 DEF TypeOK, AcceptStart, teardown, Idle, Resting, At, StartPcs, TakeLiveSession, Playing
  <2>1. inbox' \in Seq(Event)
    BY <1>5, TakenInbox DEF TypeOK
  <2>2. generation' \in 0..MaxStreams
    BY <1>5, BoundsAssumption DEF TypeOK, AcceptStart, NextGeneration
  <2>3. slot' \in {Idle} \cup [st : {"Starting", "Playing"}, gen : Gens]
    BY <1>5, BoundsAssumption DEF TypeOK, AcceptStart, Idle, Starting, Playing, NextGeneration, Gens, Resting, At, StartPcs
  <2>4. worker' \in {Resting, At("exited", None)} \cup [pc : StartPcs \cup {"ending"}, gen : Gens]
    BY <1>5, BoundsAssumption DEF TypeOK, AcceptStart, At, Resting, StartPcs, NextGeneration, Gens
  <2>5. ringOf' \in [Gens -> Streams \cup {None}]
    BY <1>5, BoundsAssumption, TakenInbox, StartedRing DEF TypeOK, AcceptStart, NextGeneration, Gens, WorkerTakes, Head1
  <2>6. tear' \in [Gens -> TearPcs] /\ policy' \in [Gens -> {"StopBestEffort", "SkipStopForReplace"}]
    BY <1>5, <2>0, BeginTeardownType DEF TypeOK
  <2>7. UNCHANGED <<opened, phase, ringSlot, stopping, media, alive, lateStop, reload, loaded, reloads, commands, cast, active>>
    BY <1>5 DEF AcceptStart, airplay, sessions, loads, castpool, speaker
  <2>. QED BY <2>1, <2>2, <2>3, <2>4, <2>5, <2>6, <2>7 DEF TypeOK
<1>6. CASE AbandonStart
  <2>1. slot' \in {Idle} \cup [st : {"Starting", "Playing"}, gen : Gens]
    BY <1>6 DEF TypeOK, AbandonStart, Idle, Starting, Playing, ClearStartingIf
  <2>2. worker' \in {Resting, At("exited", None)} \cup [pc : StartPcs \cup {"ending"}, gen : Gens]
    BY <1>6 DEF TypeOK, AbandonStart, At, Resting, StartPcs
  <2>3. UNCHANGED <<opened, phase, ringSlot, inbox, stopping, generation, ringOf, media, alive, lateStop, tear, policy, reload, loaded, reloads, commands, cast, active>>
    BY <1>6 DEF AbandonStart, airplay, sessions, teardown, loads, castpool, speaker
  <2>. QED BY <2>1, <2>2, <2>3 DEF TypeOK
<1>7. CASE BeginLoad
  <2>1. worker' \in {Resting, At("exited", None)} \cup [pc : StartPcs \cup {"ending"}, gen : Gens]
    BY <1>7 DEF TypeOK, BeginLoad, At, Resting, StartPcs
  <2>2. media' \subseteq Gens
    BY <1>7 DEF TypeOK, BeginLoad, MediaShutdown, Resting, At, StartPcs
  <2>c. worker.gen \in Gens
    BY <1>7 DEF TypeOK, BeginLoad, Resting, At, StartPcs
  <2>3. commands' \in Seq(Command)
    BY <1>7, <2>c, SentByStart DEF TypeOK
  <2>4. UNCHANGED <<opened, phase, ringSlot, inbox, stopping, slot, generation, ringOf, alive, lateStop, tear, policy, reload, loaded, reloads, cast, active>>
    BY <1>7 DEF BeginLoad, airplay, sessions, teardown, loads, castpool, speaker
  <2>. QED BY <2>1, <2>2, <2>3, <2>4 DEF TypeOK
<1>8. CASE StartLoadFailed
  <2>1. slot' \in {Idle} \cup [st : {"Starting", "Playing"}, gen : Gens]
    BY <1>8 DEF TypeOK, StartLoadFailed, Idle, Starting, Playing, ClearStartingIf
  <2>2. worker' \in {Resting, At("exited", None)} \cup [pc : StartPcs \cup {"ending"}, gen : Gens]
    BY <1>8 DEF TypeOK, StartLoadFailed, At, Resting, StartPcs
  <2>3. media' \subseteq Gens
    BY <1>8 DEF TypeOK, StartLoadFailed, MediaShutdown
  <2>4. UNCHANGED <<opened, phase, ringSlot, inbox, stopping, generation, ringOf, alive, lateStop, tear, policy, reload, loaded, reloads, commands, cast, active>>
    BY <1>8 DEF StartLoadFailed, airplay, sessions, teardown, loads, castpool, speaker
  <2>. QED BY <2>1, <2>2, <2>3, <2>4 DEF TypeOK
<1>9. CASE AfterLoad
  <2>1. worker' \in {Resting, At("exited", None)} \cup [pc : StartPcs \cup {"ending"}, gen : Gens]
    BY <1>9 DEF TypeOK, AfterLoad, At, Resting, StartPcs
  <2>2. media' \subseteq Gens
    BY <1>9 DEF TypeOK, AfterLoad, MediaShutdown, Resting, At, StartPcs
  <2>c. worker.gen \in Gens
    BY <1>9 DEF TypeOK, AfterLoad, Resting, At, StartPcs
  <2>3. commands' \in Seq(Command)
    BY <1>9, <2>c, SentByStart DEF TypeOK
  <2>4. UNCHANGED <<opened, phase, ringSlot, inbox, stopping, slot, generation, ringOf, alive, lateStop, tear, policy, reload, loaded, reloads, cast, active>>
    BY <1>9 DEF AfterLoad, airplay, sessions, teardown, loads, castpool, speaker
  <2>. QED BY <2>1, <2>2, <2>3, <2>4 DEF TypeOK
<1>10. CASE InstallPlaying
  <2>0. UNCHANGED <<tear, policy>> \/ (worker.gen \in Gens /\ BeginTeardown(worker.gen, OrphanPolicy))
    BY <1>10 DEF TypeOK, InstallPlaying, teardown, Idle, Resting, At, StartPcs, TakeLiveSession, Playing
  <2>1. slot' \in {Idle} \cup [st : {"Starting", "Playing"}, gen : Gens]
    BY <1>10 DEF TypeOK, InstallPlaying, Idle, Starting, Playing, Resting, At, StartPcs
  <2>2. worker' \in {Resting, At("exited", None)} \cup [pc : StartPcs \cup {"ending"}, gen : Gens]
    BY <1>10 DEF TypeOK, InstallPlaying, At, Resting, StartPcs
  <2>3. alive' \subseteq Gens
    BY <1>10 DEF TypeOK, InstallPlaying, Resting, At, StartPcs
  <2>4. lateStop' \subseteq Gens
    BY <1>10 DEF TypeOK, InstallPlaying, Resting, At, StartPcs
  <2>p. OrphanPolicy \in {"StopBestEffort", "SkipStopForReplace"}
    BY DEF OrphanPolicy
  <2>5. tear' \in [Gens -> TearPcs] /\ policy' \in [Gens -> {"StopBestEffort", "SkipStopForReplace"}]
    BY <1>10, <2>0, <2>p, BeginTeardownType DEF TypeOK
  <2>6. UNCHANGED <<opened, phase, ringSlot, inbox, stopping, generation, ringOf, media, reload, loaded, reloads, commands, cast, active>>
    BY <1>10 DEF InstallPlaying, airplay, sessions, loads, castpool, speaker
  <2>. QED BY <2>1, <2>2, <2>3, <2>4, <2>5, <2>6 DEF TypeOK
<1>11. CASE DropEnded
  <2>1. inbox' \in Seq(Event)
    BY <1>11, TakenInbox DEF TypeOK
  <2>2. UNCHANGED <<opened, phase, ringSlot, stopping, slot, generation, worker, ringOf, media, alive, lateStop, tear, policy, reload, loaded, reloads, commands, cast, active>>
    BY <1>11 DEF DropEnded, airplay, sessions, teardown, loads, castpool, speaker
  <2>. QED BY <2>1, <2>2 DEF TypeOK
<1>12. CASE HandleEnded
  <2>0. (slot.gen \in Gens /\ BeginTeardown(slot.gen, "StopBestEffort"))
    BY <1>12 DEF TypeOK, HandleEnded, teardown, Idle, Resting, At, StartPcs, TakeLiveSession, Playing
  <2>1. inbox' \in Seq(Event)
    BY <1>12, TakenInbox DEF TypeOK
  <2>2. slot' \in {Idle} \cup [st : {"Starting", "Playing"}, gen : Gens]
    BY <1>12 DEF TypeOK, HandleEnded, Idle, Starting, Playing, TakeLiveSession
  <2>3. worker' \in {Resting, At("exited", None)} \cup [pc : StartPcs \cup {"ending"}, gen : Gens]
    BY <1>12, <2>0 DEF HandleEnded, At
  <2>4. tear' \in [Gens -> TearPcs] /\ policy' \in [Gens -> {"StopBestEffort", "SkipStopForReplace"}]
    BY <1>12, <2>0, BeginTeardownType DEF TypeOK
  <2>5. UNCHANGED <<opened, phase, ringSlot, stopping, generation, ringOf, media, alive, lateStop, reload, loaded, reloads, commands, cast, active>>
    BY <1>12 DEF HandleEnded, airplay, sessions, loads, castpool, speaker
  <2>. QED BY <2>1, <2>2, <2>3, <2>4, <2>5 DEF TypeOK
<1>13. CASE EndedTornDown
  <2>1. worker' \in {Resting, At("exited", None)} \cup [pc : StartPcs \cup {"ending"}, gen : Gens]
    BY <1>13 DEF TypeOK, EndedTornDown, At, Resting, StartPcs
  <2>2. UNCHANGED <<opened, phase, ringSlot, inbox, stopping, slot, generation, ringOf, media, alive, lateStop, tear, policy, reload, loaded, reloads, commands, cast, active>>
    BY <1>13 DEF EndedTornDown, airplay, sessions, teardown, loads, castpool, speaker
  <2>. QED BY <2>1, <2>2 DEF TypeOK
<1>14. CASE WorkerExits
  <2>1. slot' \in {Idle} \cup [st : {"Starting", "Playing"}, gen : Gens]
    BY <1>14 DEF TypeOK, WorkerExits, Idle, Starting, Playing, ClearStartingIf, Resting, At, StartPcs
  <2>2. worker' \in {Resting, At("exited", None)} \cup [pc : StartPcs \cup {"ending"}, gen : Gens]
    BY <1>14 DEF TypeOK, WorkerExits, At, Resting, StartPcs
  <2>3. media' \subseteq Gens
    BY <1>14 DEF TypeOK, WorkerExits, MediaShutdown, Resting, At, StartPcs
  <2>4. UNCHANGED <<opened, phase, ringSlot, inbox, stopping, generation, ringOf, alive, lateStop, tear, policy, reload, loaded, reloads, commands, cast, active>>
    BY <1>14 DEF WorkerExits, airplay, sessions, teardown, loads, castpool, speaker
  <2>. QED BY <2>1, <2>2, <2>3, <2>4 DEF TypeOK
<1>15. ASSUME NEW g \in Gens, MarkTeardown(g) PROVE TypeOK'
  <2>1. lateStop' \subseteq Gens
    BY <1>15 DEF TypeOK, MarkTeardown
  <2>2. tear' \in [Gens -> TearPcs]
    BY <1>15 DEF TypeOK, MarkTeardown, TearPcs
  <2>3. UNCHANGED <<opened, phase, ringSlot, inbox, stopping, slot, generation, worker, ringOf, media, alive, policy, reload, loaded, reloads, commands, cast, active>>
    BY <1>15 DEF MarkTeardown, airplay, sessions, teardown, loads, castpool, speaker
  <2>. QED BY <2>1, <2>2, <2>3 DEF TypeOK
<1>16. ASSUME NEW g \in Gens, KillSession(g) PROVE TypeOK'
  <2>1. alive' \subseteq Gens
    BY <1>16 DEF TypeOK, KillSession
  <2>2. tear' \in [Gens -> TearPcs]
    BY <1>16 DEF TypeOK, KillSession, TearPcs
  <2>3. UNCHANGED <<opened, phase, ringSlot, inbox, stopping, slot, generation, worker, ringOf, media, lateStop, policy, reload, loaded, reloads, commands, cast, active>>
    BY <1>16 DEF KillSession, airplay, sessions, teardown, loads, castpool, speaker
  <2>. QED BY <2>1, <2>2, <2>3 DEF TypeOK
<1>17. ASSUME NEW g \in Gens, JoinAndEndMedia(g) PROVE TypeOK'
  <2>1. media' \subseteq Gens
    BY <1>17 DEF TypeOK, JoinAndEndMedia, MediaShutdown
  <2>2. tear' \in [Gens -> TearPcs]
    <3>1. tear' = [tear EXCEPT ![g] = "done"] \/ tear' = [tear EXCEPT ![g] = "stop"]
      BY <1>17 DEF JoinAndEndMedia
    <3>. QED BY <3>1 DEF TypeOK, TearPcs
  <2>3. reload' \in [Gens -> LoadPcs]
    BY <1>17 DEF TypeOK, JoinAndEndMedia, LoadPcs, ReloadTo
  <2>4. commands' \in Seq(Command)
    BY <1>17, SentBySession DEF TypeOK
  <2>5. UNCHANGED <<opened, phase, ringSlot, inbox, stopping, slot, generation, worker, ringOf, alive, lateStop, policy, loaded, reloads, cast, active>>
    BY <1>17 DEF JoinAndEndMedia, airplay, sessions, teardown, loads, castpool, speaker
  <2>. QED BY <2>1, <2>2, <2>3, <2>4, <2>5 DEF TypeOK
<1>18. ASSUME NEW g \in Gens, GiveUpStop(g) PROVE TypeOK'
  <2>1. tear' \in [Gens -> TearPcs]
    BY <1>18 DEF TypeOK, GiveUpStop, TearPcs
  <2>2. UNCHANGED <<opened, phase, ringSlot, inbox, stopping, slot, generation, worker, ringOf, media, alive, lateStop, policy, reload, loaded, reloads, commands, cast, active>>
    BY <1>18 DEF GiveUpStop, airplay, sessions, teardown, loads, castpool, speaker
  <2>. QED BY <2>1, <2>2 DEF TypeOK
<1>19. ASSUME NEW g \in Gens, CheckReload(g) PROVE TypeOK'
  <2>1. reload' \in [Gens -> LoadPcs]
    BY <1>19 DEF TypeOK, CheckReload, LoadPcs, ReloadTo
  <2>2. UNCHANGED <<opened, phase, ringSlot, inbox, stopping, slot, generation, worker, ringOf, media, alive, lateStop, tear, policy, loaded, reloads, commands, cast, active>>
    BY <1>19 DEF CheckReload, airplay, sessions, teardown, loads, castpool, speaker, ReloadOnly
  <2>. QED BY <2>1, <2>2 DEF TypeOK
<1>20. ASSUME NEW g \in Gens, SendReload(g) PROVE TypeOK'
  <2>1. reload' \in [Gens -> LoadPcs]
    BY <1>20 DEF TypeOK, SendReload, LoadPcs, ReloadTo
  <2>2. commands' \in Seq(Command)
    BY <1>20, SentBySession DEF TypeOK
  <2>3. UNCHANGED <<opened, phase, ringSlot, inbox, stopping, slot, generation, worker, ringOf, media, alive, lateStop, tear, policy, loaded, reloads, cast, active>>
    BY <1>20 DEF SendReload, airplay, sessions, teardown, loads, castpool, speaker, ReloadOnly
  <2>. QED BY <2>1, <2>2, <2>3 DEF TypeOK
<1>21. ASSUME NEW g \in Gens, ReadAlive(g) PROVE TypeOK'
  <2>1. reload' \in [Gens -> LoadPcs]
    BY <1>21 DEF TypeOK, ReadAlive, LoadPcs, ReloadTo, Reported
  <2>2. UNCHANGED <<opened, phase, ringSlot, inbox, stopping, slot, generation, worker, ringOf, media, alive, lateStop, tear, policy, loaded, reloads, commands, cast, active>>
    BY <1>21 DEF ReadAlive, airplay, sessions, teardown, loads, castpool, speaker, ReloadOnly
  <2>. QED BY <2>1, <2>2 DEF TypeOK
<1>22. ASSUME NEW g \in Gens, ReadLateStop(g) PROVE TypeOK'
  <2>1. reload' \in [Gens -> LoadPcs]
    BY <1>22 DEF TypeOK, ReadLateStop, LoadPcs, ReloadTo, Reported
  <2>2. commands' \in Seq(Command)
    BY <1>22, SentBySession DEF TypeOK
  <2>3. UNCHANGED <<opened, phase, ringSlot, inbox, stopping, slot, generation, worker, ringOf, media, alive, lateStop, tear, policy, loaded, reloads, cast, active>>
    BY <1>22 DEF ReadLateStop, airplay, sessions, teardown, loads, castpool, speaker, ReloadOnly
  <2>. QED BY <2>1, <2>2, <2>3 DEF TypeOK
<1>23. ASSUME NEW g \in Gens, AcceptReload(g) PROVE TypeOK'
  <2>1. reload' \in [Gens -> LoadPcs]
    BY <1>23 DEF TypeOK, AcceptReload, LoadPcs, ReloadTo
  <2>2. UNCHANGED <<opened, phase, ringSlot, inbox, stopping, slot, generation, worker, ringOf, media, alive, lateStop, tear, policy, loaded, reloads, commands, cast, active>>
    BY <1>23 DEF AcceptReload, airplay, sessions, teardown, loads, castpool, speaker, ReloadOnly
  <2>. QED BY <2>1, <2>2 DEF TypeOK
<1>24. ASSUME NEW g \in Gens, SendDiscard(g) PROVE TypeOK'
  <2>1. reload' \in [Gens -> LoadPcs]
    BY <1>24 DEF TypeOK, SendDiscard, LoadPcs, ReloadTo
  <2>2. commands' \in Seq(Command)
    BY <1>24, SentBySession DEF TypeOK
  <2>3. UNCHANGED <<opened, phase, ringSlot, inbox, stopping, slot, generation, worker, ringOf, media, alive, lateStop, tear, policy, loaded, reloads, cast, active>>
    BY <1>24 DEF SendDiscard, airplay, sessions, teardown, loads, castpool, speaker, ReloadOnly
  <2>. QED BY <2>1, <2>2, <2>3 DEF TypeOK
<1>25. CASE ServeLoad
  <2>0. Head(commands).by \in Callers /\ Head(commands).gen \in Gens
    BY <1>25, ServesType DEF TypeOK, ServeLoad
  <2>1. worker' \in {Resting, At("exited", None)} \cup [pc : StartPcs \cup {"ending"}, gen : Gens]
    BY <1>25, <2>0 DEF TypeOK, ServeLoad, At, Resting, StartPcs, Reply
  <2>2. tear' \in [Gens -> TearPcs]
    BY <1>25, <2>0 DEF TypeOK, ServeLoad, TearPcs, Reply
  <2>3. reload' \in [Gens -> LoadPcs]
    BY <1>25, <2>0 DEF TypeOK, ServeLoad, LoadPcs, ReloadTo, Reply, Reported
  <2>4. loaded' \subseteq Gens
    BY <1>25, <2>0 DEF TypeOK, ServeLoad, Reply
  <2>5. commands' \in Seq(Command)
    BY <1>25, ServesType DEF TypeOK, ServeLoad
  <2>6. cast' \in Gens \cup {None, Other}
    BY <1>25, <2>0 DEF TypeOK, ServeLoad, Stopped
  <2>7. active' \in Gens \cup {None}
    BY <1>25, <2>0 DEF TypeOK, ServeLoad, Stopped
  <2>8. UNCHANGED <<opened, phase, ringSlot, inbox, stopping, slot, generation, ringOf, media, alive, lateStop, policy, reloads>>
    BY <1>25 DEF ServeLoad, airplay, sessions, teardown, loads, Reply
  <2>. QED BY <2>1, <2>2, <2>3, <2>4, <2>5, <2>6, <2>7, <2>8 DEF TypeOK
<1>26. CASE FailLoad
  <2>0. Head(commands).by \in Callers /\ Head(commands).gen \in Gens
    BY <1>26, ServesType DEF TypeOK, FailLoad
  <2>1. worker' \in {Resting, At("exited", None)} \cup [pc : StartPcs \cup {"ending"}, gen : Gens]
    BY <1>26, <2>0 DEF TypeOK, FailLoad, At, Resting, StartPcs, Reply
  <2>2. tear' \in [Gens -> TearPcs]
    BY <1>26, <2>0 DEF TypeOK, FailLoad, TearPcs, Reply
  <2>3. reload' \in [Gens -> LoadPcs]
    BY <1>26, <2>0 DEF TypeOK, FailLoad, LoadPcs, ReloadTo, Reply, Reported
  <2>4. loaded' \subseteq Gens
    BY <1>26, <2>0 DEF TypeOK, FailLoad, Reply
  <2>5. commands' \in Seq(Command)
    BY <1>26, ServesType DEF TypeOK, FailLoad
  <2>6. cast' \in Gens \cup {None, Other}
    BY <1>26, <2>0 DEF TypeOK, FailLoad, Stopped
  <2>7. active' \in Gens \cup {None}
    BY <1>26, <2>0 DEF TypeOK, FailLoad, Stopped
  <2>8. UNCHANGED <<opened, phase, ringSlot, inbox, stopping, slot, generation, ringOf, media, alive, lateStop, policy, reloads>>
    BY <1>26 DEF FailLoad, airplay, sessions, teardown, loads, Reply
  <2>. QED BY <2>1, <2>2, <2>3, <2>4, <2>5, <2>6, <2>7, <2>8 DEF TypeOK
<1>27. CASE ServeStop
  <2>0. Head(commands).by \in Callers /\ Head(commands).gen \in Gens
    BY <1>27, ServesType DEF TypeOK, ServeStop
  <2>1. worker' \in {Resting, At("exited", None)} \cup [pc : StartPcs \cup {"ending"}, gen : Gens]
    BY <1>27, <2>0 DEF TypeOK, ServeStop, At, Resting, StartPcs, Reply
  <2>2. tear' \in [Gens -> TearPcs]
    BY <1>27, <2>0 DEF TypeOK, ServeStop, TearPcs, Reply
  <2>3. reload' \in [Gens -> LoadPcs]
    BY <1>27, <2>0 DEF TypeOK, ServeStop, LoadPcs, ReloadTo, Reply, Reported
  <2>4. loaded' \subseteq Gens
    BY <1>27, <2>0 DEF TypeOK, ServeStop, Reply
  <2>5. commands' \in Seq(Command)
    BY <1>27, ServesType DEF TypeOK, ServeStop
  <2>6. cast' \in Gens \cup {None, Other}
    BY <1>27, <2>0 DEF TypeOK, ServeStop, Stopped
  <2>7. active' \in Gens \cup {None}
    BY <1>27, <2>0 DEF TypeOK, ServeStop, Stopped
  <2>8. UNCHANGED <<opened, phase, ringSlot, inbox, stopping, slot, generation, ringOf, media, alive, lateStop, policy, reloads>>
    BY <1>27 DEF ServeStop, airplay, sessions, teardown, loads, Reply
  <2>. QED BY <2>1, <2>2, <2>3, <2>4, <2>5, <2>6, <2>7, <2>8 DEF TypeOK
<1>28. CASE CastStolen
  <2>1. cast' \in Gens \cup {None, Other}
    BY <1>28 DEF TypeOK, CastStolen, speaker
  <2>2. active' \in Gens \cup {None}
    BY <1>28 DEF TypeOK, CastStolen, speaker
  <2>3. UNCHANGED <<opened, phase, ringSlot, inbox, stopping, slot, generation, worker, ringOf, media, alive, lateStop, tear, policy, reload, loaded, reloads, commands>>
    BY <1>28 DEF CastStolen, airplay, sessions, teardown, loads, castpool
  <2>. QED BY <2>1, <2>2, <2>3 DEF TypeOK
<1>29. CASE EndCastSession
  <2>0. UNCHANGED <<tear, policy>> \/ (slot.gen \in Gens /\ BeginTeardown(slot.gen, "StopBestEffort"))
    BY <1>29 DEF TypeOK, EndCastSession, teardown, Idle, Resting, At, StartPcs, TakeLiveSession, Playing, EndSlot
  <2>1. slot' \in {Idle} \cup [st : {"Starting", "Playing"}, gen : Gens]
    BY <1>29 DEF TypeOK, EndCastSession, Idle, Starting, Playing, EndSlot
  <2>2. tear' \in [Gens -> TearPcs] /\ policy' \in [Gens -> {"StopBestEffort", "SkipStopForReplace"}]
    BY <1>29, <2>0, BeginTeardownType DEF TypeOK
  <2>3. UNCHANGED <<opened, phase, ringSlot, inbox, stopping, generation, worker, ringOf, media, alive, lateStop, reload, loaded, reloads, commands, cast, active>>
    BY <1>29 DEF EndCastSession, airplay, sessions, loads, castpool, speaker, EndSlot
  <2>. QED BY <2>1, <2>2, <2>3 DEF TypeOK
<1>30. CASE RequestShutdown
  <2>1. stopping' \in BOOLEAN
    BY <1>30 DEF TypeOK, RequestShutdown
  <2>2. UNCHANGED <<opened, phase, ringSlot, inbox, slot, generation, worker, ringOf, media, alive, lateStop, tear, policy, reload, loaded, reloads, commands, cast, active>>
    BY <1>30 DEF RequestShutdown, airplay, sessions, teardown, loads, castpool, speaker
  <2>. QED BY <2>1, <2>2 DEF TypeOK
<1>31. CASE EndAllSessions
  <2>0. UNCHANGED <<tear, policy>> \/ (slot.gen \in Gens /\ BeginTeardown(slot.gen, "StopBestEffort"))
    BY <1>31 DEF TypeOK, EndAllSessions, teardown, Idle, Resting, At, StartPcs, TakeLiveSession, Playing, EndSlot
  <2>1. slot' \in {Idle} \cup [st : {"Starting", "Playing"}, gen : Gens]
    BY <1>31 DEF TypeOK, EndAllSessions, Idle, Starting, Playing, EndSlot
  <2>2. tear' \in [Gens -> TearPcs] /\ policy' \in [Gens -> {"StopBestEffort", "SkipStopForReplace"}]
    BY <1>31, <2>0, BeginTeardownType DEF TypeOK
  <2>3. UNCHANGED <<opened, phase, ringSlot, inbox, stopping, generation, worker, ringOf, media, alive, lateStop, reload, loaded, reloads, commands, cast, active>>
    BY <1>31 DEF EndAllSessions, airplay, sessions, loads, castpool, speaker, EndSlot
  <2>. QED BY <2>1, <2>2, <2>3 DEF TypeOK
<1>32. ASSUME NEW g \in Gens, TerminalStallEnd(g) PROVE TypeOK'
  <2>0. g \in Gens /\ BeginTeardown(g, "StopBestEffort")
    BY <1>32 DEF TerminalStallEnd
  <2>1. slot' \in {Idle} \cup [st : {"Starting", "Playing"}, gen : Gens]
    BY <1>32 DEF TypeOK, TerminalStallEnd, Idle, Starting, Playing, TakeLiveSession
  <2>2. tear' \in [Gens -> TearPcs] /\ policy' \in [Gens -> {"StopBestEffort", "SkipStopForReplace"}]
    BY <1>32, <2>0, BeginTeardownType DEF TypeOK
  <2>3. UNCHANGED <<opened, phase, ringSlot, inbox, stopping, generation, worker, ringOf, media, alive, lateStop, reload, loaded, reloads, commands, cast, active>>
    BY <1>32 DEF TerminalStallEnd, airplay, sessions, loads, castpool, speaker
  <2>. QED BY <2>1, <2>2, <2>3 DEF TypeOK
<1>33. ASSUME NEW g \in Gens, GateReload(g) PROVE TypeOK'
  <2>1. reload' \in [Gens -> LoadPcs]
    BY <1>33 DEF TypeOK, GateReload, LoadPcs, ReloadTo
  <2>r. reloads[g] + 1 \in 0..MaxReloads
    BY <1>33, BoundsAssumption DEF TypeOK, GateReload
  <2>2. reloads' \in [Gens -> 0..MaxReloads]
    BY <1>33, <2>r DEF TypeOK, GateReload
  <2>3. UNCHANGED <<opened, phase, ringSlot, inbox, stopping, slot, generation, worker, ringOf, media, alive, lateStop, tear, policy, loaded, commands, cast, active>>
    BY <1>33 DEF GateReload, airplay, sessions, teardown, loads, castpool, speaker
  <2>. QED BY <2>1, <2>2, <2>3 DEF TypeOK
<1>34. CASE UNCHANGED vars
  BY <1>34 DEF TypeOK, vars, airplay, sessions, teardown, loads, castpool, speaker
<1>. QED
  BY <1>1, <1>2, <1>3, <1>4, <1>5, <1>6, <1>7, <1>8, <1>9, <1>10, <1>11, <1>12, <1>13, <1>14, <1>15, <1>16, <1>17, <1>18, <1>19, <1>20, <1>21, <1>22, <1>23, <1>24, <1>25, <1>26, <1>27, <1>28, <1>29, <1>30, <1>31, <1>32, <1>33, <1>34 DEF Next, Receiver, WorkerStep, TeardownStep, ReloadStep, CastStep, Outside

\* Every variable keeps its type (the commands and events in flight included).
THEOREM TypeCorrect == Spec => []TypeOK
BY TypeInit, TypeStep, PTL DEF Spec

-----------------------------------------------------------------------------
(***************************************************************************)
(* What the steps do to the queue and to the sessions.                     *)
(***************************************************************************)
LEMMA QueuedType == TypeOK => Queued \subseteq Command
BY DEF Queued, TypeOK

LEMMA QueuedSend ==
  ASSUME TypeOK, NEW c \in Command, Send(c)
  PROVE  Queued' \subseteq Queued \cup {c}
<1>1. commands \in Seq(Command) /\ commands' = Append(commands, c)
  BY DEF TypeOK, Send
<1>2. ASSUME NEW i \in 1..Len(commands') PROVE commands'[i] \in Queued \cup {c}
  <2>1. CASE i \in 1..Len(commands)
    BY <1>1, <2>1 DEF Queued
  <2>2. CASE i = Len(commands) + 1
    BY <1>1, <2>2
  <2>. QED BY <1>1, <1>2, <2>1, <2>2
<1>. QED BY <1>2 DEF Queued

LEMMA QueuedServe ==
  ASSUME TypeOK, NEW op, Serves(op)
  PROVE  Queued' \subseteq Queued /\ Head(commands) \in Queued
BY DEF Queued, Serves, TypeOK

LEMMA QueuedSame == UNCHANGED commands => Queued' = Queued
BY DEF Queued

LEMMA CmdType ==
  ASSUME NEW op \in {"LOAD", "STOP"}, NEW by \in Callers, NEW g \in Gens
  PROVE  /\ Cmd(op, by, g) \in Command
         /\ Cmd(op, by, g).op = op /\ Cmd(op, by, g).by = by /\ Cmd(op, by, g).gen = g
BY DEF Cmd, Command

\* A reply moves its caller only.
LEMMA ReplyEffect ==
  ASSUME TypeOK, NEW c \in Command, NEW ok \in BOOLEAN, Reply(c, ok)
  PROVE  /\ \/ worker' = worker
            \/ worker.pc = "discard" /\ worker' = Resting
            \/ worker.pc = "loading" /\ worker'.pc \in {"landed", "failed"} /\ worker'.gen = worker.gen
         /\ \A g \in Gens : \/ reload'[g] = reload[g]
                            \/ g = c.gen /\ c.by = "reload" /\ reload'[g] \in {"landed", "accept", "none"}
                            \/ reload'[g] = "none"
         /\ \A g \in Gens : \/ tear'[g] = tear[g]
                            \/ g = c.gen /\ c.by = "teardown" /\ tear'[g] = "done"
<1>1. c.gen \in Gens /\ c.op \in {"LOAD", "STOP"} /\ c.by \in Callers
  BY DEF Command
<1>2. \/ worker' = worker
      \/ worker.pc = "discard" /\ worker' = Resting
      \/ worker.pc = "loading" /\ worker'.pc \in {"landed", "failed"} /\ worker'.gen = worker.gen
  <2>1. CASE c.by # "start" \/ worker.gen # c.gen
    BY <2>1 DEF Reply
  <2>2. CASE ~(c.by # "start" \/ worker.gen # c.gen) /\ worker.pc = "loading"
    BY <2>2 DEF Reply, At
  <2>3. CASE ~(c.by # "start" \/ worker.gen # c.gen) /\ worker.pc = "discard"
    BY <2>3 DEF Reply
  <2>4. CASE ~(c.by # "start" \/ worker.gen # c.gen) /\ worker.pc \notin {"loading", "discard"}
    BY <2>4 DEF Reply
  <2>. QED BY <2>1, <2>2, <2>3, <2>4
<1>3. \A g \in Gens : \/ reload'[g] = reload[g]
                      \/ g = c.gen /\ c.by = "reload" /\ reload'[g] \in {"landed", "accept", "none"}
                      \/ reload'[g] = "none"
  BY <1>1 DEF Reply, Reported, TypeOK
<1>4. \A g \in Gens : \/ tear'[g] = tear[g]
                      \/ g = c.gen /\ c.by = "teardown" /\ tear'[g] = "done"
  BY <1>1 DEF Reply, TypeOK
<1>. QED BY <1>2, <1>3, <1>4

\* Handing a session over for teardown touches that session only.
LEMMA BeginTeardownEffect ==
  ASSUME TypeOK, NEW g \in Gens, NEW p, BeginTeardown(g, p)
  PROVE  /\ tear'[g] = "mark" /\ policy'[g] = p
         /\ \A h \in Gens \ {g} : tear'[h] = tear[h] /\ policy'[h] = policy[h]
BY DEF TypeOK, BeginTeardown

\* Handing over a live session keeps what TeardownInv says of every session.
LEMMA HandOverTeardown ==
  ASSUME TypeOK, TeardownInv, NEW h \in Gens, h \in alive, tear[h] = "none", tear'[h] = "mark",
         \A x \in Gens \ {h} : tear'[x] = tear[x] /\ policy'[x] = policy[x],
         alive' = alive, media' = media, lateStop' = lateStop
  PROVE  TeardownInv'
<1>. SUFFICES ASSUME NEW g \in Gens
     PROVE  /\ tear'[g] \in {"mark", "kill"} => g \in alive
            /\ tear'[g] \in {"stop", "done"} => g \notin media
            /\ tear'[g] \notin {"none", "mark"} /\ policy'[g] = "SkipStopForReplace" => g \notin lateStop
  BY DEF TeardownInv
<1>1. CASE g = h
  BY <1>1
<1>2. CASE g # h
  BY <1>2 DEF TeardownInv
<1>. QED BY <1>1, <1>2

\* Handing over the session the slot plays leaves its media server to its teardown.
LEMMA HandOverMedia ==
  ASSUME TypeOK, HolderInv, NoMediaLeak, slot.st = "Playing", slot.gen \in Gens,
         tear'[slot.gen] = "mark", \A x \in Gens \ {slot.gen} : tear'[x] = tear[x], media' = media
  PROVE  NoMediaLeak'
<1>. SUFFICES ASSUME NEW g \in media PROVE ~Torn(g)'
  BY DEF NoMediaLeak
<1>1. g \in Gens /\ worker.pc \notin StartPcs
  BY DEF TypeOK, HolderInv
<1>2. CASE g = slot.gen
  BY <1>2 DEF Torn
<1>3. CASE g # slot.gen
  <2>1. slot # Playing(g)
    BY <1>3 DEF Playing
  <2>2. ~Torn(g)
    BY <1>1, <2>1 DEF NoMediaLeak
  <2>. QED BY <1>1, <1>3, <2>2 DEF Torn
<1>. QED BY <1>2, <1>3

LEMMA StartingWorker == TypeOK /\ worker.pc \in StartPcs => worker.gen \in Gens
<1>1. TypeOK => worker \in {Resting, At("exited", None)} \cup [pc : StartPcs \cup {"ending"}, gen : Gens]
  BY DEF TypeOK
<1>. QED BY <1>1 DEF Resting, At, StartPcs

\* The Cast worker serving a command preserves the invariant, whatever the command.
LEMMA ServePreserves ==
  ASSUME TypeOK, TypeOK', HolderInv, TeardownInv, ReloadInv, CommandInv, NoMediaLeak,
         UNCHANGED <<slot, generation, media, alive, lateStop, policy>>,
         Queued' \subseteq Queued, Queued \subseteq Command, NEW c \in Queued,
         \/ worker' = worker
         \/ worker.pc = "discard" /\ worker' = Resting
         \/ worker.pc = "loading" /\ worker'.pc \in {"landed", "failed"} /\ worker'.gen = worker.gen,
         \A g \in Gens : \/ reload'[g] = reload[g]
                         \/ g = c.gen /\ c.by = "reload" /\ reload'[g] \in {"landed", "accept", "none"}
                         \/ reload'[g] = "none",
         \A g \in Gens : \/ tear'[g] = tear[g]
                         \/ g = c.gen /\ c.by = "teardown" /\ tear'[g] = "done"
  PROVE  HolderInv' /\ TeardownInv' /\ ReloadInv' /\ CommandInv' /\ NoMediaLeak'
<1>1. c.gen \in Gens /\ (c.by = "teardown" => tear[c.gen] \in {"stop", "done"})
      /\ (c.by = "reload" => c.gen \in alive \/ Killed(c.gen))
  BY DEF CommandInv, Command
<1>2. slot' = slot /\ generation' = generation /\ media' = media /\ alive' = alive /\ lateStop' = lateStop /\ policy' = policy
  OBVIOUS
<1>3. \A g \in Gens : tear[g] \in {"none", "mark", "kill", "join"} => tear'[g] = tear[g]
  BY <1>1
<1>4. \A g \in Gens : tear[g] \in {"stop", "done"} => tear'[g] \in {"stop", "done"}
  BY <1>1
<1>5. \A g \in Gens : (Killed(g) <=> Killed(g)') /\ (tear'[g] \in {"none", "mark", "kill", "join"} => tear'[g] = tear[g])
      /\ (tear'[g] \in {"stop", "done"} => tear[g] \in {"stop", "done"})
  <2>. SUFFICES ASSUME NEW g \in Gens PROVE (Killed(g) <=> Killed(g)') /\ (tear'[g] \in {"none", "mark", "kill", "join"} => tear'[g] = tear[g])
      /\ (tear'[g] \in {"stop", "done"} => tear[g] \in {"stop", "done"})
    OBVIOUS
  <2>. QED BY <1>1 DEF Killed
<1>6. HolderInv'
  <2>1. worker'.pc \in StartPcs => worker.pc \in StartPcs /\ worker'.gen = worker.gen
    BY DEF StartPcs, Resting, At
  <2>2. worker'.pc \in {"prebuffer", "discard"} => worker' = worker
    BY DEF Resting, At
  <2>3. worker.pc \in StartPcs => worker.gen \in Gens
    BY StartingWorker
  <2>4. slot.st = "Playing" => slot.gen \in Gens
    BY DEF TypeOK, Idle
  <2>. QED BY <1>2, <1>3, <2>1, <2>2, <2>3, <2>4 DEF HolderInv, Idle
<1>7. TeardownInv'
  BY <1>2, <1>5 DEF TeardownInv
<1>8. ReloadInv'
  BY <1>1, <1>2, <1>5 DEF ReloadInv
<1>9. CommandInv'
  <2>. SUFFICES ASSUME NEW d \in Queued' PROVE
     /\ d.by = "reload" => d.gen \in alive' \/ Killed(d.gen)'
     /\ d.by = "teardown" => tear'[d.gen] \in {"stop", "done"}
     /\ d.op = "STOP" /\ d.by # "start" => Killed(d.gen)' /\ policy'[d.gen] = "StopBestEffort"
    BY DEF CommandInv
  <2>1. d \in Queued /\ d.gen \in Gens
    BY DEF Command
  <2>. QED BY <1>2, <1>4, <1>5, <2>1 DEF CommandInv
<1>10. NoMediaLeak'
  <2>. SUFFICES ASSUME NEW g \in media PROVE (worker.pc \in StartPcs /\ worker.gen = g)' \/ (slot = Playing(g))' \/ (~Torn(g))'
    BY <1>2 DEF NoMediaLeak
  <2>1. g \in Gens /\ tear[g] \notin {"stop", "done"}
    BY DEF TypeOK, TeardownInv
  <2>2. tear'[g] = tear[g]
    BY <2>1, <1>1
  <2>3. worker.pc \in StartPcs /\ worker.gen = g => worker'.pc \in StartPcs /\ worker'.gen = g
    BY DEF HolderInv, StartPcs
  <2>. QED BY <1>2, <2>2, <2>3 DEF NoMediaLeak, Torn, Playing
<1>. QED BY <1>6, <1>7, <1>8, <1>9, <1>10

-----------------------------------------------------------------------------
\* Every step preserves the parts of SessionInv.
LEMMA SessionStep ==
  ASSUME SessionInv, [Next]_vars, TypeOK'
  PROVE  HolderInv' /\ TeardownInv' /\ ReloadInv' /\ CommandInv' /\ NoMediaLeak'
<1>. USE BoundsAssumption DEF Gens, Streams, None, Idle, Starting, Playing, Resting, At, StartPcs, TearPcs, LoadPcs,
     airplay, sessions, teardown, loads, speaker, castpool, ReloadTo, ReloadOnly, IsCurrent, StartingStill, ClearStartingIf,
     TakeLiveSession, MediaShutdown, NextGeneration, Killed, Torn, WorkerTakes, Callers
<1>t. TypeOK /\ TypeOK'
  BY DEF SessionInv
<1>i. HolderInv /\ TeardownInv /\ ReloadInv /\ CommandInv /\ NoMediaLeak
  BY DEF SessionInv
<1>q. Queued \subseteq Command
  BY <1>t, QueuedType
<1>1. CASE OpenStream
  <2>q. Queued' = Queued
    BY <1>1, QueuedSame DEF OpenStream, EndSlot
  <2>k. /\ \A x \in Gens : Killed(x) => Killed(x)' /\ policy'[x] = policy[x]
        /\ \A x \in Gens : x \in alive => x \in alive' \/ Killed(x)'
    BY <1>1, <1>t, <1>i DEF TypeOK, OpenStream
  <2>1. HolderInv'
    BY <1>1, <1>t, <1>i, <2>k DEF HolderInv, OpenStream
  <2>2. TeardownInv'
    BY <1>1, <1>t, <1>i, <2>k DEF TeardownInv, OpenStream
  <2>3. ReloadInv'
    BY <1>1, <1>t, <1>i, <2>k DEF ReloadInv, OpenStream
  <2>4. CommandInv'
    BY <1>1, <1>t, <1>i, <1>q, <2>q, <2>k DEF CommandInv, OpenStream
  <2>5. NoMediaLeak'
    BY <1>1, <1>t, <1>i, <2>k DEF NoMediaLeak, OpenStream
  <2>. QED BY <2>1, <2>2, <2>3, <2>4, <2>5
<1>2. ASSUME NEW s \in Streams, PublishStarted(s)
      PROVE  HolderInv' /\ TeardownInv' /\ ReloadInv' /\ CommandInv' /\ NoMediaLeak'
  <2>q. Queued' = Queued
    BY <1>2, QueuedSame DEF PublishStarted, EndSlot
  <2>k. /\ \A x \in Gens : Killed(x) => Killed(x)' /\ policy'[x] = policy[x]
        /\ \A x \in Gens : x \in alive => x \in alive' \/ Killed(x)'
    BY <1>2, <1>t, <1>i DEF TypeOK, PublishStarted
  <2>1. HolderInv'
    BY <1>2, <1>t, <1>i, <2>k DEF HolderInv, PublishStarted
  <2>2. TeardownInv'
    BY <1>2, <1>t, <1>i, <2>k DEF TeardownInv, PublishStarted
  <2>3. ReloadInv'
    BY <1>2, <1>t, <1>i, <2>k DEF ReloadInv, PublishStarted
  <2>4. CommandInv'
    BY <1>2, <1>t, <1>i, <1>q, <2>q, <2>k DEF CommandInv, PublishStarted
  <2>5. NoMediaLeak'
    BY <1>2, <1>t, <1>i, <2>k DEF NoMediaLeak, PublishStarted
  <2>. QED BY <2>1, <2>2, <2>3, <2>4, <2>5
<1>3. ASSUME NEW s \in Streams, CloseStream(s)
      PROVE  HolderInv' /\ TeardownInv' /\ ReloadInv' /\ CommandInv' /\ NoMediaLeak'
  <2>q. Queued' = Queued
    BY <1>3, QueuedSame DEF CloseStream, EndSlot
  <2>k. /\ \A x \in Gens : Killed(x) => Killed(x)' /\ policy'[x] = policy[x]
        /\ \A x \in Gens : x \in alive => x \in alive' \/ Killed(x)'
    BY <1>3, <1>t, <1>i DEF TypeOK, CloseStream
  <2>1. HolderInv'
    BY <1>3, <1>t, <1>i, <2>k DEF HolderInv, CloseStream
  <2>2. TeardownInv'
    BY <1>3, <1>t, <1>i, <2>k DEF TeardownInv, CloseStream
  <2>3. ReloadInv'
    BY <1>3, <1>t, <1>i, <2>k DEF ReloadInv, CloseStream
  <2>4. CommandInv'
    BY <1>3, <1>t, <1>i, <1>q, <2>q, <2>k DEF CommandInv, CloseStream
  <2>5. NoMediaLeak'
    BY <1>3, <1>t, <1>i, <2>k DEF NoMediaLeak, CloseStream
  <2>. QED BY <2>1, <2>2, <2>3, <2>4, <2>5
<1>4. CASE SkipStaleStart
  <2>q. Queued' = Queued
    BY <1>4, QueuedSame DEF SkipStaleStart, EndSlot
  <2>k. /\ \A x \in Gens : Killed(x) => Killed(x)' /\ policy'[x] = policy[x]
        /\ \A x \in Gens : x \in alive => x \in alive' \/ Killed(x)'
    BY <1>4, <1>t, <1>i DEF TypeOK, SkipStaleStart
  <2>1. HolderInv'
    BY <1>4, <1>t, <1>i, <2>k DEF HolderInv, SkipStaleStart
  <2>2. TeardownInv'
    BY <1>4, <1>t, <1>i, <2>k DEF TeardownInv, SkipStaleStart
  <2>3. ReloadInv'
    BY <1>4, <1>t, <1>i, <2>k DEF ReloadInv, SkipStaleStart
  <2>4. CommandInv'
    BY <1>4, <1>t, <1>i, <1>q, <2>q, <2>k DEF CommandInv, SkipStaleStart
  <2>5. NoMediaLeak'
    BY <1>4, <1>t, <1>i, <2>k DEF NoMediaLeak, SkipStaleStart
  <2>. QED BY <2>1, <2>2, <2>3, <2>4, <2>5
<1>5. CASE AcceptStart
  <2>q. Queued' = Queued
    BY <1>5, QueuedSame DEF AcceptStart, EndSlot
  <2>b. slot.st = "Playing" => /\ slot.gen \in Gens /\ tear[slot.gen] = "none"
          /\ tear'[slot.gen] = "mark" /\ (policy'[slot.gen] = "StopBestEffort" \/ policy'[slot.gen] = "SkipStopForReplace")
          /\ \A h \in Gens \ {slot.gen} : tear'[h] = tear[h] /\ policy'[h] = policy[h]
    BY <1>5, <1>t, <1>i, BeginTeardownEffect DEF TypeOK, HolderInv, AcceptStart
  <2>n. ~(slot.st = "Playing") => UNCHANGED <<tear, policy>>
    BY <1>5 DEF AcceptStart
  <2>k. /\ \A x \in Gens : Killed(x) => Killed(x)' /\ policy'[x] = policy[x]
        /\ \A x \in Gens : x \in alive => x \in alive' \/ Killed(x)'
    BY <1>5, <1>t, <1>i, <2>b, <2>n DEF TypeOK, AcceptStart
  <2>s. /\ generation \in Nat /\ generation + 1 \in Gens /\ generation' = generation + 1 /\ worker.pc = "idle"
        /\ slot' = Starting(generation + 1) /\ worker' = At("prebuffer", generation + 1)
        /\ alive' = alive /\ media' = media /\ lateStop' = lateStop
    BY <1>5, <1>t DEF TypeOK, AcceptStart
  <2>t. \A x \in Gens : x > generation => tear'[x] = "none" /\ x \notin alive
    <3>1. CASE slot.st = "Playing"
      BY <1>i, <2>b, <2>s, <3>1 DEF HolderInv
    <3>2. CASE slot.st # "Playing"
      BY <1>i, <2>n, <2>s, <3>2 DEF HolderInv
    <3>. QED BY <3>1, <3>2
  <2>m. generation + 1 \notin media
    <3>. SUFFICES ASSUME generation + 1 \in media PROVE FALSE
      OBVIOUS
    <3>1. tear[generation + 1] = "none"
      BY <1>i, <2>s DEF HolderInv
    <3>2. slot = Playing(generation + 1)
      BY <1>i, <2>s, <3>1 DEF NoMediaLeak
    <3>. QED BY <1>i, <2>s, <3>2 DEF HolderInv
  <2>1. HolderInv'
    BY <2>s, <2>t, <2>m DEF HolderInv
  <2>2. TeardownInv'
    <3>1. CASE slot.st = "Playing"
      <4>1. slot.gen \in alive
        BY <1>i, <3>1 DEF HolderInv
      <4>. QED BY <1>t, <1>i, <2>b, <2>s, <3>1, <4>1, HandOverTeardown
    <3>2. CASE slot.st # "Playing"
      BY <1>t, <1>i, <2>n, <2>s, <3>2 DEF TeardownInv
    <3>. QED BY <3>1, <3>2
  <2>3. ReloadInv'
    BY <1>5, <1>t, <1>i, <2>b, <2>n, <2>k DEF ReloadInv, AcceptStart
  <2>4. CommandInv'
    BY <1>5, <1>t, <1>i, <2>b, <2>n, <1>q, <2>q, <2>k DEF CommandInv, Command, AcceptStart
  <2>5. ASSUME NEW h \in media'
       PROVE  (worker.pc \in StartPcs /\ worker.gen = h)' \/ (slot = Playing(h))' \/ (~Torn(h))'
    <3>1. h \in media /\ h \in Gens
      BY <1>5, <1>t, <1>i, <2>b, <2>n, <2>k DEF TypeOK, AcceptStart
    <3>2. CASE slot = Playing(h)
      BY <3>1, <3>2, <1>5, <1>t, <1>i, <2>b, <2>n, <2>k DEF AcceptStart
    <3>3. CASE worker.pc \in StartPcs /\ worker.gen = h
      BY <3>1, <3>3, <1>5, <1>t, <1>i, <2>b, <2>n, <2>k DEF HolderInv, AcceptStart
    <3>4. CASE ~Torn(h)
      BY <3>1, <3>4, <1>5, <1>t, <1>i, <2>b, <2>n, <2>k DEF AcceptStart
    <3>. QED BY <3>1, <3>2, <3>3, <3>4, <1>i DEF NoMediaLeak
  <2>. QED BY <2>1, <2>2, <2>3, <2>4, <2>5 DEF NoMediaLeak
<1>6. CASE AbandonStart
  <2>q. Queued' = Queued
    BY <1>6, QueuedSame DEF AbandonStart, EndSlot
  <2>k. /\ \A x \in Gens : Killed(x) => Killed(x)' /\ policy'[x] = policy[x]
        /\ \A x \in Gens : x \in alive => x \in alive' \/ Killed(x)'
    BY <1>6, <1>t, <1>i DEF TypeOK, AbandonStart
  <2>1. HolderInv'
    BY <1>6, <1>t, <1>i, <2>k DEF HolderInv, AbandonStart
  <2>2. TeardownInv'
    BY <1>6, <1>t, <1>i, <2>k DEF TeardownInv, AbandonStart
  <2>3. ReloadInv'
    BY <1>6, <1>t, <1>i, <2>k DEF ReloadInv, AbandonStart
  <2>4. CommandInv'
    BY <1>6, <1>t, <1>i, <1>q, <2>q, <2>k DEF CommandInv, AbandonStart
  <2>5. NoMediaLeak'
    BY <1>6, <1>t, <1>i, <2>k DEF TypeOK, HolderInv, NoMediaLeak, AbandonStart
  <2>. QED BY <2>1, <2>2, <2>3, <2>4, <2>5
<1>7. CASE BeginLoad
  <2>c. worker.gen \in Gens
    BY <1>7, <1>t DEF BeginLoad, TypeOK
  <2>q. Queued' \subseteq Queued \cup {Cmd("LOAD", "start", worker.gen)}
    BY <1>7, <1>t, <2>c, QueuedSend, QueuedSame, CmdType DEF BeginLoad
  <2>k. /\ \A x \in Gens : Killed(x) => Killed(x)' /\ policy'[x] = policy[x]
        /\ \A x \in Gens : x \in alive => x \in alive' \/ Killed(x)'
    BY <1>7, <1>t, <1>i, <2>c DEF TypeOK, BeginLoad
  <2>1. HolderInv'
    BY <1>7, <1>t, <1>i, <2>c, <2>k DEF HolderInv, BeginLoad
  <2>2. TeardownInv'
    BY <1>7, <1>t, <1>i, <2>c, <2>k DEF TypeOK, HolderInv, TeardownInv, BeginLoad
  <2>3. ReloadInv'
    BY <1>7, <1>t, <1>i, <2>c, <2>k DEF ReloadInv, BeginLoad
  <2>4. CommandInv'
    BY <1>7, <1>t, <1>i, <2>c, <1>q, <2>q, <2>k DEF TypeOK, CommandInv, Command, Cmd, BeginLoad
  <2>5. NoMediaLeak'
    BY <1>7, <1>t, <1>i, <2>c, <2>k DEF NoMediaLeak, BeginLoad
  <2>. QED BY <2>1, <2>2, <2>3, <2>4, <2>5
<1>8. CASE StartLoadFailed
  <2>q. Queued' = Queued
    BY <1>8, QueuedSame DEF StartLoadFailed, EndSlot
  <2>k. /\ \A x \in Gens : Killed(x) => Killed(x)' /\ policy'[x] = policy[x]
        /\ \A x \in Gens : x \in alive => x \in alive' \/ Killed(x)'
    BY <1>8, <1>t, <1>i DEF TypeOK, StartLoadFailed
  <2>1. HolderInv'
    BY <1>8, <1>t, <1>i, <2>k DEF HolderInv, StartLoadFailed
  <2>2. TeardownInv'
    BY <1>8, <1>t, <1>i, <2>k DEF TeardownInv, StartLoadFailed
  <2>3. ReloadInv'
    BY <1>8, <1>t, <1>i, <2>k DEF ReloadInv, StartLoadFailed
  <2>4. CommandInv'
    BY <1>8, <1>t, <1>i, <1>q, <2>q, <2>k DEF CommandInv, StartLoadFailed
  <2>5. NoMediaLeak'
    BY <1>8, <1>t, <1>i, <2>k DEF NoMediaLeak, StartLoadFailed
  <2>. QED BY <2>1, <2>2, <2>3, <2>4, <2>5
<1>9. CASE AfterLoad
  <2>c. worker.gen \in Gens
    BY <1>9, <1>t DEF AfterLoad, TypeOK
  <2>q. Queued' \subseteq Queued \cup {Cmd("STOP", "start", worker.gen)}
    BY <1>9, <1>t, <2>c, QueuedSend, QueuedSame, CmdType DEF AfterLoad
  <2>k. /\ \A x \in Gens : Killed(x) => Killed(x)' /\ policy'[x] = policy[x]
        /\ \A x \in Gens : x \in alive => x \in alive' \/ Killed(x)'
    BY <1>9, <1>t, <1>i, <2>c DEF TypeOK, AfterLoad
  <2>1. HolderInv'
    BY <1>9, <1>t, <1>i, <2>c, <2>k DEF HolderInv, AfterLoad
  <2>2. TeardownInv'
    BY <1>9, <1>t, <1>i, <2>c, <2>k DEF TeardownInv, AfterLoad
  <2>3. ReloadInv'
    BY <1>9, <1>t, <1>i, <2>c, <2>k DEF ReloadInv, AfterLoad
  <2>4. CommandInv'
    BY <1>9, <1>t, <1>i, <2>c, <1>q, <2>q, <2>k DEF TypeOK, CommandInv, Command, Cmd, AfterLoad
  <2>5. NoMediaLeak'
    BY <1>9, <1>t, <1>i, <2>c, <2>k DEF NoMediaLeak, AfterLoad
  <2>. QED BY <2>1, <2>2, <2>3, <2>4, <2>5
<1>10. CASE InstallPlaying
  <2>q. Queued' = Queued
    BY <1>10, QueuedSame DEF InstallPlaying, EndSlot
  <2>b. ~StartingStill(worker.gen) => /\ worker.gen \in Gens /\ tear[worker.gen] = "none"
          /\ tear'[worker.gen] = "mark" /\ (policy'[worker.gen] = "StopBestEffort" \/ policy'[worker.gen] = "SkipStopForReplace")
          /\ \A h \in Gens \ {worker.gen} : tear'[h] = tear[h] /\ policy'[h] = policy[h]
    BY <1>10, <1>t, <1>i, BeginTeardownEffect DEF TypeOK, HolderInv, InstallPlaying, OrphanPolicy
  <2>n. ~(~StartingStill(worker.gen)) => UNCHANGED <<tear, policy>>
    BY <1>10 DEF InstallPlaying, OrphanPolicy
  <2>k. /\ \A x \in Gens : Killed(x) => Killed(x)' /\ policy'[x] = policy[x]
        /\ \A x \in Gens : x \in alive => x \in alive' \/ Killed(x)'
    BY <1>10, <1>t, <1>i, <2>b, <2>n DEF TypeOK, InstallPlaying, OrphanPolicy
  <2>1. HolderInv'
    BY <1>10, <1>t, <1>i, <2>b, <2>n, <2>k DEF HolderInv, InstallPlaying, OrphanPolicy
  <2>2. TeardownInv'
    BY <1>10, <1>t, <1>i, <2>b, <2>n, <2>k DEF TypeOK, HolderInv, TeardownInv, InstallPlaying, OrphanPolicy
  <2>3. ReloadInv'
    BY <1>10, <1>t, <1>i, <2>b, <2>n, <2>k DEF ReloadInv, InstallPlaying, OrphanPolicy
  <2>4. CommandInv'
    BY <1>10, <1>t, <1>i, <2>b, <2>n, <1>q, <2>q, <2>k DEF CommandInv, Command, InstallPlaying, OrphanPolicy
  <2>5. NoMediaLeak'
    BY <1>10, <1>t, <1>i, <2>b, <2>n, <2>k DEF TypeOK, NoMediaLeak, InstallPlaying, OrphanPolicy
  <2>. QED BY <2>1, <2>2, <2>3, <2>4, <2>5
<1>11. CASE DropEnded
  <2>q. Queued' = Queued
    BY <1>11, QueuedSame DEF DropEnded, EndSlot
  <2>k. /\ \A x \in Gens : Killed(x) => Killed(x)' /\ policy'[x] = policy[x]
        /\ \A x \in Gens : x \in alive => x \in alive' \/ Killed(x)'
    BY <1>11, <1>t, <1>i DEF TypeOK, DropEnded, EndedIsStale
  <2>1. HolderInv'
    BY <1>11, <1>t, <1>i, <2>k DEF HolderInv, DropEnded, EndedIsStale
  <2>2. TeardownInv'
    BY <1>11, <1>t, <1>i, <2>k DEF TeardownInv, DropEnded, EndedIsStale
  <2>3. ReloadInv'
    BY <1>11, <1>t, <1>i, <2>k DEF ReloadInv, DropEnded, EndedIsStale
  <2>4. CommandInv'
    BY <1>11, <1>t, <1>i, <1>q, <2>q, <2>k DEF CommandInv, DropEnded, EndedIsStale
  <2>5. NoMediaLeak'
    BY <1>11, <1>t, <1>i, <2>k DEF NoMediaLeak, DropEnded, EndedIsStale
  <2>. QED BY <2>1, <2>2, <2>3, <2>4, <2>5
<1>12. CASE HandleEnded
  <2>q. Queued' = Queued
    BY <1>12, QueuedSame DEF HandleEnded, EndSlot
  <2>b. slot.st = "Playing" => /\ slot.gen \in Gens /\ tear[slot.gen] = "none"
          /\ tear'[slot.gen] = "mark" /\ (policy'[slot.gen] = "StopBestEffort" \/ policy'[slot.gen] = "SkipStopForReplace")
          /\ \A h \in Gens \ {slot.gen} : tear'[h] = tear[h] /\ policy'[h] = policy[h]
    BY <1>12, <1>t, <1>i, BeginTeardownEffect DEF TypeOK, HolderInv, HandleEnded, EndedIsStale
  <2>n. ~(slot.st = "Playing") => UNCHANGED <<tear, policy>>
    BY <1>12 DEF HandleEnded, EndedIsStale
  <2>s. /\ slot.st = "Playing" /\ slot.gen \in alive
        /\ alive' = alive /\ media' = media /\ lateStop' = lateStop
    BY <1>12, <1>i DEF HolderInv, HandleEnded
  <2>k. /\ \A x \in Gens : Killed(x) => Killed(x)' /\ policy'[x] = policy[x]
        /\ \A x \in Gens : x \in alive => x \in alive' \/ Killed(x)'
    BY <1>12, <1>t, <1>i, <2>b, <2>n DEF TypeOK, HandleEnded, EndedIsStale
  <2>1. HolderInv'
    BY <1>12, <1>t, <1>i, <2>b, <2>n, <2>k DEF HolderInv, HandleEnded, EndedIsStale
  <2>2. TeardownInv'
    BY <1>t, <1>i, <2>b, <2>s, HandOverTeardown
  <2>3. ReloadInv'
    BY <1>12, <1>t, <1>i, <2>b, <2>n, <2>k DEF ReloadInv, HandleEnded, EndedIsStale
  <2>4. CommandInv'
    BY <1>12, <1>t, <1>i, <2>b, <2>n, <1>q, <2>q, <2>k DEF CommandInv, Command, HandleEnded, EndedIsStale
  <2>5. NoMediaLeak'
    BY <1>t, <1>i, <2>b, <2>s, HandOverMedia
  <2>. QED BY <2>1, <2>2, <2>3, <2>4, <2>5
<1>13. CASE EndedTornDown
  <2>q. Queued' = Queued
    BY <1>13, QueuedSame DEF EndedTornDown, EndSlot
  <2>k. /\ \A x \in Gens : Killed(x) => Killed(x)' /\ policy'[x] = policy[x]
        /\ \A x \in Gens : x \in alive => x \in alive' \/ Killed(x)'
    BY <1>13, <1>t, <1>i DEF TypeOK, EndedTornDown, TornDown
  <2>1. HolderInv'
    BY <1>13, <1>t, <1>i, <2>k DEF HolderInv, EndedTornDown, TornDown
  <2>2. TeardownInv'
    BY <1>13, <1>t, <1>i, <2>k DEF TeardownInv, EndedTornDown, TornDown
  <2>3. ReloadInv'
    BY <1>13, <1>t, <1>i, <2>k DEF ReloadInv, EndedTornDown, TornDown
  <2>4. CommandInv'
    BY <1>13, <1>t, <1>i, <1>q, <2>q, <2>k DEF CommandInv, EndedTornDown, TornDown
  <2>5. NoMediaLeak'
    BY <1>13, <1>t, <1>i, <2>k DEF NoMediaLeak, EndedTornDown, TornDown
  <2>. QED BY <2>1, <2>2, <2>3, <2>4, <2>5
<1>14. CASE WorkerExits
  <2>q. Queued' = Queued
    BY <1>14, QueuedSame DEF WorkerExits, EndSlot
  <2>k. /\ \A x \in Gens : Killed(x) => Killed(x)' /\ policy'[x] = policy[x]
        /\ \A x \in Gens : x \in alive => x \in alive' \/ Killed(x)'
    BY <1>14, <1>t, <1>i DEF TypeOK, WorkerExits
  <2>1. HolderInv'
    BY <1>14, <1>t, <1>i, <2>k DEF HolderInv, WorkerExits
  <2>2. TeardownInv'
    BY <1>14, <1>t, <1>i, <2>k DEF TeardownInv, WorkerExits
  <2>3. ReloadInv'
    BY <1>14, <1>t, <1>i, <2>k DEF ReloadInv, WorkerExits
  <2>4. CommandInv'
    BY <1>14, <1>t, <1>i, <1>q, <2>q, <2>k DEF CommandInv, WorkerExits
  <2>5. NoMediaLeak'
    BY <1>14, <1>t, <1>i, <2>k DEF NoMediaLeak, WorkerExits
  <2>. QED BY <2>1, <2>2, <2>3, <2>4, <2>5
<1>15. ASSUME NEW g \in Gens, MarkTeardown(g)
      PROVE  HolderInv' /\ TeardownInv' /\ ReloadInv' /\ CommandInv' /\ NoMediaLeak'
  <2>q. Queued' = Queued
    BY <1>15, QueuedSame DEF MarkTeardown, EndSlot
  <2>k. /\ \A x \in Gens : Killed(x) => Killed(x)' /\ policy'[x] = policy[x]
        /\ \A x \in Gens : x \in alive => x \in alive' \/ Killed(x)'
    BY <1>15, <1>t, <1>i DEF TypeOK, MarkTeardown, ForbidsLateStop, SkipsStop
  <2>1. HolderInv'
    BY <1>15, <1>t, <1>i, <2>k DEF HolderInv, MarkTeardown, ForbidsLateStop, SkipsStop
  <2>2. TeardownInv'
    BY <1>15, <1>t, <1>i, <2>k DEF TeardownInv, MarkTeardown, ForbidsLateStop, SkipsStop
  <2>3. ReloadInv'
    BY <1>15, <1>t, <1>i, <2>k DEF ReloadInv, MarkTeardown, ForbidsLateStop, SkipsStop
  <2>4. CommandInv'
    BY <1>15, <1>t, <1>i, <1>q, <2>q, <2>k DEF CommandInv, MarkTeardown, ForbidsLateStop, SkipsStop
  <2>5. NoMediaLeak'
    BY <1>15, <1>t, <1>i, <2>k DEF NoMediaLeak, MarkTeardown, ForbidsLateStop, SkipsStop
  <2>. QED BY <2>1, <2>2, <2>3, <2>4, <2>5
<1>16. ASSUME NEW g \in Gens, KillSession(g)
      PROVE  HolderInv' /\ TeardownInv' /\ ReloadInv' /\ CommandInv' /\ NoMediaLeak'
  <2>q. Queued' = Queued
    BY <1>16, QueuedSame DEF KillSession, EndSlot
  <2>k. /\ \A x \in Gens : Killed(x) => Killed(x)' /\ policy'[x] = policy[x]
        /\ \A x \in Gens : x \in alive => x \in alive' \/ Killed(x)'
    BY <1>16, <1>t, <1>i DEF TypeOK, KillSession
  <2>1. HolderInv'
    BY <1>16, <1>t, <1>i, <2>k DEF HolderInv, KillSession
  <2>2. TeardownInv'
    BY <1>16, <1>t, <1>i, <2>k DEF TeardownInv, KillSession
  <2>3. ReloadInv'
    BY <1>16, <1>t, <1>i, <2>k DEF ReloadInv, KillSession
  <2>4. CommandInv'
    BY <1>16, <1>t, <1>i, <1>q, <2>q, <2>k DEF CommandInv, KillSession
  <2>5. NoMediaLeak'
    BY <1>16, <1>t, <1>i, <2>k DEF NoMediaLeak, KillSession
  <2>. QED BY <2>1, <2>2, <2>3, <2>4, <2>5
<1>17. ASSUME NEW g \in Gens, JoinAndEndMedia(g)
      PROVE  HolderInv' /\ TeardownInv' /\ ReloadInv' /\ CommandInv' /\ NoMediaLeak'
  <2>c. g \in Gens
    BY <1>17, <1>t DEF JoinAndEndMedia, TypeOK
  <2>q. Queued' \subseteq Queued \cup (IF SkipsStop(policy[g]) THEN {} ELSE {Cmd("STOP", "teardown", g)})
    BY <1>17, <1>t, <2>c, QueuedSend, QueuedSame, CmdType DEF JoinAndEndMedia
  <2>k. /\ \A x \in Gens : Killed(x) => Killed(x)' /\ policy'[x] = policy[x]
        /\ \A x \in Gens : x \in alive => x \in alive' \/ Killed(x)'
    BY <1>17, <1>t, <1>i, <2>c DEF TypeOK, JoinAndEndMedia, InflightPcs, SkipsStop
  <2>1. HolderInv'
    BY <1>17, <1>t, <1>i, <2>c, <2>k DEF TypeOK, HolderInv, JoinAndEndMedia, InflightPcs, SkipsStop
  <2>2. TeardownInv'
    BY <1>17, <1>t, <1>i, <2>c, <2>k DEF TypeOK, HolderInv, TeardownInv, NoMediaLeak, JoinAndEndMedia, InflightPcs, SkipsStop
  <2>3. ReloadInv'
    BY <1>17, <1>t, <1>i, <2>c, <2>k DEF ReloadInv, JoinAndEndMedia, InflightPcs, SkipsStop
  <2>4. ASSUME NEW d \in Queued'
       PROVE  /\ d.by = "reload" => d.gen \in alive' \/ Killed(d.gen)'
              /\ d.by = "teardown" => tear'[d.gen] \in {"stop", "done"}
              /\ d.op = "STOP" /\ d.by # "start" => Killed(d.gen)' /\ policy'[d.gen] = "StopBestEffort"
    <3>1. CASE d \in Queued
      <4>1. d.gen \in Gens
        BY <1>q, <3>1 DEF Command
      <4>2. d.by = "teardown" => d.gen # g
        BY <1>17, <1>i, <3>1 DEF JoinAndEndMedia, CommandInv
      <4>. QED BY <1>17, <1>t, <1>i, <2>k, <3>1, <4>1, <4>2 DEF CommandInv, JoinAndEndMedia, TypeOK
    <3>2. CASE d = Cmd("STOP", "teardown", g) /\ ~SkipsStop(policy[g])
      <4>1. tear' = [tear EXCEPT ![g] = "stop"] /\ policy'[g] = policy[g]
        BY <1>17, <3>2 DEF JoinAndEndMedia
      <4>2. policy[g] = "StopBestEffort" /\ tear'[g] = "stop"
        BY <1>t, <3>2, <4>1 DEF SkipsStop, TypeOK
      <4>. QED BY <2>c, <3>2, <4>1, <4>2, CmdType
    <3>. QED BY <2>q, <3>1, <3>2
  <2>5. NoMediaLeak'
    BY <1>17, <1>t, <1>i, <2>c, <2>k DEF TypeOK, NoMediaLeak, JoinAndEndMedia, InflightPcs, SkipsStop
  <2>. QED BY <2>1, <2>2, <2>3, <2>4, <2>5 DEF CommandInv
<1>18. ASSUME NEW g \in Gens, GiveUpStop(g)
      PROVE  HolderInv' /\ TeardownInv' /\ ReloadInv' /\ CommandInv' /\ NoMediaLeak'
  <2>q. Queued' = Queued
    BY <1>18, QueuedSame DEF GiveUpStop, EndSlot
  <2>k. /\ \A x \in Gens : Killed(x) => Killed(x)' /\ policy'[x] = policy[x]
        /\ \A x \in Gens : x \in alive => x \in alive' \/ Killed(x)'
    BY <1>18, <1>t, <1>i DEF TypeOK, GiveUpStop
  <2>1. HolderInv'
    BY <1>18, <1>t, <1>i, <2>k DEF HolderInv, GiveUpStop
  <2>2. TeardownInv'
    BY <1>18, <1>t, <1>i, <2>k DEF TeardownInv, GiveUpStop
  <2>3. ReloadInv'
    BY <1>18, <1>t, <1>i, <2>k DEF ReloadInv, GiveUpStop
  <2>4. CommandInv'
    BY <1>18, <1>t, <1>i, <1>q, <2>q, <2>k DEF CommandInv, GiveUpStop
  <2>5. NoMediaLeak'
    BY <1>18, <1>t, <1>i, <2>k DEF TypeOK, TeardownInv, NoMediaLeak, GiveUpStop
  <2>. QED BY <2>1, <2>2, <2>3, <2>4, <2>5
<1>19. ASSUME NEW g \in Gens, CheckReload(g)
      PROVE  HolderInv' /\ TeardownInv' /\ ReloadInv' /\ CommandInv' /\ NoMediaLeak'
  <2>q. Queued' = Queued
    BY <1>19, QueuedSame DEF CheckReload, EndSlot
  <2>k. /\ \A x \in Gens : Killed(x) => Killed(x)' /\ policy'[x] = policy[x]
        /\ \A x \in Gens : x \in alive => x \in alive' \/ Killed(x)'
    BY <1>19, <1>t, <1>i DEF TypeOK, CheckReload
  <2>1. HolderInv'
    BY <1>19, <1>t, <1>i, <2>k DEF HolderInv, CheckReload
  <2>2. TeardownInv'
    BY <1>19, <1>t, <1>i, <2>k DEF TeardownInv, CheckReload
  <2>3. ReloadInv'
    BY <1>19, <1>t, <1>i, <2>k DEF ReloadInv, CheckReload
  <2>4. CommandInv'
    BY <1>19, <1>t, <1>i, <1>q, <2>q, <2>k DEF CommandInv, CheckReload
  <2>5. NoMediaLeak'
    BY <1>19, <1>t, <1>i, <2>k DEF NoMediaLeak, CheckReload
  <2>. QED BY <2>1, <2>2, <2>3, <2>4, <2>5
<1>20. ASSUME NEW g \in Gens, SendReload(g)
      PROVE  HolderInv' /\ TeardownInv' /\ ReloadInv' /\ CommandInv' /\ NoMediaLeak'
  <2>c. g \in Gens
    BY <1>20, <1>t DEF SendReload, TypeOK
  <2>q. Queued' \subseteq Queued \cup {Cmd("LOAD", "reload", g)}
    BY <1>20, <1>t, <2>c, QueuedSend, QueuedSame, CmdType DEF SendReload
  <2>k. /\ \A x \in Gens : Killed(x) => Killed(x)' /\ policy'[x] = policy[x]
        /\ \A x \in Gens : x \in alive => x \in alive' \/ Killed(x)'
    BY <1>20, <1>t, <1>i, <2>c DEF TypeOK, SendReload
  <2>1. HolderInv'
    BY <1>20, <1>t, <1>i, <2>c, <2>k DEF HolderInv, SendReload
  <2>2. TeardownInv'
    BY <1>20, <1>t, <1>i, <2>c, <2>k DEF TeardownInv, SendReload
  <2>3. ReloadInv'
    BY <1>20, <1>t, <1>i, <2>c, <2>k DEF ReloadInv, SendReload
  <2>4. CommandInv'
    BY <1>20, <1>t, <1>i, <2>c, <1>q, <2>q, <2>k DEF TypeOK, TeardownInv, ReloadInv, CommandInv, Command, Cmd, SendReload
  <2>5. NoMediaLeak'
    BY <1>20, <1>t, <1>i, <2>c, <2>k DEF NoMediaLeak, SendReload
  <2>. QED BY <2>1, <2>2, <2>3, <2>4, <2>5
<1>21. ASSUME NEW g \in Gens, ReadAlive(g)
      PROVE  HolderInv' /\ TeardownInv' /\ ReloadInv' /\ CommandInv' /\ NoMediaLeak'
  <2>q. Queued' = Queued
    BY <1>21, QueuedSame DEF ReadAlive, EndSlot
  <2>k. /\ \A x \in Gens : Killed(x) => Killed(x)' /\ policy'[x] = policy[x]
        /\ \A x \in Gens : x \in alive => x \in alive' \/ Killed(x)'
    BY <1>21, <1>t, <1>i DEF TypeOK, ReadAlive, Reported
  <2>1. HolderInv'
    BY <1>21, <1>t, <1>i, <2>k DEF HolderInv, ReadAlive, Reported
  <2>2. TeardownInv'
    BY <1>21, <1>t, <1>i, <2>k DEF TeardownInv, ReadAlive, Reported
  <2>3. ReloadInv'
    BY <1>21, <1>t, <1>i, <2>k DEF ReloadInv, ReadAlive, Reported
  <2>4. CommandInv'
    BY <1>21, <1>t, <1>i, <1>q, <2>q, <2>k DEF CommandInv, ReadAlive, Reported
  <2>5. NoMediaLeak'
    BY <1>21, <1>t, <1>i, <2>k DEF NoMediaLeak, ReadAlive, Reported
  <2>. QED BY <2>1, <2>2, <2>3, <2>4, <2>5
<1>22. ASSUME NEW g \in Gens, ReadLateStop(g)
      PROVE  HolderInv' /\ TeardownInv' /\ ReloadInv' /\ CommandInv' /\ NoMediaLeak'
  <2>c. g \in Gens
    BY <1>22, <1>t DEF ReadLateStop, TypeOK
  <2>q. Queued' \subseteq Queued \cup (IF MayLateStop(g) THEN {Cmd("STOP", "reload", g)} ELSE {})
    BY <1>22, <1>t, <2>c, QueuedSend, QueuedSame, CmdType DEF ReadLateStop
  <2>k. /\ \A x \in Gens : Killed(x) => Killed(x)' /\ policy'[x] = policy[x]
        /\ \A x \in Gens : x \in alive => x \in alive' \/ Killed(x)'
    BY <1>22, <1>t, <1>i, <2>c DEF TypeOK, ReadLateStop, MayLateStop, Reported
  <2>1. HolderInv'
    BY <1>22, <1>t, <1>i, <2>c, <2>k DEF HolderInv, ReadLateStop, MayLateStop, Reported
  <2>2. TeardownInv'
    BY <1>22, <1>t, <1>i, <2>c, <2>k DEF TeardownInv, ReadLateStop, MayLateStop, Reported
  <2>3. ReloadInv'
    BY <1>22, <1>t, <1>i, <2>c, <2>k DEF TypeOK, ReloadInv, ReadLateStop, MayLateStop, Reported
  <2>4. ASSUME NEW d \in Queued'
       PROVE  /\ d.by = "reload" => d.gen \in alive' \/ Killed(d.gen)'
              /\ d.by = "teardown" => tear'[d.gen] \in {"stop", "done"}
              /\ d.op = "STOP" /\ d.by # "start" => Killed(d.gen)' /\ policy'[d.gen] = "StopBestEffort"
    <3>s. alive' = alive /\ tear' = tear /\ policy' = policy
      BY <1>22 DEF ReadLateStop
    <3>1. CASE d \in Queued
      BY <1>i, <3>s, <3>1 DEF CommandInv
    <3>2. CASE d = Cmd("STOP", "reload", g) /\ MayLateStop(g)
      <4>1. Killed(g) /\ g \in lateStop
        BY <1>22, <1>i, <3>2 DEF ReadLateStop, ReloadInv, MayLateStop
      <4>2. policy[g] = "StopBestEffort"
        BY <1>t, <1>i, <4>1 DEF TypeOK, TeardownInv
      <4>3. d.by = "reload" /\ d.gen = g
        BY <2>c, <3>2, CmdType
      <4>. QED BY <3>s, <4>1, <4>2, <4>3
    <3>. QED BY <2>q, <3>1, <3>2
  <2>5. NoMediaLeak'
    BY <1>22, <1>t, <1>i, <2>c, <2>k DEF NoMediaLeak, ReadLateStop, MayLateStop, Reported
  <2>. QED BY <2>1, <2>2, <2>3, <2>4, <2>5 DEF CommandInv
<1>23. ASSUME NEW g \in Gens, AcceptReload(g)
      PROVE  HolderInv' /\ TeardownInv' /\ ReloadInv' /\ CommandInv' /\ NoMediaLeak'
  <2>q. Queued' = Queued
    BY <1>23, QueuedSame DEF AcceptReload, EndSlot
  <2>k. /\ \A x \in Gens : Killed(x) => Killed(x)' /\ policy'[x] = policy[x]
        /\ \A x \in Gens : x \in alive => x \in alive' \/ Killed(x)'
    BY <1>23, <1>t, <1>i DEF TypeOK, AcceptReload, MayLateStop
  <2>1. HolderInv'
    BY <1>23, <1>t, <1>i, <2>k DEF HolderInv, AcceptReload, MayLateStop
  <2>2. TeardownInv'
    BY <1>23, <1>t, <1>i, <2>k DEF TeardownInv, AcceptReload, MayLateStop
  <2>3. ReloadInv'
    BY <1>23, <1>t, <1>i, <2>k DEF TypeOK, TeardownInv, ReloadInv, AcceptReload, MayLateStop
  <2>4. CommandInv'
    BY <1>23, <1>t, <1>i, <1>q, <2>q, <2>k DEF CommandInv, AcceptReload, MayLateStop
  <2>5. NoMediaLeak'
    BY <1>23, <1>t, <1>i, <2>k DEF NoMediaLeak, AcceptReload, MayLateStop
  <2>. QED BY <2>1, <2>2, <2>3, <2>4, <2>5
<1>24. ASSUME NEW g \in Gens, SendDiscard(g)
      PROVE  HolderInv' /\ TeardownInv' /\ ReloadInv' /\ CommandInv' /\ NoMediaLeak'
  <2>c. g \in Gens
    BY <1>24, <1>t DEF SendDiscard, TypeOK
  <2>q. Queued' \subseteq Queued \cup {Cmd("STOP", "discard", g)}
    BY <1>24, <1>t, <2>c, QueuedSend, QueuedSame, CmdType DEF SendDiscard
  <2>k. /\ \A x \in Gens : Killed(x) => Killed(x)' /\ policy'[x] = policy[x]
        /\ \A x \in Gens : x \in alive => x \in alive' \/ Killed(x)'
    BY <1>24, <1>t, <1>i, <2>c DEF TypeOK, SendDiscard
  <2>1. HolderInv'
    BY <1>24, <1>t, <1>i, <2>c, <2>k DEF HolderInv, SendDiscard
  <2>2. TeardownInv'
    BY <1>24, <1>t, <1>i, <2>c, <2>k DEF TeardownInv, SendDiscard
  <2>3. ReloadInv'
    BY <1>24, <1>t, <1>i, <2>c, <2>k DEF ReloadInv, SendDiscard
  <2>4. CommandInv'
    BY <1>24, <1>t, <1>i, <2>c, <1>q, <2>q, <2>k DEF TypeOK, TeardownInv, ReloadInv, CommandInv, Command, Cmd, SendDiscard
  <2>5. NoMediaLeak'
    BY <1>24, <1>t, <1>i, <2>c, <2>k DEF NoMediaLeak, SendDiscard
  <2>. QED BY <2>1, <2>2, <2>3, <2>4, <2>5
<1>25. CASE ServeLoad
  <2>q. Queued' \subseteq Queued /\ Head(commands) \in Queued
    BY <1>25, <1>t, QueuedServe DEF ServeLoad
  <2>u. UNCHANGED <<slot, generation, media, alive, lateStop, policy>>
    BY <1>25 DEF ServeLoad
  <2>. QED BY <1>25, <1>t, <1>i, <1>q, <2>q, <2>u, ReplyEffect, ServePreserves DEF ServeLoad
<1>26. CASE FailLoad
  <2>q. Queued' \subseteq Queued /\ Head(commands) \in Queued
    BY <1>26, <1>t, QueuedServe DEF FailLoad
  <2>u. UNCHANGED <<slot, generation, media, alive, lateStop, policy>>
    BY <1>26 DEF FailLoad
  <2>. QED BY <1>26, <1>t, <1>i, <1>q, <2>q, <2>u, ReplyEffect, ServePreserves DEF FailLoad
<1>27. CASE ServeStop
  <2>q. Queued' \subseteq Queued /\ Head(commands) \in Queued
    BY <1>27, <1>t, QueuedServe DEF ServeStop
  <2>u. UNCHANGED <<slot, generation, media, alive, lateStop, policy>>
    BY <1>27 DEF ServeStop
  <2>. QED BY <1>27, <1>t, <1>i, <1>q, <2>q, <2>u, ReplyEffect, ServePreserves DEF ServeStop
<1>28. CASE CastStolen
  <2>q. Queued' = Queued
    BY <1>28, QueuedSame DEF CastStolen, EndSlot
  <2>k. /\ \A x \in Gens : Killed(x) => Killed(x)' /\ policy'[x] = policy[x]
        /\ \A x \in Gens : x \in alive => x \in alive' \/ Killed(x)'
    BY <1>28, <1>t, <1>i DEF TypeOK, CastStolen
  <2>1. HolderInv'
    BY <1>28, <1>t, <1>i, <2>k DEF HolderInv, CastStolen
  <2>2. TeardownInv'
    BY <1>28, <1>t, <1>i, <2>k DEF TeardownInv, CastStolen
  <2>3. ReloadInv'
    BY <1>28, <1>t, <1>i, <2>k DEF ReloadInv, CastStolen
  <2>4. CommandInv'
    BY <1>28, <1>t, <1>i, <1>q, <2>q, <2>k DEF CommandInv, CastStolen
  <2>5. NoMediaLeak'
    BY <1>28, <1>t, <1>i, <2>k DEF NoMediaLeak, CastStolen
  <2>. QED BY <2>1, <2>2, <2>3, <2>4, <2>5
<1>29. CASE EndCastSession
  <2>q. Queued' = Queued
    BY <1>29, QueuedSame DEF EndCastSession, EndSlot
  <2>b. slot.st = "Playing" => /\ slot.gen \in Gens /\ tear[slot.gen] = "none"
          /\ tear'[slot.gen] = "mark" /\ (policy'[slot.gen] = "StopBestEffort" \/ policy'[slot.gen] = "SkipStopForReplace")
          /\ \A h \in Gens \ {slot.gen} : tear'[h] = tear[h] /\ policy'[h] = policy[h]
    <3>. SUFFICES ASSUME slot.st = "Playing" PROVE /\ slot.gen \in Gens /\ tear[slot.gen] = "none"
          /\ tear'[slot.gen] = "mark" /\ (policy'[slot.gen] = "StopBestEffort" \/ policy'[slot.gen] = "SkipStopForReplace")
          /\ \A h \in Gens \ {slot.gen} : tear'[h] = tear[h] /\ policy'[h] = policy[h]
      OBVIOUS
    <3>1. slot.gen \in Gens /\ tear[slot.gen] = "none"
      BY <1>t, <1>i DEF TypeOK, HolderInv
    <3>2. BeginTeardown(slot.gen, "StopBestEffort")
      BY <1>29 DEF EndCastSession, EndSlot
    <3>. QED BY <3>1, <3>2, <1>t, BeginTeardownEffect
  <2>n. ~(slot.st = "Playing") => UNCHANGED <<tear, policy>>
    BY <1>29 DEF EndCastSession, EndSlot
  <2>s. /\ slot.st = "Playing" => slot.gen \in alive
        /\ alive' = alive /\ media' = media /\ lateStop' = lateStop /\ worker' = worker
    BY <1>29, <1>i DEF HolderInv, EndCastSession
  <2>k. /\ \A x \in Gens : Killed(x) => Killed(x)' /\ policy'[x] = policy[x]
        /\ \A x \in Gens : x \in alive => x \in alive' \/ Killed(x)'
    BY <1>29, <1>t, <1>i, <2>b, <2>n DEF TypeOK, EndCastSession, EndSlot
  <2>1. HolderInv'
    BY <1>29, <1>t, <1>i, <2>b, <2>n, <2>k DEF HolderInv, EndCastSession, EndSlot
  <2>2. TeardownInv'
    <3>1. CASE slot.st = "Playing"
      BY <1>t, <1>i, <2>b, <2>s, <3>1, HandOverTeardown
    <3>2. CASE slot.st # "Playing"
      BY <1>t, <1>i, <2>n, <2>s, <3>2 DEF TeardownInv
    <3>. QED BY <3>1, <3>2
  <2>3. ReloadInv'
    BY <1>29, <1>t, <1>i, <2>b, <2>n, <2>k DEF ReloadInv, EndCastSession, EndSlot
  <2>4. CommandInv'
    BY <1>29, <1>t, <1>i, <2>b, <2>n, <1>q, <2>q, <2>k DEF CommandInv, Command, EndCastSession, EndSlot
  <2>5. NoMediaLeak'
    <3>1. CASE slot.st = "Playing"
      BY <1>t, <1>i, <2>b, <2>s, <3>1, HandOverMedia
    <3>2. CASE slot.st # "Playing"
      BY <1>t, <1>i, <2>n, <2>s, <3>2 DEF NoMediaLeak
    <3>. QED BY <3>1, <3>2
  <2>. QED BY <2>1, <2>2, <2>3, <2>4, <2>5
<1>30. CASE RequestShutdown
  <2>q. Queued' = Queued
    BY <1>30, QueuedSame DEF RequestShutdown, EndSlot
  <2>k. /\ \A x \in Gens : Killed(x) => Killed(x)' /\ policy'[x] = policy[x]
        /\ \A x \in Gens : x \in alive => x \in alive' \/ Killed(x)'
    BY <1>30, <1>t, <1>i DEF TypeOK, RequestShutdown
  <2>1. HolderInv'
    BY <1>30, <1>t, <1>i, <2>k DEF HolderInv, RequestShutdown
  <2>2. TeardownInv'
    BY <1>30, <1>t, <1>i, <2>k DEF TeardownInv, RequestShutdown
  <2>3. ReloadInv'
    BY <1>30, <1>t, <1>i, <2>k DEF ReloadInv, RequestShutdown
  <2>4. CommandInv'
    BY <1>30, <1>t, <1>i, <1>q, <2>q, <2>k DEF CommandInv, RequestShutdown
  <2>5. NoMediaLeak'
    BY <1>30, <1>t, <1>i, <2>k DEF NoMediaLeak, RequestShutdown
  <2>. QED BY <2>1, <2>2, <2>3, <2>4, <2>5
<1>31. CASE EndAllSessions
  <2>q. Queued' = Queued
    BY <1>31, QueuedSame DEF EndAllSessions, EndSlot
  <2>b. slot.st = "Playing" => /\ slot.gen \in Gens /\ tear[slot.gen] = "none"
          /\ tear'[slot.gen] = "mark" /\ (policy'[slot.gen] = "StopBestEffort" \/ policy'[slot.gen] = "SkipStopForReplace")
          /\ \A h \in Gens \ {slot.gen} : tear'[h] = tear[h] /\ policy'[h] = policy[h]
    <3>. SUFFICES ASSUME slot.st = "Playing" PROVE /\ slot.gen \in Gens /\ tear[slot.gen] = "none"
          /\ tear'[slot.gen] = "mark" /\ (policy'[slot.gen] = "StopBestEffort" \/ policy'[slot.gen] = "SkipStopForReplace")
          /\ \A h \in Gens \ {slot.gen} : tear'[h] = tear[h] /\ policy'[h] = policy[h]
      OBVIOUS
    <3>1. slot.gen \in Gens /\ tear[slot.gen] = "none"
      BY <1>t, <1>i DEF TypeOK, HolderInv
    <3>2. BeginTeardown(slot.gen, "StopBestEffort")
      BY <1>31 DEF EndAllSessions, EndSlot
    <3>. QED BY <3>1, <3>2, <1>t, BeginTeardownEffect
  <2>n. ~(slot.st = "Playing") => UNCHANGED <<tear, policy>>
    BY <1>31 DEF EndAllSessions, EndSlot
  <2>s. /\ slot.st = "Playing" => slot.gen \in alive
        /\ alive' = alive /\ media' = media /\ lateStop' = lateStop /\ worker' = worker
    BY <1>31, <1>i DEF HolderInv, EndAllSessions
  <2>k. /\ \A x \in Gens : Killed(x) => Killed(x)' /\ policy'[x] = policy[x]
        /\ \A x \in Gens : x \in alive => x \in alive' \/ Killed(x)'
    BY <1>31, <1>t, <1>i, <2>b, <2>n DEF TypeOK, EndAllSessions, EndSlot
  <2>1. HolderInv'
    BY <1>31, <1>t, <1>i, <2>b, <2>n, <2>k DEF HolderInv, EndAllSessions, EndSlot
  <2>2. TeardownInv'
    <3>1. CASE slot.st = "Playing"
      BY <1>t, <1>i, <2>b, <2>s, <3>1, HandOverTeardown
    <3>2. CASE slot.st # "Playing"
      BY <1>t, <1>i, <2>n, <2>s, <3>2 DEF TeardownInv
    <3>. QED BY <3>1, <3>2
  <2>3. ReloadInv'
    BY <1>31, <1>t, <1>i, <2>b, <2>n, <2>k DEF ReloadInv, EndAllSessions, EndSlot
  <2>4. CommandInv'
    BY <1>31, <1>t, <1>i, <2>b, <2>n, <1>q, <2>q, <2>k DEF CommandInv, Command, EndAllSessions, EndSlot
  <2>5. NoMediaLeak'
    <3>1. CASE slot.st = "Playing"
      BY <1>t, <1>i, <2>b, <2>s, <3>1, HandOverMedia
    <3>2. CASE slot.st # "Playing"
      BY <1>t, <1>i, <2>n, <2>s, <3>2 DEF NoMediaLeak
    <3>. QED BY <3>1, <3>2
  <2>. QED BY <2>1, <2>2, <2>3, <2>4, <2>5
<1>32. ASSUME NEW g \in Gens, TerminalStallEnd(g)
      PROVE  HolderInv' /\ TeardownInv' /\ ReloadInv' /\ CommandInv' /\ NoMediaLeak'
  <2>q. Queued' = Queued
    BY <1>32, QueuedSame DEF TerminalStallEnd, EndSlot
  <2>b. /\ g \in Gens /\ tear[g] = "none"
          /\ tear'[g] = "mark" /\ (policy'[g] = "StopBestEffort" \/ policy'[g] = "SkipStopForReplace")
          /\ \A h \in Gens \ {g} : tear'[h] = tear[h] /\ policy'[h] = policy[h]
    BY <1>32, <1>t, <1>i, BeginTeardownEffect DEF TypeOK, HolderInv, TerminalStallEnd
  <2>k. /\ \A x \in Gens : Killed(x) => Killed(x)' /\ policy'[x] = policy[x]
        /\ \A x \in Gens : x \in alive => x \in alive' \/ Killed(x)'
    BY <1>32, <1>t, <1>i, <2>b DEF TypeOK, TerminalStallEnd
  <2>1. HolderInv'
    BY <1>32, <1>t, <1>i, <2>b, <2>k DEF HolderInv, TerminalStallEnd
  <2>2. TeardownInv'
    BY <1>32, <1>t, <1>i, <2>b, <2>k DEF TypeOK, HolderInv, TeardownInv, TerminalStallEnd
  <2>3. ReloadInv'
    BY <1>32, <1>t, <1>i, <2>b, <2>k DEF ReloadInv, TerminalStallEnd
  <2>4. CommandInv'
    BY <1>32, <1>t, <1>i, <2>b, <1>q, <2>q, <2>k DEF CommandInv, Command, TerminalStallEnd
  <2>5. ASSUME NEW h \in media'
       PROVE  (worker.pc \in StartPcs /\ worker.gen = h)' \/ (slot = Playing(h))' \/ (~Torn(h))'
    <3>1. h \in media /\ h \in Gens
      BY <1>32, <1>t, <1>i, <2>b, <2>k DEF TypeOK, TerminalStallEnd
    <3>2. CASE slot = Playing(h)
      BY <3>1, <3>2, <1>32, <1>t, <1>i, <2>b, <2>k DEF TerminalStallEnd
    <3>3. CASE worker.pc \in StartPcs /\ worker.gen = h
      BY <3>1, <3>3, <1>32, <1>t, <1>i, <2>b, <2>k DEF HolderInv, TerminalStallEnd
    <3>4. CASE ~Torn(h)
      BY <3>1, <3>4, <1>32, <1>t, <1>i, <2>b, <2>k DEF TerminalStallEnd
    <3>. QED BY <3>1, <3>2, <3>3, <3>4, <1>i DEF NoMediaLeak
  <2>. QED BY <2>1, <2>2, <2>3, <2>4, <2>5 DEF NoMediaLeak
<1>33. ASSUME NEW g \in Gens, GateReload(g)
      PROVE  HolderInv' /\ TeardownInv' /\ ReloadInv' /\ CommandInv' /\ NoMediaLeak'
  <2>q. Queued' = Queued
    BY <1>33, QueuedSame DEF GateReload, EndSlot
  <2>k. /\ \A x \in Gens : Killed(x) => Killed(x)' /\ policy'[x] = policy[x]
        /\ \A x \in Gens : x \in alive => x \in alive' \/ Killed(x)'
    BY <1>33, <1>t, <1>i DEF TypeOK, GateReload
  <2>1. HolderInv'
    BY <1>33, <1>t, <1>i, <2>k DEF HolderInv, GateReload
  <2>2. TeardownInv'
    BY <1>33, <1>t, <1>i, <2>k DEF TeardownInv, GateReload
  <2>3. ReloadInv'
    BY <1>33, <1>t, <1>i, <2>k DEF ReloadInv, GateReload
  <2>4. CommandInv'
    BY <1>33, <1>t, <1>i, <1>q, <2>q, <2>k DEF CommandInv, GateReload
  <2>5. NoMediaLeak'
    BY <1>33, <1>t, <1>i, <2>k DEF NoMediaLeak, GateReload
  <2>. QED BY <2>1, <2>2, <2>3, <2>4, <2>5
<1>34. CASE UNCHANGED vars
  <2>q. Queued' = Queued
    BY <1>34, QueuedSame DEF vars
  <2>. QED BY <1>34, <2>q, <1>i, <1>t DEF vars, TypeOK, HolderInv, TeardownInv, ReloadInv, CommandInv, NoMediaLeak
<1>. QED
  BY <1>1, <1>2, <1>3, <1>4, <1>5, <1>6, <1>7, <1>8, <1>9, <1>10, <1>11, <1>12, <1>13, <1>14, <1>15, <1>16, <1>17, <1>18, <1>19, <1>20, <1>21, <1>22, <1>23, <1>24, <1>25, <1>26, <1>27, <1>28, <1>29, <1>30, <1>31, <1>32, <1>33, <1>34 DEF Next, Receiver, WorkerStep, TeardownStep, ReloadStep, CastStep, Outside

LEMMA SessionInit == Init => HolderInv /\ TeardownInv /\ ReloadInv /\ CommandInv /\ NoMediaLeak
BY BoundsAssumption DEF Init, HolderInv, TeardownInv, ReloadInv, CommandInv, NoMediaLeak, Queued,
   Idle, Resting, At, StartPcs, Gens

\* The invariant the promises below follow from.
THEOREM SessionInvariant == Spec => []SessionInv
<1>1. Init => SessionInv
  BY TypeInit, SessionInit DEF SessionInv
<1>2. SessionInv /\ [Next]_vars => SessionInv'
  BY TypeStep, SessionStep DEF SessionInv
<1>. QED BY <1>1, <1>2, PTL DEF Spec

\* While the slot plays a generation, or the worker starts it, nothing tears it down: the
\* session the slot hands out (take_live_session) has one holder.
THEOREM OneHolderHolds == Spec => []OneHolder
<1>1. SessionInv => OneHolder
  BY DEF SessionInv, HolderInv, OneHolder
<1>. QED BY <1>1, SessionInvariant, PTL

\* No interleaving shows a re-LOAD thread a replaced session that is dead but may still be
\* stopped (the ordering of the two stores in teardown_playing).
THEOREM ReplacedNeverLateStopsHolds == Spec => []ReplacedNeverLateStops
<1>1. SessionInv => ReplacedNeverLateStops
  BY DEF SessionInv, TypeOK, TearPcs, TeardownInv, ReplacedNeverLateStops
<1>. QED BY <1>1, SessionInvariant, PTL

\* Only a start, a slot or a running teardown keeps a media server up.
THEOREM NoMediaLeakHolds == Spec => []NoMediaLeak
<1>1. SessionInv => NoMediaLeak
  BY DEF SessionInv
<1>. QED BY <1>1, SessionInvariant, PTL

\* No STOP of a replaced session is ever on its way to the speaker.
THEOREM ReplaceNeverStopsHolds == Spec => []ReplaceNeverStops
<1>1. SessionInv => ReplaceNeverStops
  BY DEF SessionInv, CommandInv, ReplaceNeverStops
<1>. QED BY <1>1, SessionInvariant, PTL

-----------------------------------------------------------------------------
(***************************************************************************)
(* Which stream the slot serves.  A start is in the hands of the worker,   *)
(* and whenever the slot holds a stream the receiver has moved on from, an *)
(* event that makes the worker move on too is posted or about to be.       *)
(***************************************************************************)
StartEvent(s) == [kind |-> "Started", ring |-> s]
EndEvent      == [kind |-> "Ended", ring |-> None]
Posted        == {inbox[i] : i \in DOMAIN inbox}

\* The worker has yet to learn what the receiver serves now, or shutdown cleans up.
ChangeIsComing ==
  \/ stopping
  \/ ringSlot = None /\ EndEvent \in Posted
  \/ ringSlot # None /\ (phase[ringSlot] = "opening" \/ StartEvent(ringSlot) \in Posted)

StartInv  == slot.st = "Starting" => worker.pc \in StartPcs \ {"discard"} /\ worker.gen = slot.gen
ServesInv == slot # Idle => IsCurrent(ringOf[slot.gen]) \/ ChangeIsComing

LEMMA PostedMore ==
  ASSUME inbox \in Seq(Event), NEW e \in Event, Post(e)
  PROVE  /\ \A x \in Posted : x \in Posted'
         /\ ~stopping => e \in Posted'
<1>1. CASE stopping
  BY <1>1 DEF Post, Posted
<1>2. CASE ~stopping
  <2>1. inbox' = Append(inbox, e)
    BY <1>2 DEF Post
  <2>2. inbox'[Len(inbox) + 1] = e /\ Len(inbox) + 1 \in DOMAIN inbox'
    BY <2>1
  <2>3. \A i \in DOMAIN inbox : i \in DOMAIN inbox' /\ inbox'[i] = inbox[i]
    BY <2>1
  <2>. QED BY <2>2, <2>3 DEF Posted
<1>. QED BY <1>1, <1>2

LEMMA PostedTaken ==
  ASSUME inbox \in Seq(Event), NEW k, WorkerTakes(k), NEW e \in Posted, e # Head(inbox)
  PROVE  e \in Posted'
<1>1. inbox # <<>> /\ inbox' = Tail(inbox)
  BY DEF WorkerTakes, Head1
<1>2. PICK i \in DOMAIN inbox : inbox[i] = e
  BY DEF Posted
<1>3. i # 1
  BY <1>1, <1>2
<1>4. i - 1 \in DOMAIN inbox' /\ inbox'[i - 1] = inbox[i]
  BY <1>1, <1>2, <1>3
<1>. QED BY <1>2, <1>4 DEF Posted

\* A step that neither fills the slot nor takes an event keeps both.
LEMMA ServesKept ==
  ASSUME ServesInv, UNCHANGED <<airplay, ringOf>>, stopping => stopping', UNCHANGED inbox,
         slot' = slot \/ slot' = Idle \/ (slot # Idle /\ slot'.gen = slot.gen)
  PROVE  ServesInv'
BY DEF ServesInv, ChangeIsComing, Posted, IsCurrent, airplay

LEMMA StartKept ==
  ASSUME StartInv, UNCHANGED worker, slot' = slot \/ slot' = Idle
  PROVE  StartInv'
BY DEF StartInv, Idle

\* An event that is not what the change waits for leaves the change coming.
LEMMA ServesTaken ==
  ASSUME TypeOK, ServesInv, NEW k, WorkerTakes(k), UNCHANGED <<airplay, stopping, slot, ringOf>>,
         ringSlot = None => Head(inbox) # EndEvent,
         Head(inbox) # StartEvent(ringSlot)
  PROVE  ServesInv'
<1>1. inbox \in Seq(Event)
  BY DEF TypeOK
<1>2. ChangeIsComing => ChangeIsComing'
  BY <1>1, PostedTaken DEF ChangeIsComing, airplay
<1>. QED BY <1>2 DEF ServesInv, IsCurrent, airplay

\* A reply moves a start on without letting go of it, and ends a discard.
LEMMA StartServed ==
  ASSUME TypeOK, StartInv, NEW cmd, NEW ok, cmd.gen \in Gens, Reply(cmd, ok), UNCHANGED slot
  PROVE  StartInv'
<1>1. \/ worker' = worker
      \/ worker.pc = "discard"
      \/ /\ worker.pc = "loading" /\ worker.gen = cmd.gen
         /\ worker' = At("landed", cmd.gen) \/ worker' = At("failed", cmd.gen)
  BY DEF Reply
<1>. QED BY <1>1 DEF StartInv, At, StartPcs

LEMMA StartingIs ==
  ASSUME TypeOK, StartInv, slot.st = "Starting"
  PROVE  slot = Starting(worker.gen)
BY DEF TypeOK, StartInv, Starting, Idle

LEMMA CurrentStep ==
  ASSUME TypeOK, StartInv, ServesInv, [Next]_vars
  PROVE  StartInv' /\ ServesInv'
<1>e. /\ inbox \in Seq(Event) /\ stopping \in BOOLEAN /\ EndEvent \in Event
      /\ \A s \in Streams : StartEvent(s) \in Event
  BY DEF TypeOK, Event, EndEvent, StartEvent
<1>1. CASE OpenStream
  <2>1. ServesInv'
    <3>1. ringSlot' # None /\ phase'[ringSlot'] = "opening"
      BY <1>1, BoundsAssumption DEF TypeOK, OpenStream, Streams, None
    <3>. QED BY <3>1 DEF ServesInv, ChangeIsComing
  <2>. QED BY <2>1, <1>1, StartKept DEF OpenStream
<1>2. ASSUME NEW s \in Streams, PublishStarted(s) PROVE StartInv' /\ ServesInv'
  <2>1. StartInv'
    BY <1>2, StartKept DEF PublishStarted
  <2>2. Post(StartEvent(s))
    BY <1>2 DEF PublishStarted, StartEvent
  <2>3. (\A x \in Posted : x \in Posted') /\ (~stopping => StartEvent(s) \in Posted')
    BY <2>2, <1>e, PostedMore
  <2>4. /\ UNCHANGED <<ringSlot, stopping, slot, ringOf>>
        /\ \A r \in Streams : r # s => phase'[r] = phase[r]
    BY <1>2 DEF PublishStarted, TypeOK, sessions
  <2>5. ChangeIsComing => ChangeIsComing'
    BY <2>3, <2>4 DEF ChangeIsComing, TypeOK
  <2>. QED BY <2>1, <2>4, <2>5 DEF ServesInv, IsCurrent
<1>3. ASSUME NEW s \in Streams, CloseStream(s) PROVE StartInv' /\ ServesInv'
  <2>1. StartInv'
    BY <1>3, StartKept DEF CloseStream
  <2>2. UNCHANGED <<stopping, slot, ringOf>> /\ \A r \in Streams : r # s => phase'[r] = phase[r]
    BY <1>3 DEF CloseStream, TypeOK, sessions
  <2>3. CASE ringSlot = s
    <3>1. ringSlot' = None /\ Post(EndEvent)
      BY <1>3, <2>3 DEF CloseStream, EndEvent
    <3>2. ~stopping => EndEvent \in Posted'
      BY <3>1, <1>e, PostedMore
    <3>. QED BY <2>1, <2>2, <3>1, <3>2 DEF ServesInv, ChangeIsComing
  <2>4. CASE ringSlot # s
    <3>1. UNCHANGED <<ringSlot, inbox>>
      BY <1>3, <2>4 DEF CloseStream
    <3>2. ChangeIsComing => ChangeIsComing'
      BY <2>2, <2>4, <3>1 DEF ChangeIsComing, TypeOK, Posted
    <3>. QED BY <2>1, <2>2, <3>1, <3>2 DEF ServesInv, IsCurrent
  <2>. QED BY <2>3, <2>4
<1>4. CASE SkipStaleStart
  <2>1. /\ WorkerTakes("Started") /\ Head(inbox).kind = "Started" /\ ~IsCurrent(Head(inbox).ring)
        /\ UNCHANGED <<airplay, stopping, slot, ringOf, worker>>
    BY <1>4 DEF SkipStaleStart, WorkerTakes, Head1, sessions
  <2>2. Head(inbox) # EndEvent /\ Head(inbox) # StartEvent(ringSlot)
    BY <2>1 DEF EndEvent, StartEvent, IsCurrent
  <2>. QED BY <2>1, <2>2, ServesTaken, StartKept
<1>5. CASE AcceptStart
  <2>1. generation + 1 \in Gens
    BY <1>5, BoundsAssumption DEF AcceptStart, TypeOK, Gens
  <2>2. /\ slot' = Starting(generation + 1) /\ worker' = At("prebuffer", generation + 1)
        /\ ringOf'[generation + 1] = ringSlot /\ ringSlot' = ringSlot
    BY <1>5, <2>1 DEF AcceptStart, NextGeneration, TypeOK, IsCurrent, airplay
  <2>. QED BY <2>2 DEF StartInv, ServesInv, IsCurrent, Starting, At, StartPcs
<1>6. CASE AbandonStart
  <2>1. slot' = slot \/ slot' = Idle
    BY <1>6 DEF AbandonStart, ClearStartingIf
  <2>2. ServesInv'
    BY <1>6, <2>1, ServesKept DEF AbandonStart, sessions
  <2>3. slot.st = "Starting" => slot' = Idle
    BY <1>6, StartingIs DEF AbandonStart, ClearStartingIf
  <2>. QED BY <2>1, <2>2, <2>3 DEF StartInv, Idle
<1>7. CASE BeginLoad
  <2>1. ServesInv'
    BY <1>7, ServesKept DEF BeginLoad
  <2>. QED BY <2>1, <1>7 DEF BeginLoad, StartInv, At, StartPcs
<1>8. CASE StartLoadFailed
  <2>1. slot' = slot \/ slot' = Idle
    BY <1>8 DEF StartLoadFailed, ClearStartingIf
  <2>2. ServesInv'
    BY <1>8, <2>1, ServesKept DEF StartLoadFailed
  <2>3. slot.st = "Starting" => slot' = Idle
    BY <1>8, StartingIs DEF StartLoadFailed, ClearStartingIf
  <2>. QED BY <2>1, <2>2, <2>3 DEF StartInv, Idle
<1>9. CASE AfterLoad
  <2>1. ServesInv'
    BY <1>9, ServesKept DEF AfterLoad
  <2>2. slot.st = "Starting" => worker' = At("volume", worker.gen)
    BY <1>9, StartingIs DEF AfterLoad, StartingStill
  <2>. QED BY <2>1, <2>2, <1>9 DEF AfterLoad, StartInv, At, StartPcs
<1>10. CASE InstallPlaying
  <2>1. slot' = slot \/ (slot # Idle /\ slot'.gen = slot.gen)
    BY <1>10 DEF InstallPlaying, StartingStill, Starting, Playing, Idle
  <2>2. ServesInv'
    BY <1>10, <2>1, ServesKept DEF InstallPlaying
  <2>3. slot'.st # "Starting"
    BY <1>10, StartingIs DEF InstallPlaying, StartingStill, Playing
  <2>. QED BY <2>2, <2>3 DEF StartInv
<1>11. CASE DropEnded
  <2>1. UNCHANGED <<airplay, slot, ringOf, worker>> /\ (slot = Idle \/ IsCurrent(ringOf[slot.gen]))
    BY <1>11 DEF DropEnded, EndedIsStale, sessions
  <2>. QED BY <2>1, StartKept DEF ServesInv, IsCurrent, airplay
<1>12. CASE HandleEnded
  <2>1. slot' = Idle
    BY <1>12 DEF HandleEnded, TakeLiveSession
  <2>. QED BY <2>1 DEF StartInv, ServesInv, Idle
<1>13. CASE EndedTornDown
  <2>1. ServesInv'
    BY <1>13, ServesKept DEF EndedTornDown, sessions
  <2>. QED BY <2>1, <1>13 DEF EndedTornDown, StartInv, StartPcs
<1>14. CASE WorkerExits
  <2>1. slot' = slot \/ slot' = Idle
    BY <1>14 DEF WorkerExits, ClearStartingIf
  <2>2. ServesInv'
    BY <1>14, <2>1, ServesKept DEF WorkerExits
  <2>3. slot.st = "Starting" => slot' = Idle
    BY <1>14, StartingIs DEF WorkerExits, ClearStartingIf, StartInv, Resting, At, StartPcs
  <2>. QED BY <2>1, <2>2, <2>3 DEF StartInv, Idle
<1>15. ASSUME NEW g \in Gens,
              \/ MarkTeardown(g) \/ KillSession(g) \/ JoinAndEndMedia(g) \/ GiveUpStop(g) \/ GateReload(g)
              \/ CheckReload(g) \/ SendReload(g) \/ ReadAlive(g) \/ ReadLateStop(g) \/ AcceptReload(g) \/ SendDiscard(g)
       PROVE  StartInv' /\ ServesInv'
  <2>1. UNCHANGED <<airplay, inbox, stopping, slot, worker, ringOf>>
    BY <1>15 DEF MarkTeardown, KillSession, JoinAndEndMedia, GiveUpStop, GateReload, CheckReload, SendReload,
       ReadAlive, ReadLateStop, AcceptReload, SendDiscard, ReloadOnly, sessions
  <2>. QED BY <2>1, ServesKept, StartKept
<1>16. ASSUME CastStep PROVE StartInv' /\ ServesInv'
  <2>1. UNCHANGED <<airplay, inbox, stopping, slot, ringOf>>
    BY <1>16 DEF CastStep, ServeLoad, FailLoad, ServeStop, sessions
  <2>2. PICK ok : Reply(Head(commands), ok)
    BY <1>16 DEF CastStep, ServeLoad, FailLoad, ServeStop
  <2>3. Head(commands).gen \in Gens
    <3>1. commands \in Seq(Command) /\ \E op : Serves(op)
      BY <1>16 DEF CastStep, ServeLoad, FailLoad, ServeStop, TypeOK
    <3>. QED BY <3>1, ServesType
  <2>. QED BY <2>1, <2>2, <2>3, ServesKept, StartServed
<1>17. ASSUME CastStolen \/ UNCHANGED vars PROVE StartInv' /\ ServesInv'
  <2>1. UNCHANGED <<airplay, inbox, stopping, slot, worker, ringOf>>
    BY <1>17 DEF CastStolen, vars, sessions
  <2>. QED BY <2>1, ServesKept, StartKept
<1>18. ASSUME EndCastSession \/ EndAllSessions \/ (\E g \in Gens : TerminalStallEnd(g))
       PROVE  StartInv' /\ ServesInv'
  <2>1. slot' = Idle
    BY <1>18 DEF EndCastSession, EndAllSessions, TerminalStallEnd, EndSlot, TakeLiveSession
  <2>. QED BY <2>1 DEF StartInv, ServesInv, Idle
<1>19. CASE RequestShutdown
  <2>1. UNCHANGED <<airplay, inbox, slot, worker, ringOf>> /\ stopping'
    BY <1>19 DEF RequestShutdown, sessions
  <2>. QED BY <2>1, ServesKept, StartKept
<1>. QED
  BY <1>1, <1>2, <1>3, <1>4, <1>5, <1>6, <1>7, <1>8, <1>9, <1>10, <1>11, <1>12, <1>13, <1>14, <1>15, <1>16, <1>17, <1>18, <1>19
  DEF Next, Receiver, WorkerStep, TeardownStep, ReloadStep, Outside

\* Once everything has settled, a Playing slot feeds the stream the receiver serves now, and
\* no start is left half done: every event the worker skipped or dropped was rightly dropped.
THEOREM SettledOnCurrentStreamHolds == Spec => []SettledOnCurrentStream
<1>1. Init => TypeOK /\ StartInv /\ ServesInv
  BY TypeInit DEF Init, StartInv, ServesInv, Idle
<1>2. TypeOK /\ StartInv /\ ServesInv /\ [Next]_vars => TypeOK' /\ StartInv' /\ ServesInv'
  BY TypeStep, CurrentStep
<1>3. TypeOK /\ StartInv /\ ServesInv => SettledOnCurrentStream
  <2>. SUFFICES ASSUME TypeOK, StartInv, ServesInv, Quiescent
                PROVE  slot.st # "Starting" /\ (slot.st = "Playing" => IsCurrent(ringOf[slot.gen]))
    BY DEF SettledOnCurrentStream
  <2>1. slot.st # "Starting"
    BY DEF StartInv, Quiescent, StartPcs
  <2>2. ASSUME slot.st = "Playing" PROVE IsCurrent(ringOf[slot.gen])
    <3>1. slot # Idle /\ worker = Resting
      BY <2>2 DEF Quiescent, TypeOK, Idle, At, Resting, StartPcs
    <3>2. Posted = {} /\ ~stopping
      BY <3>1 DEF Quiescent, Posted
    <3>3. ~ChangeIsComing
      BY <3>2 DEF ChangeIsComing, Quiescent, TypeOK
    <3>. QED BY <3>1, <3>3 DEF ServesInv
  <2>. QED BY <2>1, <2>2
<1>. QED BY <1>1, <1>2, <1>3, PTL DEF Spec

-----------------------------------------------------------------------------
(***************************************************************************)
(* The session while it ends through the device worker only and no         *)
(* teardown gives up on a Cast call: which media the speaker can be left   *)
(* with, and whose STOP can still be on its way.                           *)
(***************************************************************************)
\* A queued command has a caller that waits for it, the same for no two commands.  (A start
\* that shutdown abandons leaves its LOAD behind.)
Waits(c) ==
  /\ c.by = "start" => /\ c.op = "LOAD"
                       /\ worker = At("loading", c.gen) \/ worker.pc = "exited"
                       /\ tear[c.gen] = "none" /\ c.gen \notin alive
  /\ c.by = "teardown" => c.op = "STOP" /\ tear[c.gen] = "stop"
  /\ c.by = "reload"   => reload[c.gen] = IF c.op = "LOAD" THEN "loading" ELSE "stop"
  /\ c.by = "discard"  => c.op = "STOP" /\ reload[c.gen] = "discarding"

Distinct == \A i, j \in DOMAIN commands : commands[i] = commands[j] => i = j
WaitInv  == \A c \in Queued : Waits(c) /\ c.gen <= generation

\* Nothing takes the slot from a start; a live session is in the slot or being torn down.
QuietHolder ==
  /\ worker.pc \in StartPcs => slot = Starting(worker.gen) /\ worker.pc # "discard"
  /\ worker.pc = "exited" => stopping
  /\ \A g \in alive : slot = Playing(g) \/ tear[g] # "none"

\* A teardown past its join has no re-LOAD left that could send a LOAD or a joined STOP; one
\* that will stop the speaker is for the newest generation, and the worker awaits it.
QuietTear ==
  \A g \in Gens :
    /\ Killed(g) => g \notin alive
    /\ tear[g] \in {"stop", "done"} => reload[g] \in {"none", "discard", "discarding"}
    /\ tear[g] \notin {"none", "done"} /\ policy[g] = "StopBestEffort"
         => g = generation /\ (worker = At("ending", g) \/ stopping)

\* What the speaker plays is what the Cast worker tracks; it belongs to the slot or to a
\* session that a teardown took, and a finished full teardown has stopped it.
MediaInv ==
  /\ active <= generation /\ (cast # None => cast = active)
  /\ worker.pc \in {"prebuffer", "loading", "failed"} => cast # worker.gen
  /\ ~stopping /\ cast # None => (slot # Idle /\ slot.gen = cast) \/ tear[cast] # "none"
  /\ \A g \in Gens : tear[g] = "done" /\ policy[g] = "StopBestEffort" => cast # g

QuietInv == Distinct /\ WaitInv /\ QuietHolder /\ QuietTear /\ MediaInv

LEMMA DistinctSend ==
  ASSUME commands \in Seq(Command), Distinct, NEW c, c \notin Queued, Send(c)
  PROVE  Distinct'
<1>1. commands' = Append(commands, c)
  BY DEF Send
<1>2. /\ DOMAIN commands' = 1..(Len(commands) + 1) /\ Len(commands) \in Nat /\ DOMAIN commands = 1..Len(commands)
      /\ commands'[Len(commands) + 1] = c
      /\ \A i \in 1..Len(commands) : commands'[i] = commands[i] /\ commands[i] # c
  BY <1>1 DEF Queued
<1>. SUFFICES ASSUME NEW i \in DOMAIN commands', NEW j \in DOMAIN commands', commands'[i] = commands'[j]
              PROVE  i = j
  BY DEF Distinct
<1>3. CASE i \in 1..Len(commands) /\ j \in 1..Len(commands)
  BY <1>2, <1>3 DEF Distinct
<1>4. CASE i = Len(commands) + 1 \/ j = Len(commands) + 1
  BY <1>2, <1>4
<1>. QED BY <1>2, <1>3, <1>4

LEMMA DistinctServe ==
  ASSUME commands \in Seq(Command), Distinct, NEW op, Serves(op)
  PROVE  /\ Distinct'
         /\ Head(commands) \in Queued /\ Head(commands) \in Command /\ Head(commands).op = op
         /\ \A c \in Queued' : c \in Queued /\ c # Head(commands)
<1>1. commands # <<>> /\ commands' = Tail(commands) /\ Head(commands).op = op /\ Head(commands) = commands[1]
  BY DEF Serves
<1>2. /\ Len(commands) \in Nat \ {0} /\ DOMAIN commands = 1..Len(commands)
      /\ Len(commands') = Len(commands) - 1 /\ DOMAIN commands' = 1..(Len(commands) - 1)
      /\ \A i \in 1..(Len(commands) - 1) : commands'[i] = commands[i + 1]
  BY <1>1
<1>3. Distinct'
  <2>. SUFFICES ASSUME NEW i \in DOMAIN commands', NEW j \in DOMAIN commands', commands'[i] = commands'[j]
                PROVE  i = j
    BY DEF Distinct
  <2>1. i + 1 \in DOMAIN commands /\ j + 1 \in DOMAIN commands /\ commands[i + 1] = commands[j + 1]
    BY <1>2
  <2>2. i + 1 = j + 1
    BY <2>1 DEF Distinct
  <2>. QED BY <1>2, <2>2
<1>4. Head(commands) \in Queued /\ Head(commands) \in Command
  BY <1>1, <1>2 DEF Queued
<1>5. ASSUME NEW c \in Queued' PROVE c \in Queued /\ c # Head(commands)
  <2>1. PICK i \in 1..(Len(commands) - 1) : c = commands'[i]
    BY <1>2 DEF Queued
  <2>2. i + 1 \in DOMAIN commands /\ 1 \in DOMAIN commands /\ c = commands[i + 1] /\ i + 1 # 1
    BY <1>2, <2>1
  <2>. QED BY <1>1, <1>2, <2>2 DEF Distinct, Queued
<1>. QED BY <1>1, <1>3, <1>4, <1>5

\* Callers that wait go on waiting while what they wait in is left alone.
LEMMA WaitsKept ==
  ASSUME TypeOK, WaitInv, generation <= generation', generation' \in Nat,
         worker.pc = "loading" => worker' = worker \/ worker'.pc = "exited",
         worker.pc = "exited" => worker' = worker,
         worker.pc \in {"loading", "exited"} =>
            \A g \in Gens : tear[g] = "none" /\ g \notin alive => tear'[g] = "none" /\ g \notin alive',
         \A g \in Gens : tear[g] = "stop" => tear'[g] = "stop",
         \A g \in Gens : reload[g] \in {"loading", "stop", "discarding"} => reload'[g] = reload[g],
         \A c \in Queued' : c \in Queued \/ (Waits(c)' /\ c.gen <= generation')
  PROVE  WaitInv'
<1>. SUFFICES ASSUME NEW c \in Queued, c \in Queued' PROVE Waits(c)' /\ c.gen <= generation'
  BY DEF WaitInv
<1>1. Waits(c) /\ c.gen <= generation /\ c \in Command /\ c.gen \in Gens /\ c.op \in {"LOAD", "STOP"}
  BY QueuedType DEF WaitInv, Command
<1>2. c.gen <= generation'
  BY <1>1 DEF TypeOK, Gens
<1>3. c.by = "start" => /\ c.op = "LOAD" /\ (worker = At("loading", c.gen) \/ worker.pc = "exited")' 
                        /\ tear'[c.gen] = "none" /\ c.gen \notin alive'
  <2>. SUFFICES ASSUME c.by = "start"
                PROVE  /\ c.op = "LOAD" /\ (worker = At("loading", c.gen) \/ worker.pc = "exited")'
                       /\ tear'[c.gen] = "none" /\ c.gen \notin alive'
    OBVIOUS
  <2>1. /\ c.op = "LOAD" /\ tear[c.gen] = "none" /\ c.gen \notin alive
        /\ worker = At("loading", c.gen) \/ worker.pc = "exited"
    BY <1>1 DEF Waits
  <2>2. worker.pc \in {"loading", "exited"}
    BY <2>1 DEF At
  <2>. QED BY <1>1, <2>1, <2>2 DEF At
<1>4. c.by = "teardown" => c.op = "STOP" /\ tear'[c.gen] = "stop"
  BY <1>1 DEF Waits
<1>5. c.by = "reload" => reload'[c.gen] = IF c.op = "LOAD" THEN "loading" ELSE "stop"
  BY <1>1 DEF Waits
<1>6. c.by = "discard" => c.op = "STOP" /\ reload'[c.gen] = "discarding"
  BY <1>1 DEF Waits
<1>. QED BY <1>2, <1>3, <1>4, <1>5, <1>6 DEF Waits

\* Serving a command lets the caller that waits for it go on, and nobody else.
LEMMA ReplyMoves ==
  ASSUME TypeOK, NEW c \in Command, Waits(c), NEW ok \in BOOLEAN, Reply(c, ok)
  PROVE  /\ \/ worker' = worker
            \/ /\ c.by = "start" /\ worker = At("loading", c.gen)
               /\ worker' = At(IF ok THEN "landed" ELSE "failed", c.gen)
         /\ \A g \in Gens : reload'[g] = reload[g]
                              \/ (g = c.gen /\ c.by = "reload" /\ reload'[g] \in {"landed", "accept", "none"})
                              \/ (g = c.gen /\ c.by = "discard" /\ reload'[g] = "none")
         /\ \A g \in Gens : tear'[g] = tear[g] \/ (g = c.gen /\ c.by = "teardown" /\ tear'[g] = "done")
<1>1. c.gen \in Gens /\ c.op \in {"LOAD", "STOP"} /\ c.by \in Callers
  BY DEF Command
<1>2. \/ worker' = worker
      \/ /\ c.by = "start" /\ worker = At("loading", c.gen)
         /\ worker' = At(IF ok THEN "landed" ELSE "failed", c.gen)
  <2>1. CASE c.by # "start" \/ worker.gen # c.gen
    BY <2>1 DEF Reply
  <2>2. CASE c.by = "start" /\ worker.gen = c.gen
    <3>1. worker = At("loading", c.gen)
      BY <1>1, <2>2 DEF Waits, TypeOK, At, Resting, StartPcs, Gens, None
    <3>2. worker.pc = "loading"
      BY <3>1 DEF At
    <3>. QED BY <2>2, <3>1, <3>2 DEF Reply
  <2>. QED BY <2>1, <2>2
<1>3. \A g \in Gens : reload'[g] = reload[g]
                        \/ (g = c.gen /\ c.by = "reload" /\ reload'[g] \in {"landed", "accept", "none"})
                        \/ (g = c.gen /\ c.by = "discard" /\ reload'[g] = "none")
  BY <1>1 DEF Reply, Reported, TypeOK
<1>4. \A g \in Gens : tear'[g] = tear[g] \/ (g = c.gen /\ c.by = "teardown" /\ tear'[g] = "done")
  BY <1>1 DEF Reply, TypeOK
<1>. QED BY <1>2, <1>3, <1>4

\* Two queued commands that wait in the same place are the same command.
LEMMA WaitsServed ==
  ASSUME TypeOK, WaitInv, NEW c \in Queued, NEW d \in Queued, c # d, NEW ok \in BOOLEAN,
         Reply(c, ok), UNCHANGED <<alive, generation>>
  PROVE  Waits(d)' /\ d.gen <= generation'
<1>1. /\ Waits(c) /\ Waits(d) /\ d.gen <= generation
      /\ c \in Command /\ d \in Command
  BY QueuedType DEF WaitInv
<1>2. /\ c.gen \in Gens /\ c.op \in {"LOAD", "STOP"} /\ c.by \in Callers
      /\ d.gen \in Gens /\ d.op \in {"LOAD", "STOP"} /\ d.by \in Callers
      /\ c.gen # d.gen \/ c.op # d.op \/ c.by # d.by
  BY <1>1 DEF Command
<1>m. /\ \/ worker' = worker
         \/ c.by = "start" /\ worker = At("loading", c.gen)
      /\ \A g \in Gens : reload'[g] = reload[g] \/ (g = c.gen /\ c.by \in {"reload", "discard"})
      /\ \A g \in Gens : tear'[g] = tear[g] \/ (g = c.gen /\ c.by = "teardown")
  BY <1>1, ReplyMoves
<1>3. d.by = "start" => /\ d.op = "LOAD" /\ (worker = At("loading", d.gen) \/ worker.pc = "exited")' 
                        /\ tear'[d.gen] = "none" /\ d.gen \notin alive'
  <2>. SUFFICES ASSUME d.by = "start"
                PROVE  /\ d.op = "LOAD" /\ (worker = At("loading", d.gen) \/ worker.pc = "exited")'
                       /\ tear'[d.gen] = "none" /\ d.gen \notin alive'
    OBVIOUS
  <2>1. /\ d.op = "LOAD" /\ tear[d.gen] = "none" /\ d.gen \notin alive
        /\ worker = At("loading", d.gen) \/ worker.pc = "exited"
    BY <1>1 DEF Waits
  <2>2. tear'[d.gen] = "none"
    BY <1>1, <1>2, <1>m, <2>1 DEF Waits
  <2>3. worker' = worker
    BY <1>1, <1>2, <1>m, <2>1 DEF Waits, At
  <2>. QED BY <2>1, <2>2, <2>3
<1>4. d.by = "teardown" => d.op = "STOP" /\ tear'[d.gen] = "stop"
  BY <1>1, <1>2, <1>m DEF Waits
<1>5. d.by = "reload" => reload'[d.gen] = IF d.op = "LOAD" THEN "loading" ELSE "stop"
  BY <1>1, <1>2, <1>m DEF Waits
<1>6. d.by = "discard" => d.op = "STOP" /\ reload'[d.gen] = "discarding"
  BY <1>1, <1>2, <1>m DEF Waits
<1>. QED BY <1>1, <1>3, <1>4, <1>5, <1>6 DEF Waits

\* A live session's generation has been stamped, and so has one that is being torn down.
LEMMA StampedGens ==
  ASSUME TypeOK, HolderInv, NEW g \in Gens, g \in alive \/ tear[g] # "none"
  PROVE  g <= generation
BY DEF TypeOK, HolderInv, Gens

\* Where full ends start, the session handed to teardown is the one the slot plays.
LEMMA SlotSession ==
  ASSUME TypeOK, HolderInv, slot.st = "Playing"
  PROVE  /\ slot.gen \in Gens /\ slot.gen = generation /\ slot.gen \in alive /\ tear[slot.gen] = "none"
         /\ slot = Playing(slot.gen) /\ worker.pc \notin StartPcs
BY DEF TypeOK, HolderInv, Idle, Playing

\* Sending a command whose caller starts to wait with it.
LEMMA SendWaits ==
  ASSUME TypeOK, WaitInv, Distinct, NEW op \in {"LOAD", "STOP"}, NEW by \in Callers, NEW g \in Gens,
         Send(Cmd(op, by, g)), ~Waits(Cmd(op, by, g)), Waits(Cmd(op, by, g))', g <= generation'
  PROVE  Distinct' /\ (\A c \in Queued' : c \in Queued \/ (Waits(c)' /\ c.gen <= generation'))
<1>1. Cmd(op, by, g) \in Command /\ Cmd(op, by, g).gen = g /\ Cmd(op, by, g) \notin Queued
  BY CmdType DEF WaitInv
<1>2. Queued' \subseteq Queued \cup {Cmd(op, by, g)}
  BY <1>1, QueuedSend
<1>3. Distinct'
  BY <1>1, DistinctSend DEF TypeOK
<1>4. Waits(Cmd(op, by, g))' /\ Cmd(op, by, g).gen <= generation'
  BY <1>1
<1>. QED BY <1>2, <1>3, <1>4

LEMMA WaitStep ==
  ASSUME ~OffWorkerEnds, ~Timeouts, SessionInv, TypeOK', QuietInv, [Next]_vars
  PROVE  Distinct' /\ WaitInv'
<1>a. /\ TypeOK /\ HolderInv /\ ReloadInv /\ CommandInv /\ Distinct /\ WaitInv /\ QuietHolder /\ QuietTear
  BY DEF SessionInv, QuietInv
<1>b. commands \in Seq(Command) /\ generation' \in Nat /\ generation \in Nat
  BY <1>a, BoundsAssumption DEF TypeOK
<1>c. generation <= generation
  BY <1>b
<1>t. /\ TypeOK /\ HolderInv /\ ReloadInv /\ CommandInv /\ Distinct /\ WaitInv /\ QuietHolder /\ QuietTear
      /\ commands \in Seq(Command) /\ generation' \in Nat /\ generation \in Nat /\ generation <= generation
  BY <1>a, <1>b, <1>c
<1>1. ASSUME UNCHANGED <<worker, generation, tear, alive, commands>>,
             \A g \in Gens : reload[g] \in {"loading", "stop", "discarding"} => reload'[g] = reload[g]
      PROVE  Distinct' /\ WaitInv'
  <2>1. Distinct' /\ Queued' = Queued
    BY <1>1, <1>t, QueuedSame DEF Distinct
  <2>2. WaitInv'
    BY <1>1, <1>t, <2>1, WaitsKept
  <2>. QED BY <2>1, <2>2
<1>2. CASE Receiver \/ SkipStaleStart \/ DropEnded \/ CastStolen \/ RequestShutdown \/ UNCHANGED vars
           \/ \E g \in Gens : GateReload(g) \/ CheckReload(g) \/ ReadAlive(g) \/ AcceptReload(g)
  <2>1. CASE Receiver \/ SkipStaleStart \/ DropEnded \/ CastStolen \/ RequestShutdown \/ UNCHANGED vars
    BY <2>1, <1>1, <1>t DEF Receiver, OpenStream, PublishStarted, CloseStream, SkipStaleStart, DropEnded, CastStolen,
       RequestShutdown, vars, sessions, teardown, loads, castpool
  <2>2. ASSUME NEW g \in Gens, GateReload(g) \/ CheckReload(g) \/ ReadAlive(g) \/ AcceptReload(g)
        PROVE  Distinct' /\ WaitInv'
    <3>1. UNCHANGED <<worker, generation, tear, alive, commands>>
      BY <2>2 DEF GateReload, CheckReload, ReadAlive, AcceptReload, ReloadOnly, sessions, teardown, loads, castpool
    <3>2. /\ reload[g] \in {"none", "gated", "landed", "accept"}
          /\ \A h \in Gens : h # g => reload'[h] = reload[h]
      BY <2>2, <1>t DEF GateReload, CheckReload, ReadAlive, AcceptReload, ReloadTo, TypeOK
    <3>. QED BY <3>1, <3>2, <1>1
  <2>. QED BY <1>2, <2>1, <2>2
<1>3. CASE AcceptStart
  <2>1. /\ worker = Resting /\ UNCHANGED <<alive, commands, reload>> /\ generation' = generation + 1
        /\ \/ UNCHANGED tear
           \/ slot.st = "Playing" /\ BeginTeardown(slot.gen, "SkipStopForReplace")
    BY <1>3 DEF AcceptStart, WorkerTakes, NextGeneration, loads, castpool, teardown
  <2>2. \A g \in Gens : tear[g] = "stop" => tear'[g] = "stop"
    BY <2>1, <1>t, SlotSession, BeginTeardownEffect
  <2>3. Distinct' /\ Queued' = Queued /\ generation <= generation'
    BY <2>1, <1>t, QueuedSame DEF Distinct
  <2>4. worker.pc \notin {"loading", "exited"}
    BY <2>1 DEF Resting, At
  <2>. QED BY <2>1, <2>2, <2>3, <2>4, <1>t, WaitsKept
<1>4. CASE AbandonStart \/ StartLoadFailed \/ EndedTornDown \/ AfterLoad \/ InstallPlaying
  <2>1. /\ worker.pc \notin {"loading", "exited"} /\ UNCHANGED <<generation, tear, commands, reload>>
    <3>1. CASE AbandonStart \/ StartLoadFailed \/ EndedTornDown
      BY <3>1 DEF AbandonStart, StartLoadFailed, EndedTornDown, sessions, teardown, loads, castpool
    <3>2. CASE AfterLoad
      BY <3>2, <1>t DEF AfterLoad, QuietHolder, StartPcs, StartingStill, teardown, loads
    <3>3. CASE InstallPlaying
      BY <3>3, <1>t DEF InstallPlaying, QuietHolder, StartPcs, StartingStill, teardown, loads, castpool
    <3>. QED BY <1>4, <3>1, <3>2, <3>3
  <2>2. Distinct' /\ Queued' = Queued
    BY <2>1, <1>t, QueuedSame DEF Distinct
  <2>. QED BY <2>1, <2>2, <1>t, WaitsKept
<1>5. CASE BeginLoad
  <2>1. /\ worker.pc = "prebuffer" /\ worker' = At("loading", worker.gen) /\ Send(Cmd("LOAD", "start", worker.gen))
        /\ UNCHANGED <<generation, alive, tear, reload>>
    BY <1>5 DEF BeginLoad, teardown, loads
  <2>2. /\ worker.gen \in Gens /\ worker.gen = generation /\ tear[worker.gen] = "none" /\ worker.gen \notin alive
    BY <2>1, <1>t, StartingWorker DEF HolderInv, StartPcs
  <2>3. PICK g \in Gens : g = worker.gen
    BY <2>2
  <2>4. ~Waits(Cmd("LOAD", "start", g)) /\ Waits(Cmd("LOAD", "start", g))' /\ g <= generation'
    BY <2>1, <2>2, <2>3, <1>t DEF Waits, Cmd, At
  <2>5. Distinct' /\ (\A c \in Queued' : c \in Queued \/ (Waits(c)' /\ c.gen <= generation'))
    BY <2>1, <2>3, <2>4, <1>t, SendWaits DEF Callers
  <2>6. worker.pc \notin {"loading", "exited"}
    BY <2>1
  <2>. QED BY <2>1, <2>5, <2>6, <1>t, WaitsKept
<1>6. CASE HandleEnded
  <2>1. /\ worker = Resting /\ UNCHANGED <<generation, alive, commands, reload>>
        /\ slot.st = "Playing" /\ BeginTeardown(slot.gen, "StopBestEffort")
    BY <1>6 DEF HandleEnded, WorkerTakes, TakeLiveSession, Playing, sessions, loads, castpool
  <2>2. \A g \in Gens : tear[g] = "stop" => tear'[g] = "stop"
    BY <2>1, <1>t, SlotSession, BeginTeardownEffect
  <2>3. Distinct' /\ Queued' = Queued
    BY <2>1, <1>t, QueuedSame DEF Distinct
  <2>4. worker.pc \notin {"loading", "exited"}
    BY <2>1 DEF Resting, At
  <2>. QED BY <2>1, <2>2, <2>3, <2>4, <1>t, WaitsKept
<1>7. CASE WorkerExits
  <2>1. /\ worker'.pc = "exited" /\ worker.pc # "exited" /\ UNCHANGED <<generation, alive, tear, commands, reload>>
    BY <1>7 DEF WorkerExits, teardown, loads, castpool, At, Resting, StartPcs
  <2>2. Distinct' /\ Queued' = Queued
    BY <2>1, <1>t, QueuedSame DEF Distinct
  <2>. QED BY <2>1, <2>2, <1>t, WaitsKept
<1>8. CASE EndAllSessions
  <2>1. /\ UNCHANGED <<worker, generation, alive, commands, reload>>
        /\ \/ UNCHANGED tear
           \/ slot.st = "Playing" /\ BeginTeardown(slot.gen, "StopBestEffort")
    BY <1>8 DEF EndAllSessions, EndSlot, sessions, loads, castpool, teardown
  <2>2. \A g \in Gens : /\ tear[g] = "stop" => tear'[g] = "stop"
                        /\ tear[g] = "none" /\ g \notin alive => tear'[g] = "none"
    BY <2>1, <1>t, SlotSession, BeginTeardownEffect
  <2>3. Distinct' /\ Queued' = Queued
    BY <2>1, <1>t, QueuedSame DEF Distinct
  <2>. QED BY <2>1, <2>2, <2>3, <1>t, WaitsKept
<1>9. ASSUME NEW g \in Gens, MarkTeardown(g) \/ KillSession(g) PROVE Distinct' /\ WaitInv'
  <2>1. /\ UNCHANGED <<worker, generation, commands, reload>> /\ (\A h \in alive' : h \in alive)
        /\ tear[g] \in {"mark", "kill"} /\ \A h \in Gens : h # g => tear'[h] = tear[h]
    BY <1>9, <1>t DEF MarkTeardown, KillSession, loads, castpool, TypeOK
  <2>2. Distinct' /\ Queued' = Queued
    BY <2>1, <1>t, QueuedSame DEF Distinct
  <2>3. \A h \in Gens : /\ tear[h] = "stop" => tear'[h] = "stop"
                        /\ tear[h] = "none" /\ h \notin alive => tear'[h] = "none" /\ h \notin alive'
    BY <2>1
  <2>. QED BY <2>1, <2>2, <2>3, <1>t, WaitsKept
<1>10. ASSUME NEW g \in Gens, JoinAndEndMedia(g) PROVE Distinct' /\ WaitInv'
  <2>1. /\ UNCHANGED <<worker, generation, alive>> /\ tear[g] = "join"
        /\ \A h \in Gens : h # g => tear'[h] = tear[h]
        /\ \A h \in Gens : reload[h] \in {"loading", "stop", "discarding"} => reload'[h] = reload[h]
        /\ \/ UNCHANGED commands
           \/ tear'[g] = "stop" /\ Send(Cmd("STOP", "teardown", g))
    BY <1>10, <1>t DEF JoinAndEndMedia, TypeOK
  <2>2. Distinct' /\ (\A c \in Queued' : c \in Queued \/ (Waits(c)' /\ c.gen <= generation'))
    <3>1. CASE UNCHANGED commands
      BY <3>1, <1>t, QueuedSame DEF Distinct
    <3>2. CASE tear'[g] = "stop" /\ Send(Cmd("STOP", "teardown", g))
      <4>1. ~Waits(Cmd("STOP", "teardown", g)) /\ Waits(Cmd("STOP", "teardown", g))' /\ g <= generation'
        BY <2>1, <3>2, <1>t, StampedGens DEF Waits, Cmd
      <4>. QED BY <3>2, <4>1, <1>t, SendWaits DEF Callers
    <3>. QED BY <2>1, <3>1, <3>2
  <2>. QED BY <2>1, <2>2, <1>t, WaitsKept
<1>11. ASSUME NEW g \in Gens, SendReload(g) \/ ReadLateStop(g) \/ SendDiscard(g) PROVE Distinct' /\ WaitInv'
  <2>1. /\ UNCHANGED <<worker, generation, alive, tear>> /\ reload[g] \in {"checked", "dead", "discard"}
        /\ \A h \in Gens : h # g => reload'[h] = reload[h]
        /\ \/ UNCHANGED commands
           \/ reload'[g] = "loading" /\ Send(Cmd("LOAD", "reload", g))
           \/ reload'[g] = "stop" /\ Send(Cmd("STOP", "reload", g))
           \/ reload'[g] = "discarding" /\ Send(Cmd("STOP", "discard", g))
    BY <1>11, <1>t DEF SendReload, ReadLateStop, SendDiscard, ReloadTo, ReloadOnly, sessions, teardown, TypeOK
  <2>2. g <= generation'
    BY <2>1, <1>t, StampedGens DEF ReloadInv, Killed
  <2>3. Distinct' /\ (\A c \in Queued' : c \in Queued \/ (Waits(c)' /\ c.gen <= generation'))
    <3>1. CASE UNCHANGED commands
      BY <3>1, <1>t, QueuedSame DEF Distinct
    <3>2. ASSUME NEW op \in {"LOAD", "STOP"}, NEW by \in {"reload", "discard"}, Send(Cmd(op, by, g)),
                 ~Waits(Cmd(op, by, g)), Waits(Cmd(op, by, g))'
          PROVE  Distinct' /\ (\A c \in Queued' : c \in Queued \/ (Waits(c)' /\ c.gen <= generation'))
      BY <2>2, <3>2, <1>t, SendWaits DEF Callers
    <3>3. CASE reload'[g] = "loading" /\ Send(Cmd("LOAD", "reload", g))
      <4>1. ~Waits(Cmd("LOAD", "reload", g)) /\ Waits(Cmd("LOAD", "reload", g))'
        BY <2>1, <3>3 DEF Waits, Cmd
      <4>. QED BY <3>3, <4>1, <3>2
    <3>4. CASE reload'[g] = "stop" /\ Send(Cmd("STOP", "reload", g))
      <4>1. ~Waits(Cmd("STOP", "reload", g)) /\ Waits(Cmd("STOP", "reload", g))'
        BY <2>1, <3>4 DEF Waits, Cmd
      <4>. QED BY <3>4, <4>1, <3>2
    <3>5. CASE reload'[g] = "discarding" /\ Send(Cmd("STOP", "discard", g))
      <4>1. ~Waits(Cmd("STOP", "discard", g)) /\ Waits(Cmd("STOP", "discard", g))'
        BY <2>1, <3>5 DEF Waits, Cmd
      <4>. QED BY <3>5, <4>1, <3>2
    <3>. QED BY <2>1, <3>1, <3>3, <3>4, <3>5
  <2>. QED BY <2>1, <2>3, <1>t, WaitsKept
<1>12. CASE CastStep
  <2>1. PICK op \in {"LOAD", "STOP"}, ok \in BOOLEAN : /\ Serves(op) /\ Reply(Head(commands), ok) /\ UNCHANGED <<alive, generation>>
    BY <1>12 DEF CastStep, ServeLoad, FailLoad, ServeStop, sessions
  <2>2. /\ Distinct' /\ Head(commands) \in Queued
        /\ \A c \in Queued' : c \in Queued /\ c # Head(commands)
    BY <2>1, <1>t, DistinctServe
  <2>3. ASSUME NEW d \in Queued' PROVE Waits(d)' /\ d.gen <= generation'
    BY <2>1, <2>2, <1>t, WaitsServed
  <2>. QED BY <2>2, <2>3 DEF WaitInv
<1>13. ~EndCastSession /\ \A g \in Gens : ~TerminalStallEnd(g) /\ ~GiveUpStop(g)
  BY DEF EndCastSession, TerminalStallEnd, GiveUpStop
<1>. QED BY <1>2, <1>3, <1>4, <1>5, <1>6, <1>7, <1>8, <1>9, <1>10, <1>11, <1>12, <1>13
     DEF Next, WorkerStep, Outside, TeardownStep, ReloadStep

\* Steps that leave the worker and the slot alone keep every session's holder.
LEMMA HolderKept ==
  ASSUME TypeOK, QuietHolder, UNCHANGED <<worker, slot>>, stopping => stopping', alive' \subseteq alive,
         \A g \in Gens : tear[g] # "none" => tear'[g] # "none"
  PROVE  QuietHolder'
BY DEF QuietHolder, TypeOK

LEMMA HolderStep ==
  ASSUME ~OffWorkerEnds, ~Timeouts, SessionInv, QuietInv, [Next]_vars
  PROVE  QuietHolder'
<1>t. TypeOK /\ HolderInv /\ WaitInv /\ Distinct /\ QuietHolder
  BY DEF SessionInv, QuietInv
<1>g. alive \subseteq Gens /\ tear \in [Gens -> TearPcs] /\ commands \in Seq(Command)
  BY <1>t DEF TypeOK
<1>1. CASE Receiver \/ SkipStaleStart \/ DropEnded \/ CastStolen \/ UNCHANGED vars
  <2>1. UNCHANGED <<worker, slot, alive, tear, stopping>>
    BY <1>1 DEF Receiver, OpenStream, PublishStarted, CloseStream, SkipStaleStart, DropEnded, CastStolen,
       vars, sessions, teardown
  <2>. QED BY <2>1, <1>t, HolderKept
<1>14. CASE RequestShutdown
  <2>1. UNCHANGED <<worker, slot, alive, tear>> /\ stopping'
    BY <1>14 DEF RequestShutdown, sessions, teardown
  <2>. QED BY <2>1, <1>t, HolderKept
<1>2. ASSUME NEW g \in Gens, \/ GateReload(g) \/ CheckReload(g) \/ SendReload(g) \/ ReadAlive(g)
                             \/ ReadLateStop(g) \/ AcceptReload(g) \/ SendDiscard(g)
      PROVE  QuietHolder'
  <2>1. UNCHANGED <<worker, slot, alive, tear, stopping>>
    BY <1>2 DEF GateReload, CheckReload, SendReload, ReadAlive, ReadLateStop, AcceptReload, SendDiscard,
       ReloadOnly, sessions, teardown
  <2>. QED BY <2>1, <1>t, HolderKept
<1>3. ASSUME NEW g \in Gens, MarkTeardown(g) \/ KillSession(g) \/ JoinAndEndMedia(g) PROVE QuietHolder'
  <2>1. UNCHANGED <<worker, slot, stopping>> /\ alive' \subseteq alive
    BY <1>3 DEF MarkTeardown, KillSession, JoinAndEndMedia
  <2>2. \A h \in Gens : tear[h] # "none" => tear'[h] # "none"
    BY <1>3, <1>g DEF MarkTeardown, KillSession, JoinAndEndMedia
  <2>. QED BY <2>1, <2>2, <1>t, HolderKept
<1>4. CASE AcceptStart
  <2>1. /\ worker' = At("prebuffer", generation + 1) /\ slot' = Starting(generation + 1) /\ UNCHANGED <<alive, stopping>>
        /\ slot.st = "Playing" => BeginTeardown(slot.gen, "SkipStopForReplace")
        /\ slot.st # "Playing" => tear' = tear
    BY <1>4 DEF AcceptStart, NextGeneration, teardown
  <2>2. \A g \in alive : tear'[g] # "none"
    BY <2>1, <1>t, <1>g, SlotSession, BeginTeardownEffect DEF QuietHolder, Playing
  <2>. QED BY <2>1, <2>2 DEF QuietHolder, At
<1>5. CASE AbandonStart \/ StartLoadFailed
  <2>1. worker.pc \in StartPcs /\ worker' = Resting /\ UNCHANGED <<alive, tear, stopping>>
    BY <1>5 DEF AbandonStart, StartLoadFailed, StartPcs, sessions, teardown
  <2>2. \A g \in alive : tear[g] # "none"
    BY <2>1, <1>t DEF QuietHolder, Starting, Playing
  <2>. QED BY <2>1, <2>2 DEF QuietHolder, Resting, At, StartPcs
<1>6. CASE BeginLoad \/ AfterLoad
  <2>1. /\ worker.pc \in StartPcs
        /\ worker' = At("loading", worker.gen) \/ worker' = At("volume", worker.gen)
        /\ UNCHANGED <<slot, alive, tear, stopping>>
    BY <1>6, <1>t DEF BeginLoad, AfterLoad, StartPcs, StartingStill, QuietHolder, teardown
  <2>. QED BY <2>1, <1>t DEF QuietHolder, At, StartPcs
<1>7. CASE InstallPlaying
  <2>1. /\ worker.pc \in StartPcs /\ worker' = Resting /\ slot = Starting(worker.gen) /\ slot' = Playing(worker.gen)
        /\ alive' = alive \cup {worker.gen} /\ UNCHANGED <<tear, stopping>>
    BY <1>7, <1>t DEF InstallPlaying, StartPcs, StartingStill, QuietHolder, teardown
  <2>. QED BY <2>1, <1>t DEF QuietHolder, Resting, At, StartPcs, Starting, Playing
<1>8. CASE HandleEnded
  <2>1. /\ worker' = At("ending", slot.gen) /\ UNCHANGED <<alive, stopping>>
        /\ slot.st = "Playing" /\ BeginTeardown(slot.gen, "StopBestEffort")
    BY <1>8 DEF HandleEnded, TakeLiveSession, Playing, sessions
  <2>2. \A g \in alive : tear'[g] # "none"
    BY <2>1, <1>t, <1>g, SlotSession, BeginTeardownEffect DEF QuietHolder, Playing
  <2>. QED BY <2>1, <2>2 DEF QuietHolder, At, StartPcs
<1>9. CASE EndedTornDown
  <2>1. worker' = Resting /\ UNCHANGED <<slot, alive, tear, stopping>>
    BY <1>9 DEF EndedTornDown, sessions, teardown
  <2>. QED BY <2>1, <1>t DEF QuietHolder, Resting, At, StartPcs
<1>10. CASE WorkerExits
  <2>1. worker' = At("exited", None) /\ stopping' /\ UNCHANGED <<alive, tear>>
        /\ (slot' = slot \/ worker.pc \in StartPcs)
    BY <1>10 DEF WorkerExits, teardown, Resting
  <2>2. \A g \in alive : slot' = Playing(g) \/ tear[g] # "none"
    BY <2>1, <1>t DEF QuietHolder, Starting, Playing
  <2>. QED BY <2>1, <2>2 DEF QuietHolder, At, StartPcs
<1>11. CASE EndAllSessions
  <2>1. /\ worker.pc = "exited" /\ UNCHANGED <<worker, alive, stopping>>
        /\ slot.st = "Playing" => BeginTeardown(slot.gen, "StopBestEffort")
        /\ slot.st # "Playing" => tear' = tear
    BY <1>11 DEF EndAllSessions, EndSlot, teardown, sessions
  <2>2. \A g \in alive : tear'[g] # "none"
    BY <2>1, <1>t, <1>g, SlotSession, BeginTeardownEffect DEF QuietHolder, Playing
  <2>. QED BY <2>1, <2>2, <1>t DEF QuietHolder, StartPcs
<1>12. CASE CastStep
  <2>1. PICK op \in {"LOAD", "STOP"}, ok \in BOOLEAN :
           Serves(op) /\ Reply(Head(commands), ok) /\ UNCHANGED <<slot, alive, stopping>>
    BY <1>12 DEF CastStep, ServeLoad, FailLoad, ServeStop, sessions
  <2>2. Waits(Head(commands)) /\ Head(commands) \in Command
    BY <2>1, <1>t, <1>g, DistinctServe DEF WaitInv
  <2>3. PICK c \in Command : c = Head(commands)
    BY <2>2
  <2>4. /\ \/ worker' = worker
           \/ /\ worker = At("loading", c.gen) /\ worker' \in {At("landed", c.gen), At("failed", c.gen)}
        /\ \A g \in Gens : tear[g] # "none" => tear'[g] # "none"
    BY <2>1, <2>2, <2>3, <1>t, ReplyMoves
  <2>. QED BY <2>1, <2>4, <1>t, <1>g DEF QuietHolder, At, StartPcs
<1>13. ~EndCastSession /\ \A g \in Gens : ~TerminalStallEnd(g) /\ ~GiveUpStop(g)
  BY DEF EndCastSession, TerminalStallEnd, GiveUpStop
<1>. QED BY <1>1, <1>2, <1>3, <1>4, <1>5, <1>6, <1>7, <1>8, <1>9, <1>10, <1>11, <1>12, <1>13, <1>14
     DEF Next, WorkerStep, Outside, TeardownStep, ReloadStep

\* Steps outside the teardowns and the re-LOADs leave QuietTear alone.
LEMMA TearKept ==
  ASSUME QuietTear, UNCHANGED <<alive, tear, policy, reload, generation>>, stopping => stopping',
         \A g \in Gens : worker = At("ending", g) => worker' = worker \/ tear[g] = "done"
  PROVE  QuietTear'
BY DEF QuietTear, Killed

\* Handing the newest session over for a full end that the worker awaits, or that shutdown
\* made, keeps QuietTear; so does a replace while no full end runs.
LEMMA TearHandedOver ==
  ASSUME TypeOK, QuietTear, NEW g \in Gens, NEW p, BeginTeardown(g, p), tear[g] = "none",
         UNCHANGED <<alive, reload, stopping>>,
         \A h \in Gens : /\ h # g /\ tear[h] \notin {"none", "done"} /\ policy[h] = "StopBestEffort"
                              => h = generation' /\ (worker' = At("ending", h) \/ stopping')
                         /\ h = g /\ p = "StopBestEffort"
                              => h = generation' /\ (worker' = At("ending", h) \/ stopping')
  PROVE  QuietTear'
<1>1. /\ tear'[g] = "mark" /\ policy'[g] = p
      /\ \A h \in Gens \ {g} : tear'[h] = tear[h] /\ policy'[h] = policy[h]
  BY BeginTeardownEffect
<1>. SUFFICES ASSUME NEW h \in Gens
              PROVE  /\ Killed(h)' => h \notin alive'
                     /\ tear'[h] \in {"stop", "done"} => reload'[h] \in {"none", "discard", "discarding"}
                     /\ tear'[h] \notin {"none", "done"} /\ policy'[h] = "StopBestEffort"
                          => h = generation' /\ (worker' = At("ending", h) \/ stopping')
  BY DEF QuietTear
<1>2. CASE h = g
  BY <1>1, <1>2 DEF Killed
<1>3. CASE h # g
  BY <1>1, <1>3 DEF QuietTear, Killed
<1>. QED BY <1>2, <1>3

\* A re-LOAD moves on where its session's teardown is not past the join, or only discards.
LEMMA TearReloaded ==
  ASSUME TypeOK, QuietTear, NEW g \in Gens, UNCHANGED <<alive, tear, policy, generation, worker, stopping>>,
         \A h \in Gens : h # g => reload'[h] = reload[h],
         tear[g] \notin {"stop", "done"} \/ reload'[g] \in {"none", "discard", "discarding"}
  PROVE  QuietTear'
<1>. SUFFICES ASSUME NEW h \in Gens
              PROVE  /\ Killed(h) => h \notin alive
                     /\ tear[h] \in {"stop", "done"} => reload'[h] \in {"none", "discard", "discarding"}
                     /\ tear[h] \notin {"none", "done"} /\ policy[h] = "StopBestEffort"
                          => h = generation /\ (worker = At("ending", h) \/ stopping)
  BY DEF QuietTear, Killed
<1>. QED BY DEF QuietTear

LEMMA TearStep ==
  ASSUME ~OffWorkerEnds, ~Timeouts, SessionInv, QuietInv, [Next]_vars
  PROVE  QuietTear'
<1>t. TypeOK /\ HolderInv /\ WaitInv /\ Distinct /\ QuietHolder /\ QuietTear
  BY DEF SessionInv, QuietInv
<1>g. /\ tear \in [Gens -> TearPcs] /\ commands \in Seq(Command) /\ reload \in [Gens -> LoadPcs]
  BY <1>t DEF TypeOK
<1>1. CASE Receiver \/ SkipStaleStart \/ DropEnded \/ CastStolen \/ UNCHANGED vars
  <2>1. UNCHANGED <<worker, alive, tear, policy, reload, generation, stopping>>
    BY <1>1 DEF Receiver, OpenStream, PublishStarted, CloseStream, SkipStaleStart, DropEnded, CastStolen,
       vars, sessions, teardown, loads
  <2>. QED BY <2>1, <1>t, TearKept
<1>2. CASE RequestShutdown
  <2>1. UNCHANGED <<worker, alive, tear, policy, reload, generation>> /\ stopping'
    BY <1>2 DEF RequestShutdown, sessions, teardown, loads
  <2>. QED BY <2>1, <1>t, TearKept
<1>3. CASE AbandonStart \/ BeginLoad \/ StartLoadFailed \/ AfterLoad \/ WorkerExits
  <2>1. UNCHANGED <<alive, tear, policy, reload, generation, stopping>> /\ worker.pc # "ending"
    BY <1>3 DEF AbandonStart, BeginLoad, StartLoadFailed, AfterLoad, WorkerExits, sessions, teardown, loads,
       StartPcs, Resting, At
  <2>2. \A g \in Gens : worker # At("ending", g)
    BY <2>1 DEF At
  <2>. QED BY <2>1, <2>2, <1>t, TearKept
<1>4. CASE EndedTornDown
  <2>1. /\ UNCHANGED <<alive, tear, policy, reload, generation, stopping>> /\ tear[worker.gen] = "done"
    BY <1>4 DEF EndedTornDown, sessions, teardown, loads, TornDown
  <2>2. \A g \in Gens : worker = At("ending", g) => tear[g] = "done"
    BY <2>1 DEF At
  <2>. QED BY <2>1, <2>2, <1>t, TearKept
<1>5. CASE AcceptStart
  <2>1. /\ worker = Resting /\ ~stopping /\ UNCHANGED <<alive, reload, stopping>>
        /\ slot.st = "Playing" => BeginTeardown(slot.gen, "SkipStopForReplace")
        /\ slot.st # "Playing" => UNCHANGED <<tear, policy>>
    BY <1>5 DEF AcceptStart, WorkerTakes, teardown, loads
  <2>2. \A h \in Gens : ~(tear[h] \notin {"none", "done"} /\ policy[h] = "StopBestEffort")
    BY <2>1, <1>t DEF QuietTear, Resting, At
  <2>3. CASE slot.st = "Playing"
    BY <2>1, <2>2, <2>3, <1>t, SlotSession, TearHandedOver
  <2>4. CASE slot.st # "Playing"
    BY <2>1, <2>2, <2>4, <1>t DEF QuietTear, Killed
  <2>. QED BY <2>3, <2>4
<1>6. CASE InstallPlaying
  <2>1. /\ worker.pc \in StartPcs /\ worker.pc # "ending" /\ alive' = alive \cup {worker.gen}
        /\ UNCHANGED <<tear, policy, reload, generation, stopping>>
    BY <1>6, <1>t DEF InstallPlaying, StartPcs, StartingStill, QuietHolder, teardown, loads
  <2>2. tear[worker.gen] = "none"
    BY <2>1, <1>t DEF HolderInv
  <2>3. \A g \in Gens : worker # At("ending", g)
    BY <2>1 DEF At
  <2>. QED BY <2>1, <2>2, <2>3, <1>t DEF QuietTear, Killed
<1>7. CASE HandleEnded
  <2>1. /\ worker = Resting /\ ~stopping /\ worker' = At("ending", slot.gen) /\ UNCHANGED <<alive, reload, stopping, generation>>
        /\ slot.st = "Playing" /\ BeginTeardown(slot.gen, "StopBestEffort")
    BY <1>7 DEF HandleEnded, WorkerTakes, TakeLiveSession, Playing, sessions, loads
  <2>2. \A h \in Gens : ~(tear[h] \notin {"none", "done"} /\ policy[h] = "StopBestEffort")
    BY <2>1, <1>t DEF QuietTear, Resting, At
  <2>. QED BY <2>1, <2>2, <1>t, SlotSession, TearHandedOver
<1>8. CASE EndAllSessions
  <2>1. /\ stopping /\ UNCHANGED <<worker, alive, reload, stopping, generation>>
        /\ slot.st = "Playing" => BeginTeardown(slot.gen, "StopBestEffort")
        /\ slot.st # "Playing" => UNCHANGED <<tear, policy>>
    BY <1>8, <1>t DEF EndAllSessions, EndSlot, QuietHolder, sessions, loads, teardown
  <2>2. CASE slot.st = "Playing"
    <3>1. \A h \in Gens : tear[h] \notin {"none", "done"} /\ policy[h] = "StopBestEffort" => h = generation
      BY <1>t DEF QuietTear
    <3>. QED BY <2>1, <2>2, <3>1, <1>t, SlotSession, TearHandedOver
  <2>3. CASE slot.st # "Playing"
    BY <2>1, <2>3, <1>t, TearKept
  <2>. QED BY <2>2, <2>3
<1>9. ASSUME NEW g \in Gens, MarkTeardown(g) PROVE QuietTear'
  <2>1. /\ UNCHANGED <<worker, alive, policy, reload, generation, stopping>>
        /\ tear[g] = "mark" /\ tear'[g] = "kill" /\ \A h \in Gens : h # g => tear'[h] = tear[h]
    BY <1>9, <1>g DEF MarkTeardown, loads
  <2>. QED BY <2>1, <1>t DEF QuietTear, Killed
<1>10. ASSUME NEW g \in Gens, KillSession(g) PROVE QuietTear'
  <2>1. /\ UNCHANGED <<worker, policy, reload, generation, stopping>> /\ alive' = alive \ {g}
        /\ tear[g] = "kill" /\ tear'[g] = "join" /\ \A h \in Gens : h # g => tear'[h] = tear[h]
    BY <1>10, <1>g DEF KillSession, loads
  <2>. QED BY <2>1, <1>t DEF QuietTear, Killed
<1>11. ASSUME NEW g \in Gens, JoinAndEndMedia(g) PROVE QuietTear'
  <2>1. /\ UNCHANGED <<worker, alive, policy, generation, stopping>> /\ tear[g] = "join" /\ reload[g] \notin InflightPcs
        /\ tear'[g] = "stop" \/ tear'[g] = "done"
    BY <1>11, <1>g DEF JoinAndEndMedia
  <2>2. \A h \in Gens : h # g => tear'[h] = tear[h] /\ reload'[h] = reload[h]
    BY <1>11, <1>g DEF JoinAndEndMedia
  <2>3. reload'[g] \in {"none", "discard", "discarding"}
    BY <1>11, <2>1, <1>g DEF JoinAndEndMedia, LoadPcs, InflightPcs
  <2>. SUFFICES ASSUME NEW h \in Gens
                PROVE  /\ Killed(h)' => h \notin alive'
                       /\ tear'[h] \in {"stop", "done"} => reload'[h] \in {"none", "discard", "discarding"}
                       /\ tear'[h] \notin {"none", "done"} /\ policy'[h] = "StopBestEffort"
                            => h = generation' /\ (worker' = At("ending", h) \/ stopping')
    BY DEF QuietTear
  <2>4. CASE h = g
    <3>1. Killed(h)
      BY <2>1, <2>4 DEF Killed
    <3>. QED BY <2>1, <2>3, <2>4, <3>1, <1>t DEF QuietTear
  <2>5. CASE h # g
    BY <2>1, <2>2, <2>5, <1>t DEF QuietTear, Killed
  <2>. QED BY <2>4, <2>5
<1>12. ASSUME NEW g \in Gens, \/ GateReload(g) \/ CheckReload(g) \/ SendReload(g) \/ ReadAlive(g)
                              \/ ReadLateStop(g) \/ AcceptReload(g) \/ SendDiscard(g)
       PROVE  QuietTear'
  <2>1. UNCHANGED <<worker, alive, tear, policy, generation, stopping>>
    BY <1>12 DEF GateReload, CheckReload, SendReload, ReadAlive, ReadLateStop, AcceptReload, SendDiscard,
       ReloadOnly, sessions, teardown
  <2>2. \A h \in Gens : h # g => reload'[h] = reload[h]
    BY <1>12, <1>g DEF GateReload, CheckReload, SendReload, ReadAlive, ReadLateStop, AcceptReload, SendDiscard, ReloadTo
  <2>3. tear[g] \notin {"stop", "done"} \/ reload'[g] \in {"none", "discard", "discarding"}
    <3>1. CASE GateReload(g)
      BY <3>1, <1>t, SlotSession DEF GateReload, Playing
    <3>2. CASE SendDiscard(g)
      BY <3>2, <1>g DEF SendDiscard, ReloadTo
    <3>3. CASE CheckReload(g) \/ SendReload(g) \/ ReadAlive(g) \/ ReadLateStop(g) \/ AcceptReload(g)
      <4>1. reload[g] \in {"gated", "checked", "landed", "dead", "accept"}
        BY <3>3 DEF CheckReload, SendReload, ReadAlive, ReadLateStop, AcceptReload
      <4>. QED BY <4>1, <1>t DEF QuietTear
    <3>. QED BY <1>12, <3>1, <3>2, <3>3
  <2>. QED BY <2>1, <2>2, <2>3, <1>t, TearReloaded
<1>13. CASE CastStep
  <2>1. PICK op \in {"LOAD", "STOP"}, ok \in BOOLEAN :
           Serves(op) /\ Reply(Head(commands), ok) /\ UNCHANGED <<alive, policy, generation, stopping>>
    BY <1>13 DEF CastStep, ServeLoad, FailLoad, ServeStop, sessions
  <2>2. Waits(Head(commands)) /\ Head(commands) \in Command
    BY <2>1, <1>t, <1>g, DistinctServe DEF WaitInv
  <2>3. PICK c \in Command : c = Head(commands)
    BY <2>2
  <2>4. /\ worker' = worker \/ worker = At("loading", c.gen)
        /\ \A g \in Gens : \/ reload'[g] = reload[g]
                           \/ g = c.gen /\ c.by = "reload" /\ reload'[g] \in {"landed", "accept", "none"}
                           \/ g = c.gen /\ c.by = "discard" /\ reload'[g] = "none"
        /\ \A g \in Gens : tear'[g] = tear[g] \/ (g = c.gen /\ c.by = "teardown" /\ tear'[g] = "done")
    BY <2>1, <2>2, <2>3, <1>t, ReplyMoves
  <2>5. /\ c.by = "reload" => tear[c.gen] \notin {"stop", "done"}
        /\ c.by = "teardown" => tear[c.gen] = "stop"
    <3>1. c.gen \in Gens /\ Waits(c)
      BY <2>2, <2>3 DEF Command
    <3>. QED BY <3>1, <1>t DEF Waits, QuietTear
  <2>. SUFFICES ASSUME NEW g \in Gens
                PROVE  /\ Killed(g)' => g \notin alive'
                       /\ tear'[g] \in {"stop", "done"} => reload'[g] \in {"none", "discard", "discarding"}
                       /\ tear'[g] \notin {"none", "done"} /\ policy'[g] = "StopBestEffort"
                            => g = generation' /\ (worker' = At("ending", g) \/ stopping')
    BY DEF QuietTear
  <2>6. Killed(g)' => Killed(g)
    BY <2>4, <2>5 DEF Killed
  <2>7. tear'[g] \in {"stop", "done"} => tear[g] \in {"stop", "done"}
    BY <2>4, <2>5
  <2>8. worker = At("ending", g) => worker' = worker
    BY <2>4 DEF At
  <2>. QED BY <2>1, <2>4, <2>5, <2>6, <2>7, <2>8, <1>t DEF QuietTear
<1>14. ~EndCastSession /\ \A g \in Gens : ~TerminalStallEnd(g) /\ ~GiveUpStop(g)
  BY DEF EndCastSession, TerminalStallEnd, GiveUpStop
<1>. QED BY <1>1, <1>2, <1>3, <1>4, <1>5, <1>6, <1>7, <1>8, <1>9, <1>10, <1>11, <1>12, <1>13, <1>14
     DEF Next, WorkerStep, Outside, TeardownStep, ReloadStep

\* Steps that leave the speaker alone and lose no holder of what it plays keep MediaInv.
LEMMA MediaKept ==
  ASSUME TypeOK, MediaInv, UNCHANGED <<cast, active>>, generation <= generation', generation' \in Nat,
         stopping => stopping',
         worker'.pc \in {"prebuffer", "loading", "failed"} => cast # worker'.gen,
         ~stopping' => \A g \in Gens : cast = g /\ ((slot # Idle /\ slot.gen = g) \/ tear[g] # "none")
                          => (slot' # Idle /\ slot'.gen = g) \/ tear'[g] # "none",
         \A g \in Gens : tear'[g] = "done" /\ policy'[g] = "StopBestEffort"
                            => (tear[g] = "done" /\ policy[g] = "StopBestEffort") \/ cast # g
  PROVE  MediaInv'
<1>1. active \in Gens \cup {None} /\ generation \in Nat /\ Gens \subseteq Nat /\ None \in Nat
  BY BoundsAssumption DEF TypeOK, Gens, None
<1>2. active <= generation'
  <2>1. active \in Nat /\ active <= generation
    BY <1>1 DEF MediaInv
  <2>. QED BY <2>1, <1>1
<1>3. cast # None => cast = active /\ cast \in Gens
  BY <1>1 DEF MediaInv
<1>4. ~stopping' /\ cast # None => (slot' # Idle /\ slot'.gen = cast) \/ tear'[cast] # "none"
  BY <1>3 DEF MediaInv
<1>5. \A g \in Gens : tear'[g] = "done" /\ policy'[g] = "StopBestEffort" => cast # g
  BY DEF MediaInv
<1>6. cast' = cast /\ active' = active
  OBVIOUS
<1>. QED BY <1>2, <1>3, <1>4, <1>5, <1>6 DEF MediaInv

LEMMA MediaStep ==
  ASSUME ~OffWorkerEnds, ~Timeouts, SessionInv, TypeOK', StartInv, QuietInv, [Next]_vars
  PROVE  MediaInv'
<1>t. TypeOK /\ HolderInv /\ ReloadInv /\ WaitInv /\ Distinct /\ QuietHolder /\ QuietTear /\ MediaInv
  BY DEF SessionInv, QuietInv
<1>n. generation \in Nat /\ generation' \in Nat
  BY <1>t, BoundsAssumption DEF TypeOK
<1>l. generation <= generation
  BY <1>n
<1>y. tear \in [Gens -> TearPcs] /\ commands \in Seq(Command) /\ reload \in [Gens -> LoadPcs]
  BY <1>t DEF TypeOK
<1>g. /\ tear \in [Gens -> TearPcs] /\ commands \in Seq(Command) /\ reload \in [Gens -> LoadPcs]
      /\ generation \in Nat /\ generation' \in Nat /\ generation <= generation
  BY <1>n, <1>l, <1>y
<1>w. worker.pc \in {"prebuffer", "loading", "failed"} => cast # worker.gen
  BY <1>t DEF MediaInv
<1>1. CASE Receiver \/ SkipStaleStart \/ DropEnded \/ UNCHANGED vars
  <2>1. UNCHANGED <<worker, slot, tear, policy, generation, stopping, cast, active>>
    BY <1>1 DEF Receiver, OpenStream, PublishStarted, CloseStream, SkipStaleStart, DropEnded,
       vars, teardown, castpool, speaker
  <2>. QED BY <2>1, <1>t, <1>g, <1>w, MediaKept
<1>2. CASE RequestShutdown
  <2>1. UNCHANGED <<worker, slot, tear, policy, generation, cast, active>> /\ stopping'
    BY <1>2 DEF RequestShutdown, teardown, castpool, speaker
  <2>. QED BY <2>1, <1>t, <1>g, <1>w, MediaKept
<1>3. ASSUME NEW g \in Gens, \/ GateReload(g) \/ CheckReload(g) \/ SendReload(g) \/ ReadAlive(g)
                             \/ ReadLateStop(g) \/ AcceptReload(g) \/ SendDiscard(g)
      PROVE  MediaInv'
  <2>1. UNCHANGED <<worker, slot, tear, policy, generation, stopping, cast, active>>
    BY <1>3 DEF GateReload, CheckReload, SendReload, ReadAlive, ReadLateStop, AcceptReload, SendDiscard,
       ReloadOnly, teardown, castpool, speaker
  <2>. QED BY <2>1, <1>t, <1>g, <1>w, MediaKept
<1>4. ASSUME NEW g \in Gens, MarkTeardown(g) \/ KillSession(g) \/ JoinAndEndMedia(g) PROVE MediaInv'
  <2>1. /\ UNCHANGED <<worker, slot, policy, generation, stopping, cast, active>>
        /\ \A h \in Gens : tear[h] # "none" => tear'[h] # "none"
        /\ \A h \in Gens : tear'[h] = "done" => tear[h] = "done" \/ policy[h] = "SkipStopForReplace"
    <3>1. UNCHANGED <<worker, slot, policy, generation, stopping, cast, active>>
      BY <1>4 DEF MarkTeardown, KillSession, JoinAndEndMedia, castpool, speaker
    <3>2. /\ tear[g] # "none" /\ tear'[g] # "none"
          /\ tear'[g] = "done" => policy[g] = "SkipStopForReplace"
      BY <1>4, <1>g DEF MarkTeardown, KillSession, JoinAndEndMedia, SkipsStop
    <3>3. \A h \in Gens : h # g => tear'[h] = tear[h]
      BY <1>4, <1>g DEF MarkTeardown, KillSession, JoinAndEndMedia
    <3>. QED BY <3>1, <3>2, <3>3
  <2>. QED BY <2>1, <1>t, <1>g, <1>w, MediaKept
<1>5. CASE AcceptStart
  <2>1. /\ worker = Resting /\ worker' = At("prebuffer", generation + 1) /\ generation' = generation + 1
        /\ slot' = Starting(generation + 1) /\ UNCHANGED <<stopping, cast, active>>
        /\ slot.st = "Playing" => BeginTeardown(slot.gen, "SkipStopForReplace")
        /\ slot.st # "Playing" => UNCHANGED <<tear, policy>>
    BY <1>5 DEF AcceptStart, WorkerTakes, NextGeneration, teardown, castpool, speaker
  <2>2. cast # generation + 1
    <3>1. cast \in Gens \cup {None, Other} /\ active \in Nat /\ active <= generation /\ (cast # None => cast = active)
      BY <1>t DEF MediaInv, TypeOK, Gens, None
    <3>. QED BY <3>1, <1>g DEF None
  <2>3. slot # Idle => slot.st = "Playing"
    BY <2>1, <1>t DEF StartInv, TypeOK, Resting, At, StartPcs
  <2>4. \A g \in Gens : /\ (slot # Idle /\ slot.gen = g) \/ tear[g] # "none" => tear'[g] # "none"
                        /\ tear'[g] = "done" /\ policy'[g] = "StopBestEffort" => tear[g] = "done" /\ policy[g] = "StopBestEffort"
    BY <2>1, <2>3, <1>t, SlotSession, BeginTeardownEffect
  <2>5. generation <= generation' /\ worker'.gen = generation + 1
    BY <2>1, <1>g DEF At
  <2>. QED BY <2>1, <2>2, <2>4, <2>5, <1>t, <1>g, MediaKept
<1>6. CASE AbandonStart \/ StartLoadFailed
  <2>1. /\ worker.pc \in {"prebuffer", "failed"} /\ worker' = Resting
        /\ UNCHANGED <<tear, policy, generation, stopping, cast, active>>
    BY <1>6 DEF AbandonStart, StartLoadFailed, teardown, castpool, speaker
  <2>2. slot = Starting(worker.gen) /\ cast # worker.gen
    BY <2>1, <1>t DEF QuietHolder, MediaInv, StartPcs
  <2>3. \A g \in Gens : cast = g /\ ((slot # Idle /\ slot.gen = g) \/ tear[g] # "none") => tear[g] # "none"
    BY <2>2 DEF Starting
  <2>4. worker'.pc \notin {"prebuffer", "loading", "failed"}
    BY <2>1 DEF Resting, At
  <2>. QED BY <2>1, <2>3, <2>4, <1>t, <1>g, MediaKept
<1>7. CASE BeginLoad \/ AfterLoad \/ EndedTornDown
  <2>1. /\ \/ worker.pc = "prebuffer" /\ worker' = At("loading", worker.gen)
           \/ worker' = At("volume", worker.gen)
           \/ worker' = Resting
        /\ UNCHANGED <<slot, tear, policy, generation, stopping, cast, active>>
    BY <1>7, <1>t DEF BeginLoad, AfterLoad, EndedTornDown, StartPcs, StartingStill, QuietHolder,
       teardown, castpool, speaker
  <2>2. worker'.pc \in {"prebuffer", "loading", "failed"} => cast # worker'.gen
    BY <2>1, <1>w DEF At, Resting
  <2>. QED BY <2>1, <2>2, <1>t, <1>g, MediaKept
<1>8. CASE InstallPlaying
  <2>1. /\ worker' = Resting /\ slot = Starting(worker.gen) /\ slot' = Playing(worker.gen)
        /\ UNCHANGED <<tear, policy, generation, stopping, cast, active>>
    BY <1>8, <1>t DEF InstallPlaying, StartPcs, StartingStill, QuietHolder, teardown, castpool, speaker
  <2>2. worker'.pc \notin {"prebuffer", "loading", "failed"} /\ slot' # Idle /\ slot'.gen = slot.gen
    BY <2>1 DEF Resting, At, Starting, Playing, Idle
  <2>. QED BY <2>1, <2>2, <1>t, <1>g, MediaKept
<1>9. CASE HandleEnded
  <2>1. /\ worker' = At("ending", slot.gen) /\ UNCHANGED <<generation, stopping, cast, active>>
        /\ slot.st = "Playing" /\ BeginTeardown(slot.gen, "StopBestEffort")
    BY <1>9 DEF HandleEnded, TakeLiveSession, Playing, castpool, speaker
  <2>2. \A g \in Gens : /\ (slot # Idle /\ slot.gen = g) \/ tear[g] # "none" => tear'[g] # "none"
                        /\ tear'[g] = "done" /\ policy'[g] = "StopBestEffort" => tear[g] = "done" /\ policy[g] = "StopBestEffort"
    BY <2>1, <1>t, SlotSession, BeginTeardownEffect
  <2>3. worker'.pc \notin {"prebuffer", "loading", "failed"}
    BY <2>1 DEF At
  <2>. QED BY <2>1, <2>2, <2>3, <1>t, <1>g, MediaKept
<1>10. CASE WorkerExits
  <2>1. worker' = At("exited", None) /\ stopping' /\ UNCHANGED <<generation, tear, policy, cast, active>>
    BY <1>10 DEF WorkerExits, teardown, castpool, speaker
  <2>2. worker'.pc \notin {"prebuffer", "loading", "failed"}
    BY <2>1 DEF At
  <2>. QED BY <2>1, <2>2, <1>t, <1>g, MediaKept
<1>11. CASE EndAllSessions
  <2>1. /\ worker.pc = "exited" /\ stopping /\ UNCHANGED <<worker, stopping, generation, cast, active>>
        /\ slot.st = "Playing" => BeginTeardown(slot.gen, "StopBestEffort")
        /\ slot.st # "Playing" => UNCHANGED <<tear, policy>>
    BY <1>11, <1>t DEF EndAllSessions, EndSlot, QuietHolder, teardown, castpool, speaker
  <2>2. \A g \in Gens : tear'[g] = "done" /\ policy'[g] = "StopBestEffort" => tear[g] = "done" /\ policy[g] = "StopBestEffort"
    BY <2>1, <1>t, SlotSession, BeginTeardownEffect
  <2>. QED BY <2>1, <2>2, <1>t, <1>g, <1>w, MediaKept
<1>12. CASE CastStep
  <2>0. PICK op \in {"LOAD", "STOP"}, ok \in BOOLEAN :
           /\ Serves(op) /\ Reply(Head(commands), ok) /\ UNCHANGED <<slot, generation, stopping, policy>>
           /\ \/ op = "LOAD" /\ ok = TRUE /\ cast' = Head(commands).gen /\ active' = Head(commands).gen
              \/ op = "LOAD" /\ cast' \in {cast, None} /\ active' = active /\ ok = FALSE
              \/ op = "STOP" /\ Stopped
    BY <1>12 DEF CastStep, ServeLoad, FailLoad, ServeStop
  <2>1. /\ Waits(Head(commands)) /\ Head(commands) \in Command /\ Head(commands).gen <= generation
        /\ Head(commands).op = op
    BY <2>0, <1>t, <1>g, DistinctServe DEF WaitInv
  <2>2. PICK c \in Command : c = Head(commands)
    BY <2>1
  <2>3. /\ \/ worker' = worker
           \/ /\ c.by = "start" /\ worker = At("loading", c.gen)
              /\ worker' = At(IF ok THEN "landed" ELSE "failed", c.gen)
        /\ \A g \in Gens : tear'[g] = tear[g] \/ (g = c.gen /\ c.by = "teardown" /\ tear'[g] = "done")
    BY <2>0, <2>1, <2>2, <1>t, ReplyMoves
  <2>4. c.gen \in Gens /\ c.by \in Callers /\ Waits(c) /\ c.gen <= generation /\ c.op = op
    BY <2>1, <2>2 DEF Command
  <2>m. /\ active <= generation /\ (cast # None => cast = active)
        /\ worker.pc \in {"prebuffer", "loading", "failed"} => cast # worker.gen
        /\ ~stopping /\ cast # None => (slot # Idle /\ slot.gen = cast) \/ tear[cast] # "none"
        /\ \A g \in Gens : tear[g] = "done" /\ policy[g] = "StopBestEffort" => cast # g
    BY <1>t DEF MediaInv
  <2>5. CASE op = "LOAD" /\ ok = TRUE /\ cast' = Head(commands).gen /\ active' = Head(commands).gen
    <3>1. (c.by = "start" \/ c.by = "reload") /\ c.op = "LOAD" /\ UNCHANGED tear
      <4>1. c.op = "LOAD" /\ c.by \notin {"teardown", "discard"}
        BY <2>4, <2>5 DEF Waits
      <4>2. \A g \in Gens : tear'[g] = tear[g]
        BY <2>3, <4>1
      <4>3. tear' = tear
        BY <2>0, <2>2, <4>1 DEF Reply
      <4>. QED BY <2>4, <4>1, <4>3 DEF Callers
    <3>2. c.by = "start" => /\ worker = At("loading", c.gen) \/ worker.pc = "exited"
                            /\ tear[c.gen] = "none"
      BY <2>4 DEF Waits
    <3>3. c.by = "reload" => reload[c.gen] = "loading"
      BY <2>4, <3>1 DEF Waits
    <3>4. c.by = "reload" => c.gen \in alive \/ Killed(c.gen)
      BY <2>4, <3>3, <1>t DEF ReloadInv
    <3>5. worker'.pc \in {"prebuffer", "loading", "failed"} => c.gen # worker'.gen
      <4>1. CASE c.by = "reload"
        <5>1. worker' = worker
          BY <2>3, <4>1
        <5>. QED BY <5>1, <3>4, <4>1, <1>t DEF HolderInv, StartPcs, Killed
      <4>2. CASE c.by = "start" /\ worker = At("loading", c.gen)
        <5>1. worker.pc = "loading" /\ worker.gen = c.gen
          BY <4>2 DEF At
        <5>2. worker' = At("landed", c.gen)
          BY <2>0, <2>2, <2>5, <4>2, <5>1 DEF Reply
        <5>. QED BY <5>2 DEF At
      <4>3. CASE c.by = "start" /\ worker.pc = "exited"
        BY <2>3, <4>3 DEF At
      <4>. QED BY <3>1, <3>2, <4>1, <4>2, <4>3
    <3>6. ~stopping => (slot # Idle /\ slot.gen = c.gen) \/ tear[c.gen] # "none"
      <4>1. CASE c.by = "reload"
        BY <3>4, <4>1, <1>t DEF QuietHolder, Killed, Playing, Idle
      <4>2. CASE c.by = "start"
        BY <3>2, <4>2, <1>t DEF QuietHolder, At, StartPcs, Starting, Idle
      <4>. QED BY <3>1, <4>1, <4>2
    <3>7. ~(tear[c.gen] = "done")
      BY <3>1, <3>2, <3>3, <2>4, <1>t DEF QuietTear
    <3>8. cast' = c.gen /\ active' = c.gen
      BY <2>2, <2>5
    <3>. QED BY <2>0, <2>4, <3>1, <3>5, <3>6, <3>7, <3>8 DEF MediaInv
  <2>6. CASE op = "LOAD" /\ cast' \in {cast, None} /\ active' = active /\ ok = FALSE
    <3>1. c.by # "teardown"
      BY <2>4, <2>6 DEF Waits
    <3>2. \A g \in Gens : tear'[g] = tear[g]
      BY <2>3, <3>1
    <3>3. worker'.pc \in {"prebuffer", "loading", "failed"} => cast # worker'.gen /\ worker'.gen \in Gens
      <4>1. CASE worker' = worker
        BY <4>1, <2>m, <1>t, StartingWorker DEF StartPcs
      <4>2. CASE worker = At("loading", c.gen) /\ worker' = At("failed", c.gen)
        BY <4>2, <2>m, <2>4 DEF At
      <4>. QED BY <2>3, <2>6, <4>1, <4>2
    <3>4. None \notin Gens
      BY DEF None, Gens
    <3>5. cast # None => cast \in Gens
      BY <2>m, <1>t DEF TypeOK
    <3>. QED BY <2>0, <2>m, <2>6, <3>2, <3>3, <3>4, <3>5 DEF MediaInv
  <2>7. CASE op = "STOP" /\ Stopped
    <3>1. cast' = None /\ active' = None
      BY <2>7, <2>m DEF Stopped
    <3>2. worker'.pc \in {"prebuffer", "loading", "failed"} => worker'.gen \in Gens
      BY <2>3, <2>4, <1>t, StartingWorker DEF StartPcs, At
    <3>3. None \notin Gens /\ None <= generation
      BY <1>g DEF None, Gens
    <3>. QED BY <2>0, <3>1, <3>2, <3>3 DEF MediaInv
  <2>. QED BY <2>0, <2>5, <2>6, <2>7
<1>13. ~CastStolen /\ ~EndCastSession /\ \A g \in Gens : ~TerminalStallEnd(g) /\ ~GiveUpStop(g)
  BY DEF CastStolen, EndCastSession, TerminalStallEnd, GiveUpStop
<1>. QED BY <1>1, <1>2, <1>3, <1>4, <1>5, <1>6, <1>7, <1>8, <1>9, <1>10, <1>11, <1>12, <1>13
     DEF Next, WorkerStep, Outside, TeardownStep, ReloadStep

LEMMA QuietInit == Init => QuietInv
<1>. SUFFICES ASSUME Init PROVE QuietInv
  OBVIOUS
<1>1. commands = <<>> /\ Queued = {}
  BY DEF Init, Queued
<1>2. Distinct /\ WaitInv
  BY <1>1 DEF Distinct, WaitInv
<1>3. QuietHolder /\ QuietTear
  BY DEF Init, QuietHolder, QuietTear, Resting, At, StartPcs, Killed
<1>4. MediaInv
  BY DEF Init, MediaInv, Resting, At, None
<1>. QED BY <1>2, <1>3, <1>4 DEF QuietInv

\* SessionInv and QuietInv together carry over every step.
LEMMA QuietStep ==
  ASSUME ~OffWorkerEnds, ~Timeouts, SessionInv, StartInv, ServesInv, QuietInv, [Next]_vars
  PROVE  (SessionInv /\ StartInv /\ ServesInv /\ QuietInv)'
<1>1. SessionInv'
  BY TypeStep, SessionStep DEF SessionInv
<1>2. StartInv' /\ ServesInv'
  BY CurrentStep DEF SessionInv
<1>3. QuietInv'
  BY <1>1, WaitStep, HolderStep, TearStep, MediaStep DEF SessionInv, QuietInv
<1>. QED BY <1>1, <1>2, <1>3

\* Where sessions end through the device worker and every Cast call is waited for: commands, starts
\* and teardowns exclude each other, which the two promises below are read off.
THEOREM QuietInvariant ==
  ASSUME ~OffWorkerEnds, ~Timeouts
  PROVE  Spec => [](SessionInv /\ StartInv /\ ServesInv /\ QuietInv)
<1>1. Init => SessionInv /\ StartInv /\ ServesInv /\ QuietInv
  BY TypeInit, SessionInit, QuietInit DEF SessionInv, Init, StartInv, ServesInv, Idle
<1>2. SessionInv /\ StartInv /\ ServesInv /\ QuietInv /\ [Next]_vars => (SessionInv /\ StartInv /\ ServesInv /\ QuietInv)'
  BY QuietStep
<1>. QED BY <1>1, <1>2, PTL DEF Spec

\* Where sessions end through the device worker and every Cast call is waited for, no late
\* LOAD revives an ended session: what still plays at rest is the slot's session, or media
\* whose replace left the STOP to a successor.
THEOREM NoRevivedMediaHolds ==
  ASSUME ~OffWorkerEnds, ~Timeouts
  PROVE  Spec => []NoRevivedMedia
<1>1. SessionInv /\ StartInv /\ QuietInv => NoRevivedMedia
  <2>. SUFFICES ASSUME TypeOK, StartInv, QuietTear, MediaInv, Quiescent, ~stopping, cast \in Gens
                PROVE  slot = Playing(cast) \/ (tear[cast] = "done" /\ policy[cast] = "SkipStopForReplace")
    BY DEF NoRevivedMedia, SessionInv, QuietInv
  <2>1. (slot # Idle /\ slot.gen = cast) \/ tear[cast] # "none"
    BY DEF MediaInv, None, Gens
  <2>2. CASE slot # Idle /\ slot.gen = cast
    <3>1. slot.st # "Starting"
      BY DEF StartInv, Quiescent, StartPcs
    <3>. QED BY <2>2, <3>1 DEF TypeOK, Idle, Playing
  <2>3. CASE tear[cast] # "none"
    <3>1. tear[cast] = "done" /\ policy[cast] # "StopBestEffort"
      BY <2>3 DEF Quiescent, Torn, MediaInv
    <3>. QED BY <3>1 DEF TypeOK
  <2>. QED BY <2>1, <2>2, <2>3
<1>. QED BY <1>1, QuietInvariant, PTL

\* In the same setting no STOP that a teardown, a start or a joined LOAD thread sends for an
\* old generation ends a newer generation's media.
THEOREM StopSparesNewerHolds ==
  ASSUME ~OffWorkerEnds, ~Timeouts
  PROVE  Spec => StopSparesNewer
<1>1. ASSUME SessionInv, QuietInv, NEW g \in Gens, commands # <<>>,
             Head(commands) \in [op : {"STOP"}, by : {"start", "teardown", "reload"}, gen : {g}]
      PROVE  active <= g
  <2>t. TypeOK /\ CommandInv /\ ReloadInv /\ WaitInv /\ QuietTear /\ active <= generation
    BY <1>1 DEF SessionInv, QuietInv, MediaInv
  <2>1. Head(commands) \in Queued
    BY <1>1, <2>t DEF Queued, TypeOK
  <2>2. PICK c : c = Head(commands)
    OBVIOUS
  <2>3. c \in Queued /\ c.op = "STOP" /\ c.by \in {"start", "teardown", "reload"} /\ c.gen = g /\ Waits(c)
    BY <1>1, <2>1, <2>2, <2>t DEF WaitInv
  <2>4. c.by # "start"
    BY <2>3 DEF Waits
  <2>5. Killed(g) /\ policy[g] = "StopBestEffort"
    BY <2>3, <2>4, <2>t DEF CommandInv
  <2>6. tear[g] \notin {"none", "done"}
    <3>1. CASE c.by = "teardown"
      BY <2>3, <3>1 DEF Waits
    <3>2. CASE c.by = "reload"
      BY <2>3, <2>5, <3>2, <2>t DEF Waits, QuietTear, Killed
    <3>. QED BY <2>3, <2>4, <3>1, <3>2
  <2>7. g = generation
    BY <2>5, <2>6, <2>t DEF QuietTear
  <2>. QED BY <2>7, <2>t
<1>2. SessionInv /\ QuietInv => [\A g \in Gens :
        /\ commands # <<>> /\ commands' = Tail(commands)
        /\ Head(commands) \in [op : {"STOP"}, by : {"start", "teardown", "reload"}, gen : {g}]
        => active <= g]_vars
  BY <1>1
<1>. QED BY <1>2, QuietInvariant, PTL DEF StopSparesNewer
==============================================================================
