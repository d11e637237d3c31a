-------------------------- MODULE RemoteControl_proofs --------------------------
(***************************************************************************)
(* The volume loop cannot close, a group ends on the last slide, the       *)
(* sender is told of no tap that was not made, and a tap or a volume the   *)
(* speaker was touched to reaches the sender: for every set of levels and  *)
(* members.  None is inductive alone.  While nobody has touched the mute,  *)
(* every volume the speaker may report is one that was chosen on it or one *)
(* of our own that is still within the echo window, or it is the baseline  *)
(* and no report of it is on its way; a level slid to is somewhere on its  *)
(* way to every member; every report of a player state on its way, and     *)
(* every one the statuses may still make, is somebody's; and a touch the   *)
(* tracker takes for known was told, while one it does not know yet it     *)
(* will report, in whatever status or reply it finds it.                   *)
(***************************************************************************)
EXTENDS RemoteControl, FiniteSetTheorems, WellFoundedInduction, SequenceTheorems, TLAPS

-----------------------------------------------------------------------------
(***************************************************************************)
(* Numbers and sequences.                                                  *)
(***************************************************************************)
\* A set of numbers up to n has a greatest one: the intervals from its elements have a smallest one.
LEMMA Greatest ==
  ASSUME NEW n \in Nat, NEW S \in SUBSET (1..n), S # {}
  PROVE  \E x \in S : \A y \in S : y <= x
<1>. DEFINE From == {x..n : x \in S}
            smaller == StrictSubsetOrdering(Nat)
<1>1. From \subseteq FiniteSubsetsOf(Nat) /\ From # {}
  <2>1. \A x \in S : x..n \in SUBSET Nat /\ IsFiniteSet(x..n)
    BY FS_Interval
  <2>. QED BY <2>1 DEF FiniteSubsetsOf
<1>2. IsWellFoundedOn(smaller, FiniteSubsetsOf(Nat))
  BY FS_StrictSubsetOrderingWellFounded
<1>3. PICK T \in From : \A U \in From : <<U, T>> \notin smaller
  <2>. HIDE DEF From, smaller
  <2>. QED BY <1>1, <1>2, WFMin
<1>4. PICK x \in S : T = x..n
  OBVIOUS
<1>5. ASSUME NEW y \in S, x < y PROVE FALSE
  <2>1. y..n \in From /\ y..n \subseteq x..n /\ y..n # x..n
    BY <1>5
  <2>2. y..n \in SUBSET Nat /\ x..n \in SUBSET Nat
    OBVIOUS
  <2>3. <<y..n, T>> \in smaller
    BY <1>4, <2>1, <2>2 DEF StrictSubsetOrdering
  <2>. QED BY <1>3, <2>1, <2>3
<1>. QED BY <1>5

\* A cut of a sequence has the elements it was cut from.
LEMMA CutSeq ==
  ASSUME NEW S, NEW q \in Seq(S), NEW m \in 1..(Len(q) + 1), NEW n \in (m - 1)..Len(q)
  PROVE  /\ SubSeq(q, m, n) \in Seq(S)
         /\ \A i \in DOMAIN SubSeq(q, m, n) : \E j \in DOMAIN q : SubSeq(q, m, n)[i] = q[j]
<1>1. \A i \in m..n : q[i] \in S
  OBVIOUS
<1>2. /\ SubSeq(q, m, n) \in Seq(S)
      /\ Len(SubSeq(q, m, n)) = IF m <= n THEN n - m + 1 ELSE 0
      /\ \A i \in 1..(n - m + 1) : SubSeq(q, m, n)[i] = q[m + i - 1]
  BY <1>1, SubSeqProperties
<1>3. \A i \in DOMAIN SubSeq(q, m, n) : i \in 1..(n - m + 1) /\ m + i - 1 \in DOMAIN q
  BY <1>2
<1>. QED BY <1>2, <1>3

\* What is left without the first n elements.
LEMMA DropIs ==
  ASSUME NEW S, NEW q \in Seq(S), NEW n \in 0..Len(q), NEW i \in DOMAIN SubSeq(q, n + 1, Len(q))
  PROVE  n + i \in DOMAIN q /\ SubSeq(q, n + 1, Len(q))[i] = q[n + i]
<1>. DEFINE m == n + 1
<1>1. m \in 1..(Len(q) + 1) /\ Len(q) \in (m - 1)..Len(q) /\ \A j \in m..Len(q) : q[j] \in S
  OBVIOUS
<1>2. /\ Len(SubSeq(q, m, Len(q))) = IF m <= Len(q) THEN Len(q) - m + 1 ELSE 0
      /\ SubSeq(q, m, Len(q)) \in Seq(S)
      /\ \A j \in 1..(Len(q) - m + 1) : SubSeq(q, m, Len(q))[j] = q[m + j - 1]
  <2>. HIDE DEF m
  <2>. QED BY <1>1, SubSeqProperties
<1>. QED BY <1>2

\* Pushing and taking keep a sequence one of the same set.
LEMMA Push ==
  ASSUME NEW S, NEW q \in Seq(S), NEW e \in S
  PROVE  Append(q, e) \in Seq(S)
OBVIOUS

LEMMA HeadTail ==
  ASSUME NEW S, NEW q \in Seq(S), q # <<>>
  PROVE  /\ Head(q) \in S /\ Tail(q) \in Seq(S)
         /\ \E i \in DOMAIN q : Head(q) = q[i]
         /\ \A i \in DOMAIN Tail(q) : \E j \in DOMAIN q : Tail(q)[i] = q[j]
OBVIOUS

-----------------------------------------------------------------------------
(***************************************************************************)
(* The statuses a look takes.                                              *)
(***************************************************************************)
\* The newest status of a kind is one of them, or what was known before.
LEMMA NewestIsOne ==
  ASSUME NEW q \in Seq(Status), NEW of, NEW old
  PROVE  \/ Newest(q, of, old) = old /\ \A i \in DOMAIN q : q[i].of # of
         \/ \E i \in DOMAIN q : q[i].of = of /\ Newest(q, of, old) = q[i].is
<1>. DEFINE at == {i \in DOMAIN q : q[i].of = of}
<1>1. CASE at = {}
  BY <1>1 DEF Newest
<1>2. CASE at # {}
  <2>1. DOMAIN q = 1..Len(q) /\ Len(q) \in Nat
    OBVIOUS
  <2>2. \E i \in at : \A j \in at : j <= i
    BY <1>2, <2>1, Greatest
  <2>. DEFINE i == CHOOSE i \in at : \A j \in at : j <= i
  <2>3. i \in at
    BY <2>2
  <2>4. Newest(q, of, old) = q[i].is
    BY <1>2 DEF Newest
  <2>. QED BY <2>3, <2>4
<1>. QED BY <1>1, <1>2

\* What has arrived comes from the air or was drained before.
LEMMA ArrivedIs ==
  ASSUME TypeOK, NEW n \in 0..Len(air)
  PROVE  /\ \/ Arrived(n).volume = drained.volume
            \/ \E i \in DOMAIN air : air[i].of = "volume" /\ Arrived(n).volume = air[i].is
         /\ \/ Arrived(n).player = drained.player
            \/ \E i \in DOMAIN air : air[i].of = "player" /\ Arrived(n).player = air[i].is
<1>. DEFINE q == SubSeq(air, 1, n)
<1>1. air \in Seq(Status) /\ 1 \in 1..(Len(air) + 1) /\ n \in (1 - 1)..Len(air)
  BY DEF TypeOK, DeviceType
<1>2. q \in Seq(Status) /\ \A i \in DOMAIN q : \E j \in DOMAIN air : q[i] = air[j]
  BY <1>1, CutSeq
<1>3. ASSUME NEW of, NEW old
      PROVE  \/ Newest(q, of, old) = old
             \/ \E j \in DOMAIN air : air[j].of = of /\ Newest(q, of, old) = air[j].is
  <2>. HIDE DEF q
  <2>. QED BY <1>2, NewestIsOne
<1>. QED BY <1>3 DEF Arrived

-----------------------------------------------------------------------------
(***************************************************************************)
(* Types, for one group of variables after the other: the actions that     *)
(* touch it, and what each leaves there.                                   *)
(***************************************************************************)
LEMMA SetRateType ==
  ASSUME TypeOK, NEW on \in BOOLEAN, SetRate(on)
  PROVE  playing' \in BOOLEAN /\ castPaused' \in BOOLEAN /\ events' \in Seq(Event)
<1>1. [op |-> IF on THEN "Resumed" ELSE "Paused", level |-> Nothing] \in Event
  BY DEF Event
<1>2. events \in Seq(Event) /\ castPaused \in BOOLEAN
  BY DEF TypeOK, SenderType
<1>3. CASE on = castPaused
  BY <1>1, <1>2, <1>3 DEF SetRate
<1>4. CASE on # castPaused
  BY <1>2, <1>4 DEF SetRate
<1>. QED BY <1>3, <1>4

LEMMA SenderKept ==
  ASSUME TypeOK, Next
  PROVE  SenderType'
<1>1. CASE UNCHANGED sender
  BY <1>1 DEF sender, TypeOK, SenderType
<1>2. CASE Press
  BY <1>2, SetRateType DEF Press, TypeOK, SenderType
<1>3. ASSUME NEW l \in Levels, Slide(l) PROVE SenderType'
  <2>1. [op |-> "Volume", level |-> l] \in Event /\ [slider EXCEPT !.level = l] \in Volumes
    BY DEF Event, Volumes, TypeOK, SenderType
  <2>. QED BY <1>3, <2>1 DEF Slide, TypeOK, SenderType
<1>4. CASE Obey
  <2>1. Head(told) \in Change /\ Tail(told) \in Seq(Change)
    BY <1>4, HeadTail DEF Obey, TypeOK, SenderType
  <2>2. CASE Head(told).of = "player"
    BY <1>4, <2>1, <2>2, SetRateType DEF Obey, TypeOK, SenderType
  <2>3. CASE Head(told).of = "volume"
    <3>1. Head(told).is \in Volumes
      BY <2>1, <2>3 DEF Change
    <3>2. [op |-> "Volume", level |-> Head(told).is.level] \in Event
      BY <3>1 DEF Volumes, Event
    <3>3. events \in Seq(Event) /\ playing \in BOOLEAN /\ castPaused \in BOOLEAN
      BY DEF TypeOK, SenderType
    <3>4. events' \in Seq(Event)
      <4>. DEFINE e == [op |-> "Volume", level |-> Head(told).is.level]
      <4>1. events' = events \/ events' = Append(events, e)
        BY <1>4, <2>3 DEF Obey
      <4>2. e \in Event
        BY <3>2
      <4>. HIDE DEF e
      <4>. QED BY <3>3, <4>1, <4>2, Push
    <3>5. slider' = Head(told).is /\ told' = Tail(told) /\ UNCHANGED <<playing, castPaused>>
      BY <1>4, <2>3 DEF Obey
    <3>. QED BY <2>1, <3>1, <3>3, <3>4, <3>5 DEF SenderType
  <2>. QED BY <1>4, <2>2, <2>3 DEF Obey
<1>5. CASE TakeEvent
  BY <1>5, HeadTail DEF TakeEvent, TypeOK, SenderType
<1>6. CASE OnCastRemote
  <2>1. Head(remote) \in Change
    BY <1>6, HeadTail DEF OnCastRemote, TypeOK
  <2>2. told \in Seq(Change) /\ Append(told, Head(remote)) \in Seq(Change)
    BY <2>1 DEF TypeOK, SenderType
  <2>3. told' = told \/ told' = Append(told, Head(remote))
    BY <1>6 DEF OnCastRemote
  <2>. QED BY <1>6, <2>2, <2>3 DEF OnCastRemote, TypeOK, SenderType
<1>7. \/ UNCHANGED sender \/ Press \/ (\E l \in Levels : Slide(l)) \/ Obey \/ TakeEvent \/ OnCastRemote
  BY DEF Next, User, Tap, Mute, Turn, Touch, VolumeTimesOut, Command, Worker, Serve, SetVolumeDone,
         TransportDone, CommandFails, Looks, Drain, Probe, Reconnect, Settle, PlayerSettles, VolumeSettles,
         EchoExpires, ApplyGroupVolume, GroupWaits
<1>. QED BY <1>1, <1>2, <1>3, <1>4, <1>5, <1>6, <1>7

LEMMA SessionKept ==
  ASSUME TypeOK, Next
  PROVE  SessionType'
<1>1. CASE UNCHANGED session
  BY <1>1 DEF session, TypeOK, SessionType
<1>2. CASE TakeEvent
  <2>1. Head(events) \in Event
    BY <1>2, HeadTail DEF TakeEvent, TypeOK, SenderType
  <2>. QED BY <1>2, <2>1 DEF TakeEvent, HandleVolume, HandlePause, HandleResume, Event, TypeOK, SessionType
<1>3. CASE OnCastRemote
  <2>1. Head(remote) \in Change
    BY <1>3, HeadTail DEF OnCastRemote, TypeOK
  <2>2. Head(remote).of = "volume" => Head(remote).is.level \in Levels
    BY <2>1 DEF Change, Volumes
  <2>. QED BY <1>3, <2>2 DEF OnCastRemote, TypeOK, SessionType
<1>4. CASE VolumeTimesOut
  BY <1>4 DEF VolumeTimesOut, TypeOK, SessionType
<1>5. CASE SetVolumeDone \/ TransportDone \/ CommandFails
  BY <1>5 DEF SetVolumeDone, TransportDone, CommandFails, Reply, TypeOK, SessionType
<1>6. \/ UNCHANGED session \/ TakeEvent \/ OnCastRemote \/ VolumeTimesOut
      \/ SetVolumeDone \/ TransportDone \/ CommandFails
  BY DEF Next, User, Press, Slide, Obey, Tap, Mute, Turn, Touch, Command, Worker, Serve, Looks, Drain, Probe,
         Reconnect, Settle, PlayerSettles, VolumeSettles, EchoExpires, ApplyGroupVolume, GroupWaits
<1>. QED BY <1>1, <1>2, <1>3, <1>4, <1>5, <1>6

\* The row of SET_VOLUMEs at the head of the queue has an end.
LEMMA RunIs ==
  ASSUME NEW q \in Seq(Cmd), q # <<>>, Head(q).op = "SET"
  PROVE  Run(q) \in 1..Len(q) /\ q[Run(q)].op = "SET"
<1>. DEFINE S == {n \in 1..Len(q) : \A i \in 1..n : q[i].op = "SET"}
            Ends(n) == /\ \A i \in 1..n : q[i].op = "SET"
                       /\ n < Len(q) => q[n + 1].op # "SET"
<1>1. 1 \in S
  OBVIOUS
<1>2. PICK n \in S : \A m \in S : m <= n
  <2>1. S \in SUBSET (1..Len(q)) /\ S # {} /\ Len(q) \in Nat
    BY <1>1
  <2>. HIDE DEF S
  <2>. QED BY <2>1, Greatest
<1>3. ASSUME n < Len(q), q[n + 1].op = "SET" PROVE FALSE
  <2>1. n + 1 \in S
    BY <1>3
  <2>. QED BY <1>2, <2>1
<1>4. \E m \in 1..Len(q) : Ends(m)
  BY <1>2, <1>3
<1>5. Run(q) = CHOOSE m \in 1..Len(q) : Ends(m)
  BY DEF Run
<1>6. Run(q) \in 1..Len(q) /\ Ends(Run(q))
  <2>. HIDE DEF Ends
  <2>. QED BY <1>4, <1>5
<1>. QED BY <1>6

LEMMA ReplyType ==
  ASSUME TypeOK, Reply
  PROVE  transport' \in Ops \cup {"free"} /\ serving' \in Cmd \cup {NoCmd}
BY DEF Reply, TypeOK, TransitType

LEMMA TransitKept ==
  ASSUME TypeOK, Next
  PROVE  TransitType'
<1>. USE DEF Ops
<1>1. CASE UNCHANGED transit
  BY <1>1 DEF transit, TypeOK, TransitType
<1>2. CASE TakeEvent
  <2>1. Head(events) \in Event
    BY <1>2, HeadTail DEF TakeEvent, TypeOK, SenderType
  <2>2. Head(events).op = "Volume" => [op |-> "SET", level |-> Head(events).level, wanted |-> TRUE] \in Cmd
    BY <2>1 DEF Event, Cmd
  <2>3. CASE HandleVolume
    <3>. DEFINE set == [op |-> "SET", level |-> Head(events).level, wanted |-> TRUE]
    <3>1. set \in Cmd /\ queue \in Seq(Cmd)
      BY <2>2, <2>3 DEF HandleVolume, TypeOK, TransitType
    <3>2. queue' = queue \/ queue' = Append(queue, set)
      BY <2>3 DEF HandleVolume
    <3>3. queue' \in Seq(Cmd)
      <4>. HIDE DEF set
      <4>. QED BY <3>1, <3>2, Push
    <3>. QED BY <2>3, <3>3 DEF HandleVolume, TypeOK, TransitType
  <2>4. CASE HandlePause \/ HandleResume
    BY <2>4 DEF HandlePause, HandleResume, TypeOK, TransitType
  <2>. QED BY <1>2, <2>3, <2>4 DEF TakeEvent
<1>3. CASE VolumeTimesOut
  <2>1. \A c \in Cmd : c.op = "SET" => [c EXCEPT !.wanted = FALSE] \in Cmd
    BY DEF Cmd
  <2>2. queue' \in Seq(Cmd)
    BY <1>3, <2>1 DEF VolumeTimesOut, TypeOK, TransitType
  <2>3. serving' \in Cmd \cup {NoCmd}
    BY <1>3, <2>1 DEF VolumeTimesOut, TypeOK, TransitType, NoCmd
  <2>. QED BY <1>3, <2>2, <2>3 DEF VolumeTimesOut, TypeOK, TransitType
<1>4. ASSUME NEW op \in Ops, Command(op) PROVE TransitType'
  <2>1. [op |-> op, level |-> Nothing, wanted |-> TRUE] \in Cmd
    BY DEF Cmd
  <2>2. tasks' \in [Ops -> Nat]
    BY <1>4 DEF Command, TypeOK, TransitType
  <2>3. queue \in Seq(Cmd) /\ transport \in Ops \cup {"free"}
    BY DEF TypeOK, TransitType
  <2>4. queue' = queue \/ queue' = Append(queue, [op |-> op, level |-> Nothing, wanted |-> TRUE])
    BY <1>4 DEF Command
  <2>5. queue' \in Seq(Cmd)
    BY <2>1, <2>3, <2>4, Push
  <2>. QED BY <1>4, <2>2, <2>3, <2>5 DEF Command, TypeOK, TransitType
<1>5. CASE Serve
  <2>1. /\ queue \in Seq(Cmd) /\ queue # <<>> /\ tasks' = tasks /\ transport' = transport
        /\ tasks \in [Ops -> Nat] /\ transport \in Ops \cup {"free"}
    BY <1>5 DEF Serve, TypeOK, TransitType
  <2>2. CASE Head(queue).op = "SET"
    <3>. DEFINE n == Run(queue)
    <3>1. n \in 1..Len(queue) /\ queue[n].op = "SET"
      BY <2>1, <2>2, RunIs
    <3>2. queue[n].level \in Levels
      BY <2>1, <3>1 DEF Cmd
    <3>3. Answers(n) \in BOOLEAN
      BY DEF Answers
    <3>4. [op |-> "SET", level |-> queue[n].level, wanted |-> Answers(n)] \in Cmd
      BY <3>2, <3>3 DEF Cmd
    <3>5. SubSeq(queue, n + 1, Len(queue)) \in Seq(Cmd)
      <4>. HIDE DEF n
      <4>. QED BY <2>1, <3>1, CutSeq
    <3>6. /\ serving' = [op |-> "SET", level |-> queue[n].level, wanted |-> Answers(n)]
          /\ queue' = SubSeq(queue, n + 1, Len(queue))
      BY <1>5, <2>2 DEF Serve
    <3>. QED BY <2>1, <3>4, <3>5, <3>6 DEF TransitType
  <2>3. CASE Head(queue).op # "SET"
    <3>1. serving' = Head(queue) /\ queue' = Tail(queue)
      BY <1>5, <2>3 DEF Serve
    <3>. QED BY <2>1, <3>1, HeadTail DEF TransitType
  <2>. QED BY <2>2, <2>3
<1>6. CASE SetVolumeDone \/ TransportDone
  BY <1>6, ReplyType DEF SetVolumeDone, TransportDone, TypeOK, TransitType
<1>7. CASE CommandFails
  <2>1. tasks' \in [Ops -> Nat]
    BY <1>7 DEF CommandFails, TypeOK, TransitType
  <2>. QED BY <1>7, <2>1, ReplyType DEF CommandFails, TypeOK, TransitType
<1>8. \/ UNCHANGED transit \/ TakeEvent \/ VolumeTimesOut \/ (\E op \in Ops : Command(op))
      \/ Serve \/ SetVolumeDone \/ TransportDone \/ CommandFails
  BY DEF Next, User, Press, Slide, Obey, Tap, Mute, Turn, Touch, Worker, Looks, Drain, Probe, Reconnect, Settle,
         PlayerSettles, VolumeSettles, EchoExpires, OnCastRemote, ApplyGroupVolume, GroupWaits
<1>. QED BY <1>1, <1>2, <1>3, <1>4, <1>5, <1>6, <1>7, <1>8

\* What the worker looks at.
LEMMA LookedAt ==
  ASSUME TypeOK, NEW n \in 0..Len(air)
  PROVE  /\ Arrived(n).volume \in Volumes \cup {Nothing}
         /\ Arrived(n).player \in Players \cup {Nothing}
<1>1. air \in Seq(Status)
  BY DEF TypeOK, DeviceType
<1>2. \A i \in DOMAIN air : /\ air[i].of = "volume" => air[i].is \in Volumes
                            /\ air[i].of = "player" => air[i].is \in Players
  BY <1>1 DEF Status, Players
<1>3. drained.volume \in Volumes \cup {Nothing} /\ drained.player \in Players \cup {Nothing}
  BY DEF TypeOK, DeviceType
<1>4. /\ \/ Arrived(n).volume = drained.volume
         \/ \E i \in DOMAIN air : air[i].of = "volume" /\ Arrived(n).volume = air[i].is
      /\ \/ Arrived(n).player = drained.player
         \/ \E i \in DOMAIN air : air[i].of = "player" /\ Arrived(n).player = air[i].is
  BY ArrivedIs
<1>. QED BY <1>2, <1>3, <1>4

LEMMA ObserveType ==
  ASSUME TypeOK, NEW p \in Players \cup {Nothing}, NEW v \in Volumes \cup {Nothing}, Observe(p, v)
  PROVE  TrackerType' /\ remote' \in Seq(Change)
<1>1. UserPlayer(p) => p \in Players
  BY DEF UserPlayer
<1>2. Seen(v) => v \in Volumes
  BY DEF Seen
<1>3. Report("player", p, UserPlayer(p)) \in Seq(Change)
  <2>1. UserPlayer(p) => [of |-> "player", is |-> p] \in Change
    BY <1>1 DEF Change, Players
  <2>. QED BY <2>1 DEF Report
<1>4. Report("volume", v, UserVolume(v)) \in Seq(Change)
  <2>1. UserVolume(v) => [of |-> "volume", is |-> v] \in Change
    BY <1>2 DEF Change, UserVolume
  <2>. QED BY <2>1 DEF Report
<1>5. remote' \in Seq(Change)
  BY <1>3, <1>4, ConcatProperties DEF Observe, TypeOK
<1>. QED BY <1>1, <1>2, <1>5 DEF Observe, TypeOK, TrackerType

LEMMA LooksKept ==
  ASSUME TypeOK, Looks
  PROVE  TrackerType' /\ remote' \in Seq(Change) /\ DeviceType'
<1>1. CASE Drain
  <2>1. PICK n \in 0..Len(air) : /\ Observe(Arrived(n).player, Arrived(n).volume)
                                 /\ air' = SubSeq(air, n + 1, Len(air))
    BY <1>1 DEF Drain
  <2>2. air \in Seq(Status) /\ n + 1 \in 1..(Len(air) + 1) /\ Len(air) \in (n + 1 - 1)..Len(air)
    BY DEF TypeOK, DeviceType
  <2>3. air' \in Seq(Status)
    BY <2>1, <2>2, CutSeq
  <2>4. drained' = Nowhere /\ UNCHANGED <<player, volume>>
    BY <1>1 DEF Drain
  <2>5. DeviceType'
    BY <2>3, <2>4 DEF Nowhere, TypeOK, DeviceType
  <2>. QED BY <2>1, <2>5, LookedAt, ObserveType
<1>2. CASE Probe
  <2>1. player \in Players /\ volume \in Volumes /\ Len(air) \in 0..Len(air)
    BY DEF TypeOK, DeviceType
  <2>2. TrackerType' /\ remote' \in Seq(Change)
    BY <1>2, <2>1, ObserveType DEF Probe
  <2>3. drained' = Arrived(Len(air)) /\ air' = <<>> /\ UNCHANGED <<player, volume>>
    BY <1>2 DEF Probe
  <2>4. DeviceType'
    BY <2>1, <2>3, LookedAt DEF DeviceType
  <2>. QED BY <2>2, <2>4
<1>. QED BY <1>1, <1>2 DEF Looks

LEMMA ServesSet ==
  ASSUME TypeOK, serving.op = "SET"
  PROVE  serving.level \in Levels
BY DEF TypeOK, TransitType, Cmd, NoCmd, Ops

\* The command it begins to serve sets a level if it is a SET_VOLUME.
LEMMA ServedLevel ==
  ASSUME TypeOK, Serve, Head(queue).op = "SET"
  PROVE  serving'.level \in Levels
<1>1. queue \in Seq(Cmd) /\ queue # <<>>
  BY DEF Serve, TypeOK, TransitType
<1>2. Run(queue) \in 1..Len(queue) /\ queue[Run(queue)].op = "SET"
  BY <1>1, RunIs
<1>3. queue[Run(queue)].level \in Levels
  BY <1>1, <1>2 DEF Cmd, Ops
<1>4. serving'.level = queue[Run(queue)].level
  BY DEF Serve, Ops
<1>. QED BY <1>3, <1>4

LEMMA TrackerKept ==
  ASSUME TypeOK, Next
  PROVE  TrackerType'
<1>1. CASE UNCHANGED tracker
  BY <1>1 DEF tracker, TypeOK, TrackerType
<1>2. CASE Serve
  <2>1. CASE Head(queue).op = "SET"
    <3>1. serving'.level \in Levels
      BY <1>2, <2>1, ServedLevel
    <3>2. commanded' = Append(commanded, serving'.level)
      BY <1>2, <2>1 DEF Serve, Ops
    <3>3. commanded' \in Seq(Levels)
      BY <3>1, <3>2, Push DEF TypeOK, TrackerType
    <3>. QED BY <1>2, <2>1, <3>3 DEF Serve, Ops, TypeOK, TrackerType
  <2>2. CASE Head(queue).op # "SET"
    BY <1>2, <2>2 DEF Serve, TypeOK, TrackerType, Players
  <2>. QED BY <2>1, <2>2
<1>3. CASE SetVolumeDone
  <2>1. [volume EXCEPT !.level = serving.level] \in Volumes
    BY <1>3, ServesSet DEF SetVolumeDone, TypeOK, DeviceType, Volumes
  <2>. QED BY <1>3, <2>1 DEF SetVolumeDone, TypeOK, TrackerType
<1>4. CASE Looks
  BY <1>4, LooksKept
<1>5. CASE PlayerSettles \/ VolumeSettles
  BY <1>5 DEF PlayerSettles, VolumeSettles, TypeOK, TrackerType
<1>6. CASE EchoExpires
  BY <1>6, HeadTail DEF EchoExpires, TypeOK, TrackerType
<1>7. \/ UNCHANGED tracker \/ Serve \/ SetVolumeDone \/ Looks \/ PlayerSettles \/ VolumeSettles
      \/ EchoExpires
  BY DEF Next, User, Press, Slide, Obey, TakeEvent, VolumeTimesOut, Tap, Mute, Turn, Touch, Command, Worker,
         TransportDone, CommandFails, Reconnect, Settle, OnCastRemote, ApplyGroupVolume, GroupWaits
<1>. QED BY <1>1, <1>2, <1>3, <1>4, <1>5, <1>6, <1>7

LEMMA AgedType ==
  ASSUME TypeOK, NEW of \in {"volume", "player"}, NEW is,
         of = "volume" => is \in Volumes, of = "player" => is \in Players
  PROVE  Aged(is, of) \in Seq(Status)
<1>1. air \in Seq(Status)
  BY DEF TypeOK, DeviceType
<1>2. \A i \in 1..Len(air) : [air[i] EXCEPT !.old = TRUE] \in Status
  <2>1. \A s \in Status : [s EXCEPT !.old = TRUE] \in Status
    BY DEF Status
  <2>. QED BY <1>1, <2>1
<1>3. [of |-> of, is |-> is, old |-> TRUE] \in Status
  BY DEF Status, Players
<1>. QED BY <1>1, <1>2, <1>3 DEF Aged

LEMMA TouchType ==
  ASSUME TypeOK, NEW v \in Volumes, Touch(v)
  PROVE  DeviceType'
<1>1. [of |-> "volume", is |-> v, old |-> FALSE] \in Status
  BY DEF Status
<1>2. air' \in Seq(Status)
  BY <1>1, Push DEF Touch, TypeOK, DeviceType
<1>. QED BY <1>2 DEF Touch, TypeOK, DeviceType

LEMMA DeviceKept ==
  ASSUME TypeOK, Next
  PROVE  DeviceType'
<1>0. player \in Players /\ volume \in Volumes /\ air \in Seq(Status)
  BY DEF TypeOK, DeviceType
<1>1. CASE UNCHANGED device
  BY <1>1 DEF device, TypeOK, DeviceType
<1>2. CASE SetVolumeDone
  <2>1. [volume EXCEPT !.level = serving.level] \in Volumes
    BY <1>0, <1>2, ServesSet DEF SetVolumeDone, Volumes
  <2>2. volume' \in Volumes /\ air' = Aged(volume', "volume") /\ UNCHANGED <<player, drained>>
    BY <1>2, <2>1 DEF SetVolumeDone
  <2>3. air' \in Seq(Status)
    BY <2>2, AgedType
  <2>. QED BY <2>2, <2>3 DEF TypeOK, DeviceType
<1>3. CASE TransportDone
  <2>1. player' \in Players /\ air' = Aged(player', "player") /\ UNCHANGED <<volume, drained>>
    BY <1>3 DEF TransportDone, Players
  <2>2. air' \in Seq(Status)
    BY <2>1, AgedType
  <2>. QED BY <2>1, <2>2 DEF TypeOK, DeviceType
<1>4. CASE CommandFails
  <2>1. serving.op = "SET" => [volume EXCEPT !.level = serving.level] \in Volumes
    BY <1>0, ServesSet DEF Volumes
  <2>2. player' \in Players /\ volume' \in Volumes
    BY <1>0, <1>4, <2>1 DEF CommandFails, Players
  <2>3. [i \in DOMAIN air |-> [air[i] EXCEPT !.old = TRUE]] \in Seq(Status)
    <3>1. \A s \in Status : [s EXCEPT !.old = TRUE] \in Status
      BY DEF Status
    <3>. QED BY <1>0, <3>1
  <2>. DEFINE marked == [i \in DOMAIN air |-> [air[i] EXCEPT !.old = TRUE]]
  <2>4. air' = <<>> \/ air' = marked
    BY <1>4 DEF CommandFails
  <2>5. drained' = Nowhere \/ drained' = drained
    BY <1>4 DEF CommandFails
  <2>6. air' \in Seq(Status)
    <3>. HIDE DEF marked
    <3>1. marked \in Seq(Status)
      BY <2>3 DEF marked
    <3>2. <<>> \in Seq(Status)
      OBVIOUS
    <3>. QED BY <2>4, <3>1, <3>2
  <2>. QED BY <2>2, <2>5, <2>6 DEF TypeOK, DeviceType, Nowhere
<1>5. CASE Looks
  BY <1>5, LooksKept
<1>6. CASE Reconnect
  BY <1>0, <1>6 DEF Reconnect, DeviceType, Nowhere
<1>7. CASE Tap
  <2>1. player' \in Players /\ air' = Append(air, [of |-> "player", is |-> player', old |-> FALSE])
        /\ UNCHANGED <<volume, drained>>
    BY <1>7 DEF Tap, Players
  <2>2. [of |-> "player", is |-> player', old |-> FALSE] \in Status
    BY <2>1 DEF Status, Players
  <2>3. air' \in Seq(Status)
    BY <1>0, <2>1, <2>2, Push
  <2>. QED BY <2>1, <2>3 DEF TypeOK, DeviceType
<1>8. CASE Mute
  <2>1. [volume EXCEPT !.muted = ~volume.muted] \in Volumes
    BY <1>0 DEF Volumes
  <2>. QED BY <1>8, <2>1, TouchType DEF Mute
<1>9. ASSUME NEW l \in Levels, Turn(l) PROVE DeviceType'
  <2>1. [volume EXCEPT !.level = l] \in Volumes
    BY <1>0 DEF Volumes
  <2>. QED BY <1>9, <2>1, TouchType DEF Turn
<1>10. \/ UNCHANGED device \/ SetVolumeDone \/ TransportDone \/ CommandFails \/ Looks \/ Reconnect
       \/ Tap \/ Mute \/ \E l \in Levels : Turn(l)
  BY DEF Next, User, Press, Slide, Obey, TakeEvent, VolumeTimesOut, Command, Worker, Serve, Settle,
         PlayerSettles, VolumeSettles, EchoExpires, OnCastRemote, ApplyGroupVolume, GroupWaits
<1>. QED BY <1>1, <1>2, <1>3, <1>4, <1>5, <1>6, <1>7, <1>8, <1>9, <1>10

LEMMA RemoteKept ==
  ASSUME TypeOK, Next
  PROVE  remote' \in Seq(Change) /\ kind' = kind /\ hosted' = hosted
<1>1. kind' = kind /\ hosted' = hosted
  BY DEF Next, User, Press, Slide, Obey, TakeEvent, VolumeTimesOut, Command, Worker, Serve, SetVolumeDone,
         TransportDone, CommandFails, Looks, Drain, Probe, Reconnect, Settle, PlayerSettles, VolumeSettles,
         EchoExpires, Tap, Mute, Turn, Touch, OnCastRemote, ApplyGroupVolume, GroupWaits
<1>2. CASE Looks
  BY <1>1, <1>2, LooksKept
<1>3. CASE OnCastRemote
  BY <1>1, <1>3, HeadTail DEF OnCastRemote, TypeOK
<1>4. remote' = remote \/ Looks \/ OnCastRemote
  BY DEF Next, User, Press, Slide, Obey, TakeEvent, VolumeTimesOut, Command, Worker, Serve, SetVolumeDone,
         TransportDone, CommandFails, Reconnect, Settle, PlayerSettles, VolumeSettles, EchoExpires, Tap, Mute,
         Turn, Touch, ApplyGroupVolume, GroupWaits
<1>. QED BY <1>1, <1>2, <1>3, <1>4 DEF TypeOK

LEMMA GroupKept ==
  ASSUME TypeOK, Next
  PROVE  GroupType'
<1>1. CASE UNCHANGED group
  BY <1>1 DEF group, TypeOK, GroupType
<1>2. CASE TakeEvent
  <2>1. Head(events) \in Event
    BY <1>2, HeadTail DEF TakeEvent, TypeOK, SenderType
  <2>2. CASE HandleVolume /\ VolumeRoute # "own"
    <3>1. Head(events).level \in Levels /\ QueueGroupVolume(Head(events).level)
      BY <2>1, <2>2 DEF HandleVolume, Event
    <3>. QED BY <3>1 DEF QueueGroupVolume, TypeOK, GroupType
  <2>3. CASE ~(HandleVolume /\ VolumeRoute # "own")
    BY <1>1, <1>2, <2>3 DEF TakeEvent, HandleVolume, HandlePause, HandleResume
  <2>. QED BY <2>2, <2>3
<1>3. CASE NextTarget
  BY <1>3 DEF NextTarget, TypeOK, GroupType
<1>4. CASE ReadMembers
  BY <1>4 DEF ReadMembers, TypeOK, GroupType
<1>5. CASE SetMembers
  <2>1. applying \in Levels
    BY <1>5 DEF SetMembers, TypeOK, GroupType
  <2>2. memberQueue' \in [Members -> Seq(Levels)]
    BY <1>5, <2>1 DEF SetMembers, TypeOK, GroupType
  <2>. QED BY <1>5, <2>2 DEF SetMembers, TypeOK, GroupType
<1>6. ASSUME NEW m \in Members, MemberSets(m) PROVE GroupType'
  <2>1. memberQueue[m] \in Seq(Levels) /\ memberQueue[m] # <<>>
    BY <1>6 DEF MemberSets, TypeOK, GroupType
  <2>2. memberQueue[m][Len(memberQueue[m])] \in Levels
    BY <2>1
  <2>3. member' \in [Members -> Levels]
    BY <1>6, <2>2 DEF MemberSets, TypeOK, GroupType
  <2>4. memberQueue' \in [Members -> Seq(Levels)]
    BY <1>6 DEF MemberSets, TypeOK, GroupType
  <2>. QED BY <1>6, <2>3, <2>4 DEF MemberSets, TypeOK, GroupType
<1>7. CASE MembersSet \/ CacheExpires
  BY <1>7 DEF MembersSet, CacheExpires, TypeOK, GroupType
<1>8. ASSUME NEW m \in Members, MemberTimesOut(m) PROVE GroupType'
  BY <1>8 DEF MemberTimesOut, TypeOK, GroupType
<1>9. \/ UNCHANGED group \/ TakeEvent \/ ApplyGroupVolume \/ GroupWaits
  BY DEF Next, User, Press, Slide, Obey, VolumeTimesOut, Command, Worker, Serve, SetVolumeDone,
         TransportDone, CommandFails, Looks, Drain, Probe, Reconnect, Settle, PlayerSettles, VolumeSettles,
         EchoExpires, Tap, Mute, Turn, Touch, OnCastRemote
<1>. QED BY <1>1, <1>2, <1>3, <1>4, <1>5, <1>6, <1>7, <1>8, <1>9 DEF ApplyGroupVolume, GroupWaits

\* Every counter keeps below its bound.
LEMMA BoundsKept ==
  ASSUME TypeOK, Next
  PROVE  BoundsType'
<1>1. inputs' = inputs \/ (inputs < MaxInputs /\ inputs' = inputs + 1)
  BY DEF Next, User, Press, Slide, Obey, TakeEvent, VolumeTimesOut, Command, Worker, Serve, SetVolumeDone,
         TransportDone, CommandFails, Looks, Drain, Probe, Reconnect, Settle, PlayerSettles, VolumeSettles,
         EchoExpires, Tap, Mute, Turn, Touch, OnCastRemote, ApplyGroupVolume, GroupWaits, bounds
<1>2. lates' = lates \/ (lates < MaxLates /\ lates' = lates + 1)
  BY DEF Next, User, Press, Slide, Obey, TakeEvent, VolumeTimesOut, Command, Worker, Serve, SetVolumeDone,
         TransportDone, CommandFails, Looks, Drain, Probe, Reconnect, Settle, PlayerSettles, VolumeSettles,
         EchoExpires, Tap, Mute, Turn, Touch, OnCastRemote, ApplyGroupVolume, NextTarget, ReadMembers,
         SetMembers, MembersSet, MemberSets, GroupWaits, CacheExpires, MemberTimesOut, bounds
<1>3. fails' = fails \/ (fails < MaxFails /\ fails' = fails + 1)
  BY DEF Next, User, Press, Slide, Obey, TakeEvent, VolumeTimesOut, Command, Worker, Serve, SetVolumeDone,
         TransportDone, CommandFails, Looks, Drain, Probe, Reconnect, Settle, PlayerSettles, VolumeSettles,
         EchoExpires, Tap, Mute, Turn, Touch, OnCastRemote, ApplyGroupVolume, NextTarget, ReadMembers,
         SetMembers, MembersSet, MemberSets, GroupWaits, CacheExpires, MemberTimesOut, bounds, Fault
<1>. QED BY <1>1, <1>2, <1>3, BoundsAssumption DEF BoundsType, TypeOK

LEMMA HistoryKept ==
  ASSUME TypeOK, Next
  PROVE  HistoryType'
<1>1. CASE UNCHANGED history
  BY <1>1 DEF history, TypeOK, HistoryType
<1>2. CASE Press \/ \E l \in Levels : Slide(l)
  BY <1>2 DEF Press, Slide, TypeOK, HistoryType
<1>3. CASE Obey
  BY <1>3 DEF Obey, TypeOK, HistoryType
<1>4. CASE CommandFails
  <2>1. credit' \in [Players -> Int]
    BY <1>4 DEF CommandFails, TypeOK, HistoryType
  <2>. QED BY <1>4, <2>1 DEF CommandFails, TypeOK, HistoryType
<1>5. CASE Tap
  <2>1. player' \in Players
    BY <1>5 DEF Tap, Players
  <2>2. credit' \in [Players -> Int]
    BY <1>5, <2>1 DEF Tap, TypeOK, HistoryType
  <2>. QED BY <1>5, <2>1, <2>2 DEF Tap, TypeOK, HistoryType
<1>6. CASE Mute
  <2>1. volume' \in Volumes
    BY <1>6, DeviceKept DEF Next, User, DeviceType
  <2>. QED BY <1>6, <2>1 DEF Mute, Touch, TypeOK, HistoryType
<1>7. ASSUME NEW l \in Levels, Turn(l) PROVE HistoryType'
  <2>1. volume' \in Volumes
    BY <1>7, DeviceKept DEF Next, User, DeviceType
  <2>. QED BY <1>7, <2>1 DEF Turn, Touch, TypeOK, HistoryType
<1>8. CASE OnCastRemote
  <2>1. Head(remote) \in Change
    BY <1>8, HeadTail DEF OnCastRemote, TypeOK
  <2>2. Head(remote).of = "player" => Head(remote).is \in Players
    BY <2>1 DEF Change, Players
  <2>3. \/ credit' = credit
        \/ Head(remote).of = "player" /\ credit' = [credit EXCEPT ![Head(remote).is] = @ - 1]
    BY <1>8 DEF OnCastRemote
  <2>4. credit' \in [Players -> Int]
    BY <2>2, <2>3 DEF TypeOK, HistoryType
  <2>. QED BY <1>8, <2>4 DEF OnCastRemote, TypeOK, HistoryType
<1>9. CASE ApplyGroupVolume \/ GroupWaits
  <2>1. lost' \in BOOLEAN
    BY <1>9 DEF ApplyGroupVolume, NextTarget, ReadMembers, SetMembers, MembersSet, MemberSets, GroupWaits,
                CacheExpires, MemberTimesOut, TypeOK, HistoryType
  <2>. QED BY <1>9, <2>1 DEF ApplyGroupVolume, GroupWaits, TypeOK, HistoryType
<1>10. \/ UNCHANGED history \/ Press \/ (\E l \in Levels : Slide(l)) \/ Obey \/ CommandFails \/ Tap \/ Mute
       \/ (\E l \in Levels : Turn(l)) \/ OnCastRemote \/ ApplyGroupVolume \/ GroupWaits
  BY DEF Next, User, TakeEvent, VolumeTimesOut, Command, Worker, Serve, SetVolumeDone, TransportDone, Looks,
         Drain, Probe, Reconnect, Settle, PlayerSettles, VolumeSettles, EchoExpires
<1>. QED BY <1>1, <1>2, <1>3, <1>4, <1>5, <1>6, <1>7, <1>8, <1>9, <1>10

LEMMA TypeInit == Init => TypeOK
<1>. SUFFICES ASSUME Init PROVE TypeOK
  OBVIOUS
<1>. DEFINE l == CHOOSE l \in Levels : TRUE
<1>1. l \in Levels
  BY BoundsAssumption
<1>2. /\ slider = [level |-> l, muted |-> FALSE] /\ volume = slider /\ base = slider /\ last = l
      /\ member = [m \in Members |-> l]
  BY DEF Init
<1>3. slider \in Volumes /\ volume \in Volumes /\ base \in Volumes /\ last \in Levels
      /\ member \in [Members -> Levels]
  <2>. HIDE DEF l
  <2>. QED BY <1>1, <1>2 DEF Volumes
<1>4. /\ kind \in {"speaker", "group"} /\ hosted \in BOOLEAN
      /\ playing = TRUE /\ castPaused = FALSE /\ told = <<>> /\ events = <<>>
      /\ waits = FALSE /\ paused = FALSE
      /\ tasks = [op \in Ops |-> 0] /\ transport = "free" /\ queue = <<>> /\ serving = NoCmd
      /\ intent = "playing" /\ playerSettling = FALSE /\ volumeSettling = FALSE /\ commanded = <<>>
      /\ player = "playing" /\ air = <<>> /\ drained = Nowhere /\ remote = <<>>
      /\ target = Nothing /\ apply = "off" /\ applying = Nothing
      /\ cached = FALSE /\ awaited = {}
      /\ memberQueue = [m \in Members |-> <<>>]
      /\ inputs = 0 /\ lates = 0 /\ fails = 0
      /\ owedTurn = Nothing /\ owedTap = Nothing
      /\ credit = [p \in {"playing", "paused"} |-> 0] /\ turned = {} /\ muteTouched = FALSE /\ lost = FALSE
  BY DEF Init
<1>e. \A S : <<>> \in Seq(S)
  OBVIOUS
<1>5. SenderType /\ SessionType
  BY <1>3, <1>4, <1>e DEF SenderType, SessionType
<1>6. TransitType /\ TrackerType
  BY <1>3, <1>4, <1>e DEF TransitType, TrackerType, Ops, Players
<1>7. DeviceType /\ remote \in Seq(Change)
  BY <1>3, <1>4, <1>e DEF DeviceType, Players, Nowhere
<1>8. GroupType
  BY <1>3, <1>4, <1>e DEF GroupType
<1>9. BoundsType /\ HistoryType
  <2>1. BoundsType
    BY <1>4, BoundsAssumption DEF BoundsType
  <2>2. credit \in [Players -> Int]
    BY <1>4 DEF Players
  <2>. QED BY <1>4, <2>1, <2>2 DEF HistoryType
<1>. QED BY <1>4, <1>5, <1>6, <1>7, <1>8, <1>9 DEF TypeOK

LEMMA TypeStep ==
  ASSUME TypeOK, [Next]_vars
  PROVE  TypeOK'
<1>1. CASE Next
  BY <1>1, SenderKept, SessionKept, TransitKept, TrackerKept, DeviceKept, RemoteKept, GroupKept, BoundsKept,
     HistoryKept DEF TypeOK
<1>2. CASE UNCHANGED vars
  <2>1. UNCHANGED <<kind, hosted, remote>> /\ UNCHANGED sender /\ UNCHANGED session /\ UNCHANGED transit
        /\ UNCHANGED tracker /\ UNCHANGED device /\ UNCHANGED group /\ UNCHANGED bounds /\ UNCHANGED history
    BY <1>2 DEF vars
  <2>2. SenderType' /\ SessionType' /\ TransitType'
    BY <2>1 DEF sender, session, transit, TypeOK, SenderType, SessionType, TransitType
  <2>3. TrackerType' /\ DeviceType'
    BY <2>1 DEF tracker, device, TypeOK, TrackerType, DeviceType
  <2>4. GroupType' /\ BoundsType' /\ HistoryType'
    BY <2>1 DEF group, bounds, history, TypeOK, GroupType, BoundsType, HistoryType
  <2>. QED BY <2>1, <2>2, <2>3, <2>4 DEF TypeOK
<1>. QED BY <1>1, <1>2

\* Every variable keeps its type: a command carries a level if and only if it sets one, a status is
\* a volume or a player state as it says, and the apply task that reads or sets has a level.
THEOREM TypeCorrect == Spec => []TypeOK
BY TypeInit, TypeStep, PTL DEF Spec

-----------------------------------------------------------------------------
(***************************************************************************)
(* Groups stay one-way.                                                    *)
(***************************************************************************)
\* The device of a group session tells its sender nothing, whatever is touched there
\* (on_cast_remote returns for a CAST_GROUP_MODEL).
THEOREM OneWay == Spec => []GroupsStayOneWay
<1>1. Init => GroupsStayOneWay
  BY DEF Init, GroupsStayOneWay
<1>2. TypeOK /\ GroupsStayOneWay /\ [Next]_vars => GroupsStayOneWay'
  <2>. SUFFICES ASSUME TypeOK, GroupsStayOneWay, [Next]_vars PROVE GroupsStayOneWay'
    OBVIOUS
  <2>1. kind' = kind
    BY RemoteKept DEF vars
  <2>2. told' = told \/ Obey \/ OnCastRemote
    BY DEF Next, User, Press, Slide, TakeEvent, VolumeTimesOut, Command, Worker, Serve, SetVolumeDone,
           TransportDone, CommandFails, Looks, Drain, Probe, Reconnect, Settle, PlayerSettles, VolumeSettles,
           EchoExpires, Tap, Mute, Turn, Touch, ApplyGroupVolume, GroupWaits, vars, sender
  <2>3. CASE Obey
    BY <2>1, <2>3 DEF Obey, GroupsStayOneWay
  <2>4. CASE OnCastRemote
    BY <2>1, <2>4 DEF OnCastRemote, Forwards, GroupsStayOneWay
  <2>. QED BY <2>1, <2>2, <2>3, <2>4 DEF GroupsStayOneWay
<1>. QED BY <1>1, <1>2, TypeCorrect, PTL DEF Spec

-----------------------------------------------------------------------------
(***************************************************************************)
(* The volume loop.                                                        *)
(***************************************************************************)
\* A level the speaker may have for a reason the tracker knows.
Own(level) == level \in turned \/ IsEcho(level)
Plain(v)   == v.muted = FALSE /\ Own(v.level)

StatusesPlain ==
  /\ \A i \in DOMAIN air : air[i].of = "volume" => Plain(air[i].is)
  /\ drained.volume # Nothing => Plain(drained.volume)
NoReport == drained.volume = Nothing /\ \A i \in DOMAIN air : air[i].of # "volume"
SpeakerPlain ==
  /\ volume.muted = FALSE /\ base.muted = FALSE
  /\ Plain(volume) \/ (volume = base /\ NoReport)
ServesEcho == serving.op = "SET" => IsEcho(serving.level)
Chosen(changes) == \A i \in DOMAIN changes : changes[i].of = "volume" => changes[i].is.level \in turned

LoopInv == muteTouched \/ (StatusesPlain /\ SpeakerPlain /\ ServesEcho /\ Chosen(remote) /\ Chosen(told))

LEMMA LoopInit == Init => LoopInv
<1>. SUFFICES ASSUME Init PROVE LoopInv
  OBVIOUS
<1>1. volume.muted = FALSE /\ base = volume
  BY DEF Init
<1>2. air = <<>> /\ drained = Nowhere /\ serving = NoCmd /\ remote = <<>> /\ told = <<>>
  BY DEF Init
<1>. QED BY <1>1, <1>2 DEF LoopInv, StatusesPlain, SpeakerPlain, NoReport, ServesEcho, Chosen, Nowhere, NoCmd

\* A level stays known while no echo expires.
LEMMA OwnGrows ==
  ASSUME turned \subseteq turned', NEW x, commanded \in Seq(Levels), x \in Levels,
         commanded' = commanded \/ commanded' = Append(commanded, x)
  PROVE  /\ \A level : IsEcho(level) => IsEcho(level)'
         /\ \A level : Own(level) => Own(level)'
<1>1. ASSUME NEW level, IsEcho(level) PROVE IsEcho(level)'
  <2>1. PICK i \in DOMAIN commanded : commanded[i] = level
    BY <1>1 DEF IsEcho
  <2>2. i \in DOMAIN commanded' /\ commanded'[i] = level
    BY <2>1
  <2>. QED BY <2>2 DEF IsEcho
<1>. QED BY <1>1 DEF Own

\* A look reports a volume only if it was chosen, and leaves the rest as the invariant wants it.
LEMMA ObserveLoop ==
  ASSUME TypeOK, NEW p, NEW v \in Volumes \cup {Nothing}, Observe(p, v), Chosen(remote),
         base.muted = FALSE, v = Nothing \/ Plain(v) \/ (v = base /\ v.muted = FALSE)
  PROVE  (\A i \in DOMAIN remote' : remote'[i].of = "volume" => remote'[i].is.level \in turned)
         /\ base'.muted = FALSE
<1>1. base'.muted = FALSE
  BY DEF Observe, Seen, Plain
<1>2. UserVolume(v) => v.level \in turned
  BY DEF UserVolume, Seen, Plain, Own
<1>. DEFINE r == Report("player", p, UserPlayer(p))
            w == Report("volume", v, UserVolume(v))
<1>3. r = <<>> \/ r = <<[of |-> "player", is |-> p]>>
  BY DEF Report
<1>4. w = <<>> \/ (w = <<[of |-> "volume", is |-> v]>> /\ v.level \in turned)
  BY <1>2 DEF Report
<1>5. remote' = (remote \o r) \o w /\ remote \in Seq(Change)
  BY DEF Observe, TypeOK
<1>6. \A i \in DOMAIN remote' : remote'[i].of = "volume" => remote'[i].is.level \in turned
  <2>. HIDE DEF r, w
  <2>1. \A i \in DOMAIN (remote \o r) :
           (remote \o r)[i].of = "volume" => (remote \o r)[i].is.level \in turned
    BY <1>3, <1>5 DEF Chosen
  <2>2. \E S : remote \o r \in Seq(S)
    <3>. DEFINE S == Change \cup {[of |-> "player", is |-> p]}
    <3>1. [of |-> "player", is |-> p] \in S /\ Change \subseteq S
      OBVIOUS
    <3>2. remote \in Seq(S) /\ r \in Seq(S)
      <4>. DEFINE e == [of |-> "player", is |-> p]
      <4>1. e \in S
        BY <3>1
      <4>2. <<>> \in Seq(S) /\ <<e>> \in Seq(S)
        <5>. HIDE DEF S, e
        <5>. QED BY <4>1
      <4>3. remote \in Seq(S)
        <5>. HIDE DEF S
        <5>. QED BY <1>5, <3>1
      <4>. QED BY <1>3, <4>2, <4>3
    <3>3. remote \o r \in Seq(S)
      <4>. HIDE DEF S
      <4>. QED BY <3>2, ConcatProperties
    <3>. QED BY <3>3
  <2>. QED BY <1>4, <1>5, <2>1, <2>2
<1>. QED BY <1>1, <1>6

LEMMA LoopStep ==
  ASSUME TypeOK, LoopInv, Next
  PROVE  LoopInv'
<1>. SUFFICES ASSUME ~muteTouched' PROVE LoopInv'
  BY DEF LoopInv
<1>m. ~muteTouched /\ muteTouched' = muteTouched /\ turned \subseteq turned'
  BY DEF Next, User, Press, Slide, Obey, TakeEvent, VolumeTimesOut, Command, Worker, Serve, SetVolumeDone,
         TransportDone, CommandFails, Looks, Drain, Probe, Reconnect, Settle, PlayerSettles, VolumeSettles,
         EchoExpires, Tap, Mute, Turn, Touch, OnCastRemote, ApplyGroupVolume, GroupWaits, history, TypeOK,
         HistoryType
<1>i. StatusesPlain /\ SpeakerPlain /\ ServesEcho /\ Chosen(remote) /\ Chosen(told)
  BY <1>m DEF LoopInv
<1>t. /\ air \in Seq(Status) /\ commanded \in Seq(Levels) /\ remote \in Seq(Change) /\ told \in Seq(Change)
      /\ volume \in Volumes /\ base \in Volumes
  BY DEF TypeOK, SenderType, TrackerType, DeviceType
<1>. DEFINE kept == UNCHANGED <<base, commanded, volume, air, drained, turned>>
<1>k. ASSUME kept PROVE StatusesPlain' /\ SpeakerPlain'
  BY <1>k, <1>i DEF StatusesPlain, SpeakerPlain, NoReport, Plain, Own, IsEcho
<1>1. CASE UNCHANGED <<base, commanded, volume, air, drained, turned, serving, remote, told>>
  BY <1>1, <1>k, <1>i DEF LoopInv, ServesEcho, IsEcho, Chosen
<1>2. CASE Obey
  <2>1. kept /\ UNCHANGED <<serving, remote>> /\ told' = Tail(told) /\ told # <<>>
    BY <1>2 DEF Obey, tracker, transit, device
  <2>2. Chosen(told)'
    BY <1>i, <1>t, <2>1, HeadTail DEF Chosen
  <2>. QED BY <1>i, <1>k, <2>1, <2>2 DEF LoopInv, ServesEcho, IsEcho, Chosen
<1>3. CASE VolumeTimesOut
  <2>1. kept /\ UNCHANGED <<told, remote>>
    BY <1>3 DEF VolumeTimesOut, tracker, device, sender, history
  <2>2. serving'.op = "SET" => serving.op = "SET" /\ serving'.level = serving.level
    BY <1>3 DEF VolumeTimesOut, TypeOK, TransitType, Cmd, NoCmd
  <2>. QED BY <1>i, <1>k, <2>1, <2>2 DEF LoopInv, ServesEcho, IsEcho, Chosen
<1>4. CASE Serve
  <2>1. UNCHANGED <<base, volume, air, drained, turned, remote, told>>
    BY <1>4 DEF Serve, device, sender, history
  <2>2. CASE Head(queue).op = "SET"
    <3>1. serving'.level \in Levels /\ commanded' = Append(commanded, serving'.level)
      BY <1>4, <2>2, ServedLevel DEF Serve, Ops
    <3>2. \A level : Own(level) => Own(level)'
      BY <1>t, <2>1, <3>1, OwnGrows
    <3>3. IsEcho(serving.level)'
      <4>1. Len(commanded) + 1 \in DOMAIN commanded' /\ commanded'[Len(commanded) + 1] = serving'.level
        BY <1>t, <3>1
      <4>. QED BY <4>1 DEF IsEcho
    <3>. QED BY <1>i, <2>1, <3>2, <3>3 DEF LoopInv, StatusesPlain, SpeakerPlain, NoReport, Plain, ServesEcho, Chosen
  <2>3. CASE Head(queue).op # "SET"
    <3>1. serving'.op # "SET" /\ commanded' = commanded
      BY <1>4, <2>3 DEF Serve
    <3>. QED BY <1>i, <1>k, <2>1, <3>1 DEF LoopInv, ServesEcho, Chosen
  <2>. QED BY <2>2, <2>3
<1>5. CASE SetVolumeDone
  <2>1. /\ serving.op = "SET" /\ IsEcho(serving.level) /\ serving.level \in Levels
        /\ UNCHANGED <<commanded, drained, turned, remote, told>> /\ serving' = NoCmd
    BY <1>5, <1>i, ServesSet DEF SetVolumeDone, Reply, ServesEcho, sender, history
  <2>2. volume' = [volume EXCEPT !.level = serving.level] /\ base' = volume' /\ air' = Aged(volume', "volume")
    BY <1>5 DEF SetVolumeDone
  <2>3. volume'.muted = FALSE /\ volume'.level = serving.level
    BY <1>i, <1>t, <2>2 DEF SpeakerPlain, Volumes
  <2>4. \A level : Own(level)' <=> Own(level)
    BY <2>1 DEF Own, IsEcho
  <2>5. Plain(volume)'
    BY <2>1, <2>3, <2>4 DEF Plain, Own
  <2>6. \A i \in DOMAIN air' : air'[i].of = "volume" => Plain(air[i].is)'
    <3>1. DOMAIN air' = 1..(Len(air) + 1)
      BY <2>2 DEF Aged
    <3>2. \A i \in 1..Len(air) : air'[i].of = air[i].of /\ air'[i].is = air[i].is
      BY <1>t, <2>2 DEF Aged, Status
    <3>3. air'[Len(air) + 1].is = volume'
      BY <1>t, <2>2 DEF Aged
    <3>. QED BY <1>i, <1>t, <2>4, <2>5, <3>1, <3>2, <3>3 DEF StatusesPlain, Plain
  <2>. QED BY <1>i, <2>1, <2>2, <2>3, <2>4, <2>5, <2>6
           DEF LoopInv, StatusesPlain, SpeakerPlain, Plain, ServesEcho, NoCmd, Chosen
<1>6. CASE TransportDone
  <2>1. UNCHANGED <<base, commanded, volume, drained, turned, remote, told>> /\ serving' = NoCmd
    BY <1>6 DEF TransportDone, Reply, tracker, sender, history
  <2>2. air' = Aged(player', "player")
    BY <1>6 DEF TransportDone
  <2>3. \A i \in DOMAIN air' : air'[i].of = "volume" => \E j \in DOMAIN air : air[j].of = "volume" /\ air'[i].is = air[j].is
    BY <1>t, <2>2 DEF Aged, Status
  <2>4. StatusesPlain' /\ SpeakerPlain'
    BY <1>i, <2>1, <2>3 DEF StatusesPlain, SpeakerPlain, NoReport, Plain, Own, IsEcho
  <2>. QED BY <1>i, <2>1, <2>4 DEF LoopInv, ServesEcho, NoCmd, Chosen
<1>7. CASE CommandFails
  <2>1. UNCHANGED <<base, commanded, turned, remote, told>> /\ serving' = NoCmd
    BY <1>7 DEF CommandFails, Reply, tracker, sender
  <2>2. \A level : Own(level)' <=> Own(level)
    BY <2>1 DEF Own, IsEcho
  <2>3. volume' = volume \/ (serving.op = "SET" /\ volume' = [volume EXCEPT !.level = serving.level])
    BY <1>7 DEF CommandFails
  <2>4. volume' = volume \/ Plain(volume)'
    BY <1>i, <1>t, <2>2, <2>3 DEF SpeakerPlain, ServesEcho, Plain, Own, Volumes
  <2>5. \A i \in DOMAIN air' : air'[i].of = "volume" => \E j \in DOMAIN air : air[j].of = "volume" /\ air'[i].is = air[j].is
    <3>. DEFINE marked == [i \in DOMAIN air |-> [air[i] EXCEPT !.old = TRUE]]
    <3>1. air' = <<>> \/ air' = marked
      BY <1>7 DEF CommandFails
    <3>2. \A i \in DOMAIN marked : i \in DOMAIN air /\ marked[i].of = air[i].of /\ marked[i].is = air[i].is
      <4>1. \A s \in Status : LET t == [s EXCEPT !.old = TRUE] IN t.of = s.of /\ t.is = s.is
        BY DEF Status
      <4>2. \A i \in DOMAIN air : air[i] \in Status
        BY <1>t
      <4>. QED BY <4>1, <4>2
    <3>. HIDE DEF marked
    <3>. QED BY <3>1, <3>2
  <2>6. drained'.volume = Nothing \/ drained' = drained
    BY <1>7 DEF CommandFails, Nowhere
  <2>7. StatusesPlain'
    BY <1>i, <2>2, <2>5, <2>6 DEF StatusesPlain, Plain
  <2>8. volume'.muted = FALSE
    BY <1>i, <2>4 DEF SpeakerPlain, Plain
  <2>9. SpeakerPlain'
    BY <1>i, <2>1, <2>2, <2>4, <2>5, <2>6, <2>8 DEF SpeakerPlain, NoReport, Plain
  <2>. QED BY <1>i, <2>1, <2>7, <2>9 DEF LoopInv, ServesEcho, NoCmd, Chosen
<1>8. CASE Drain
  <2>1. PICK n \in 0..Len(air) : /\ Observe(Arrived(n).player, Arrived(n).volume)
                                 /\ air' = SubSeq(air, n + 1, Len(air))
    BY <1>8 DEF Drain
  <2>2. UNCHANGED <<commanded, volume, turned, told, serving>> /\ drained' = Nowhere
    BY <1>8, <2>1 DEF Drain, Observe, sender, transit, history
  <2>3. \A i \in DOMAIN air' : \E j \in DOMAIN air : air'[i] = air[j]
    <3>1. ASSUME NEW i \in DOMAIN air' PROVE n + i \in DOMAIN air /\ air'[i] = air[n + i]
      BY <1>t, <2>1, DropIs
    <3>. QED BY <3>1
  <2>4. Arrived(n).volume \in Volumes \cup {Nothing}
    BY LookedAt
  <2>5. Arrived(n).volume = drained.volume \/ \E i \in DOMAIN air : air[i].of = "volume" /\ Arrived(n).volume = air[i].is
    BY ArrivedIs
  <2>6. Arrived(n).volume = Nothing \/ Plain(Arrived(n).volume)
    BY <1>i, <2>5 DEF StatusesPlain
  <2>7. (\A i \in DOMAIN remote' : remote'[i].of = "volume" => remote'[i].is.level \in turned) /\ base'.muted = FALSE
    BY <1>i, <2>1, <2>4, <2>6, ObserveLoop DEF SpeakerPlain
  <2>8. NoReport => Arrived(n).volume = Nothing
    BY <2>5 DEF NoReport
  <2>9. NoReport => base' = base
    BY <2>1, <2>8 DEF Observe, Seen
  <2>10. StatusesPlain' /\ SpeakerPlain'
    BY <1>i, <2>2, <2>3, <2>7, <2>9 DEF StatusesPlain, SpeakerPlain, NoReport, Nowhere, Plain, Own, IsEcho
  <2>. QED BY <1>i, <2>2, <2>7, <2>10 DEF LoopInv, ServesEcho, IsEcho, Chosen
<1>9. CASE Probe
  <2>1. Observe(player, volume) /\ drained' = Arrived(Len(air)) /\ air' = <<>>
    BY <1>9 DEF Probe
  <2>2. UNCHANGED <<commanded, volume, turned, told, serving>>
    BY <1>9, <2>1 DEF Probe, Observe, sender, transit, history
  <2>3. Arrived(Len(air)).volume = drained.volume
        \/ \E i \in DOMAIN air : air[i].of = "volume" /\ Arrived(Len(air)).volume = air[i].is
    <3>1. Len(air) \in 0..Len(air)
      BY <1>t
    <3>. QED BY <3>1, ArrivedIs
  <2>4. Arrived(Len(air)).volume = Nothing \/ Plain(Arrived(Len(air)).volume)
    BY <1>i, <2>3 DEF StatusesPlain
  <2>5. Plain(volume) \/ (volume = base /\ volume.muted = FALSE)
    BY <1>i DEF SpeakerPlain
  <2>6. (\A i \in DOMAIN remote' : remote'[i].of = "volume" => remote'[i].is.level \in turned) /\ base'.muted = FALSE
    BY <1>i, <1>t, <2>1, <2>5, ObserveLoop DEF SpeakerPlain
  <2>7. volume = base => base' = base
    BY <2>1 DEF Observe
  <2>8. NoReport => Arrived(Len(air)).volume = Nothing
    BY <2>3 DEF NoReport
  <2>9. StatusesPlain' /\ SpeakerPlain'
    BY <1>i, <2>1, <2>2, <2>4, <2>6, <2>7, <2>8 DEF StatusesPlain, SpeakerPlain, NoReport, Plain, Own, IsEcho
  <2>. QED BY <1>i, <2>2, <2>6, <2>9 DEF LoopInv, ServesEcho, IsEcho, Chosen
<1>10. CASE Reconnect
  <2>1. UNCHANGED <<base, commanded, volume, turned, serving, remote, told>> /\ air' = <<>> /\ drained' = Nowhere
    BY <1>10 DEF Reconnect, tracker, transit, sender, history
  <2>. QED BY <1>i, <2>1 DEF LoopInv, StatusesPlain, SpeakerPlain, NoReport, ServesEcho, Chosen, Nowhere, Plain, Own, IsEcho
<1>11. CASE EchoExpires
  <2>1. /\ UNCHANGED <<base, volume, air, drained, turned, serving, remote, told>>
        /\ base = volume /\ air = <<>> /\ drained = Nowhere /\ serving = NoCmd
    BY <1>11 DEF EchoExpires, Idle, device, transit, sender, history
  <2>. QED BY <1>i, <2>1 DEF LoopInv, StatusesPlain, SpeakerPlain, NoReport, ServesEcho, NoCmd, Chosen, Nowhere
<1>12. CASE Tap
  <2>1. /\ UNCHANGED <<base, commanded, volume, drained, turned, serving, remote, told>>
        /\ air' = Append(air, [of |-> "player", is |-> player', old |-> FALSE])
    BY <1>12 DEF Tap, tracker, transit, sender
  <2>2. \A i \in DOMAIN air' : air'[i].of = "volume" => i \in DOMAIN air /\ air'[i] = air[i]
    BY <1>t, <2>1
  <2>3. StatusesPlain' /\ SpeakerPlain'
    BY <1>i, <2>1, <2>2 DEF StatusesPlain, SpeakerPlain, NoReport, Plain, Own, IsEcho
  <2>. QED BY <1>i, <2>1, <2>3 DEF LoopInv, ServesEcho, IsEcho, Chosen
<1>13. ASSUME NEW l \in Levels, Turn(l) PROVE LoopInv'
  <2>. DEFINE v == [volume EXCEPT !.level = l]
  <2>1. /\ UNCHANGED <<base, commanded, drained, serving, remote, told>> /\ turned' = turned \cup {l}
        /\ volume' = v /\ air' = Append(air, [of |-> "volume", is |-> v, old |-> FALSE])
    BY <1>13 DEF Turn, Touch, tracker, transit, sender
  <2>2. v.muted = FALSE /\ v.level = l
    BY <1>i, <1>t DEF SpeakerPlain, Volumes
  <2>3. \A level : Own(level) => Own(level)'
    BY <2>1 DEF Own, IsEcho
  <2>4. Plain(volume)'
    BY <2>1, <2>2 DEF Plain, Own
  <2>5. \A i \in DOMAIN air' : (i \in DOMAIN air /\ air'[i] = air[i]) \/ air'[i].is = volume'
    <3>. HIDE DEF v
    <3>. QED BY <1>t, <2>1
  <2>6. StatusesPlain'
    BY <1>i, <2>1, <2>3, <2>4, <2>5 DEF StatusesPlain, Plain
  <2>7. SpeakerPlain'
    BY <1>i, <2>1, <2>4 DEF SpeakerPlain, Plain
  <2>. QED BY <1>i, <2>1, <2>6, <2>7 DEF LoopInv, ServesEcho, IsEcho, Chosen
<1>14. CASE OnCastRemote
  <2>1. kept /\ serving' = serving /\ remote # <<>> /\ remote' = Tail(remote)
        /\ (told' = told \/ told' = Append(told, Head(remote)))
    BY <1>14 DEF OnCastRemote, tracker, transit, device
  <2>2. Chosen(remote)'
    BY <1>i, <1>t, <2>1, HeadTail DEF Chosen
  <2>3. Head(remote).of = "volume" => Head(remote).is.level \in turned
    BY <1>i, <1>t, <2>1 DEF Chosen
  <2>4. Chosen(told)'
    <3>1. Head(remote) \in Change
      BY <1>t, <2>1
    <3>2. \A i \in DOMAIN told' : (i \in DOMAIN told /\ told'[i] = told[i]) \/ told'[i] = Head(remote)
      <4>. DEFINE h == Head(remote)
      <4>1. h \in Change /\ (told' = told \/ told' = Append(told, h))
        BY <2>1, <3>1
      <4>. HIDE DEF h
      <4>2. told \in Seq(Change)
        BY <1>t
      <4>3. \A i \in DOMAIN Append(told, h) : (i \in DOMAIN told /\ Append(told, h)[i] = told[i]) \/ Append(told, h)[i] = h
        BY <4>1, <4>2
      <4>4. \A i \in DOMAIN told' : (i \in DOMAIN told /\ told'[i] = told[i]) \/ told'[i] = h
        BY <4>1, <4>3
      <4>. QED BY <4>4 DEF h
    <3>. QED BY <1>i, <2>1, <2>3, <3>2 DEF Chosen
  <2>. QED BY <1>i, <1>k, <2>1, <2>2, <2>4 DEF LoopInv, ServesEcho, IsEcho
<1>15. CASE Mute
  BY <1>m, <1>15 DEF Mute
<1>. QED
  <2>1. \/ UNCHANGED <<base, commanded, volume, air, drained, turned, serving, remote, told>>
        \/ Obey \/ VolumeTimesOut \/ Serve \/ SetVolumeDone \/ TransportDone \/ CommandFails \/ Drain \/ Probe
        \/ Reconnect \/ EchoExpires \/ Tap \/ (\E l \in Levels : Turn(l)) \/ OnCastRemote \/ Mute
    BY DEF Next, User, Press, Slide, TakeEvent, HandleVolume, HandlePause, HandleResume, Command, Worker, Looks,
           Settle, PlayerSettles, VolumeSettles, ApplyGroupVolume, GroupWaits, sender, transit, tracker, device,
           history
  <2>. QED BY <2>1, <1>1, <1>2, <1>3, <1>4, <1>5, <1>6, <1>7, <1>8, <1>9, <1>10, <1>11, <1>12, <1>13, <1>14, <1>15

\* For every set of levels and every device: a volume the sender is told was chosen on the
\* speaker, or its mute was touched.  The tracker never takes the echo of a level the bridge set
\* for the user's, however late it arrives (RemoteTracker::observe).
THEOREM VolumeLoopIsCut == Spec => []NoVolumeLoop
<1>1. TypeOK /\ LoopInv /\ [Next]_vars => LoopInv'
  <2>. SUFFICES ASSUME TypeOK, LoopInv, UNCHANGED vars PROVE LoopInv'
    BY LoopStep
  <2>. QED BY DEF vars, sender, transit, tracker, device, history, LoopInv, StatusesPlain, SpeakerPlain,
                  NoReport, Plain, Own, IsEcho, ServesEcho, Chosen
<1>2. LoopInv => NoVolumeLoop
  BY DEF LoopInv, Chosen, NoVolumeLoop
<1>. QED BY <1>1, <1>2, LoopInit, TypeCorrect, PTL DEF Spec

-----------------------------------------------------------------------------
(***************************************************************************)
(* The last slide of a group.  A level it chose is an event on its way or  *)
(* the target, or the apply task has it, or every member ends at it once   *)
(* its worker has served its queue; or something failed since.             *)
(***************************************************************************)
\* The last volume event of q, if there is one, has level l.
LastVolume(q, l) ==
  \A i \in 1..Len(q) : q[i].op = "Volume" /\ (\A j \in 1..Len(q) : i < j => q[j].op # "Volume") => q[i].level = l

\* A member at level now is at l once the levels of q are set.
EndsAt(q, now, l) == IF q = <<>> THEN now = l ELSE q[Len(q)] = l

OnItsWay(l) ==
  \/ target = l /\ apply # "off"
  \/ target = Nothing /\ apply \in {"read", "set"} /\ applying = l
  \/ target = Nothing /\ apply \in {"wait", "next", "off"} /\ \A m \in Members : EndsAt(memberQueue[m], member[m], l)

SlideInv ==
  VolumeRoute = "members" =>
    /\ LastVolume(events, slider.level)
    /\ Has(events, "Volume") \/ lost \/ OnItsWay(slider.level)

\* An event that is no volume changes nothing, a volume is the last one, and one event less may
\* have been the last.
LEMMA OtherEvent ==
  ASSUME NEW q \in Seq(Event), NEW e \in Event, e.op # "Volume", NEW l
  PROVE  /\ LastVolume(q, l) => LastVolume(Append(q, e), l)
         /\ Has(q, "Volume") => Has(Append(q, e), "Volume")
<1>1. /\ Len(q) \in Nat /\ Len(Append(q, e)) = Len(q) + 1
      /\ Append(q, e)[Len(q) + 1] = e
      /\ \A i \in 1..Len(q) : Append(q, e)[i] = q[i]
  OBVIOUS
<1>. DEFINE z == Append(q, e)
<1>. HIDE DEF z
<1>2. \A i \in 1..Len(q) : i \in 1..Len(z) /\ z[i] = q[i]
  BY <1>1 DEF z
<1>3. \A i \in 1..Len(z) : z[i].op = "Volume" => i \in 1..Len(q)
  BY <1>1 DEF z
<1>4. LastVolume(q, l) => LastVolume(z, l)
  <2>. SUFFICES ASSUME LastVolume(q, l), NEW i \in 1..Len(z), z[i].op = "Volume",
                       \A j \in 1..Len(z) : i < j => z[j].op # "Volume"
                PROVE  z[i].level = l
    BY DEF LastVolume
  <2>1. i \in 1..Len(q) /\ z[i] = q[i] /\ \A j \in 1..Len(q) : i < j => q[j].op # "Volume"
    BY <1>2, <1>3
  <2>. QED BY <2>1 DEF LastVolume
<1>5. Has(q, "Volume") => Has(z, "Volume")
  BY <1>2 DEF Has
<1>. QED BY <1>4, <1>5 DEF z

LEMMA NewVolume ==
  ASSUME NEW q \in Seq(Event), NEW l
  PROVE  LET e == [op |-> "Volume", level |-> l] IN
           LastVolume(Append(q, e), l) /\ Has(Append(q, e), "Volume")
<1>. DEFINE e == [op |-> "Volume", level |-> l]
            z == Append(q, e)
<1>1. e.op = "Volume" /\ e.level = l
  OBVIOUS
<1>2. Len(q) \in Nat /\ Len(z) = Len(q) + 1 /\ z[Len(q) + 1] = e
  OBVIOUS
<1>. HIDE DEF z, e
<1>3. Len(z) \in 1..Len(z) /\ z[Len(z)] = e /\ \A i \in 1..Len(z) : i < Len(z) \/ i = Len(z)
  BY <1>2
<1>4. LastVolume(z, l)
  BY <1>1, <1>3 DEF LastVolume
<1>5. Has(z, "Volume")
  BY <1>1, <1>3 DEF Has
<1>. QED BY <1>4, <1>5 DEF z, e

LEMMA LessEvent ==
  ASSUME NEW q \in Seq(Event), q # <<>>, NEW l, LastVolume(q, l)
  PROVE  /\ LastVolume(Tail(q), l)
         /\ Head(q).op = "Volume" => Has(Tail(q), "Volume") \/ Head(q).level = l
         /\ Head(q).op # "Volume" /\ Has(q, "Volume") => Has(Tail(q), "Volume")
<1>. DEFINE z == Tail(q)
<1>1. /\ Len(q) \in Nat \ {0} /\ Len(z) = Len(q) - 1 /\ Head(q) = q[1]
      /\ \A i \in 1..Len(z) : z[i] = q[i + 1]
  OBVIOUS
<1>. HIDE DEF z
<1>2. \A i \in 1..Len(z) : i + 1 \in 1..Len(q) /\ z[i] = q[i + 1]
  BY <1>1
<1>3. \A j \in 1..Len(q) : j # 1 => j - 1 \in 1..Len(z) /\ z[j - 1] = q[j]
  <2>. SUFFICES ASSUME NEW j \in 1..Len(q), j # 1 PROVE j - 1 \in 1..Len(z) /\ z[j - 1] = q[j]
    OBVIOUS
  <2>1. j - 1 \in 1..Len(z) /\ (j - 1) + 1 = j
    BY <1>1
  <2>. QED BY <1>1, <2>1
<1>4. LastVolume(z, l)
  <2>. SUFFICES ASSUME NEW i \in 1..Len(z), z[i].op = "Volume",
                       \A j \in 1..Len(z) : i < j => z[j].op # "Volume"
                PROVE  z[i].level = l
    BY DEF LastVolume
  <2>1. i + 1 \in 1..Len(q) /\ z[i] = q[i + 1]
    BY <1>2
  <2>2. ASSUME NEW j \in 1..Len(q), i + 1 < j PROVE q[j].op # "Volume"
    <3>1. j # 1 /\ i < j - 1
      BY <2>2
    <3>. QED BY <1>3, <3>1
  <2>. QED BY <2>1, <2>2 DEF LastVolume
<1>5. 1 \in 1..Len(q) /\ \A j \in 1..Len(q) : 1 < j => j # 1
  BY <1>1
<1>6. Head(q).op = "Volume" => Has(z, "Volume") \/ Head(q).level = l
  BY <1>1, <1>3, <1>5 DEF LastVolume, Has
<1>7. Head(q).op # "Volume" /\ Has(q, "Volume") => Has(z, "Volume")
  BY <1>1, <1>3 DEF Has
<1>. QED BY <1>4, <1>6, <1>7 DEF z

LEMMA SlideInit == Init => SlideInv
<1>. SUFFICES ASSUME Init PROVE SlideInv
  OBVIOUS
<1>1. events = <<>> /\ target = Nothing /\ apply = "off"
  BY DEF Init
<1>2. PICK l \in Levels : /\ slider = [level |-> l, muted |-> FALSE] /\ member = [m \in Members |-> l]
                          /\ memberQueue = [m \in Members |-> <<>>]
  BY BoundsAssumption DEF Init
<1>3. LastVolume(events, slider.level)
  BY <1>1 DEF LastVolume
<1>4. OnItsWay(slider.level)
  BY <1>1, <1>2 DEF OnItsWay, EndsAt
<1>. QED BY <1>3, <1>4 DEF SlideInv

\* While the target stays, so does the way it takes.
LEMMA ApplyGoesOn ==
  ASSUME TypeOK, ApplyGroupVolume \/ GroupWaits, NEW l \in Levels, OnItsWay(l), ~lost'
  PROVE  OnItsWay(l)'
<1>1. /\ l # Nothing /\ \A m \in Members : memberQueue[m] \in Seq(Levels)
      /\ memberQueue \in [Members -> Seq(Levels)] /\ member \in [Members -> Levels]
  BY BoundsAssumption DEF TypeOK, GroupType
<1>2. CASE NextTarget
  <2>1. CASE target = l
    BY <1>1, <1>2, <2>1 DEF NextTarget, OnItsWay
  <2>2. CASE target # l
    BY <1>1, <1>2, <2>2 DEF NextTarget, OnItsWay
  <2>. QED BY <2>1, <2>2
<1>3. CASE ReadMembers
  <2>1. apply = "read" /\ apply' = "set" /\ UNCHANGED <<target, applying>>
    BY <1>3 DEF ReadMembers
  <2>. QED BY <2>1 DEF OnItsWay
<1>4. CASE SetMembers
  <2>1. apply = "set" /\ apply' = "wait" /\ UNCHANGED <<target, applying, member>>
        /\ memberQueue' = [m \in Members |-> Append(memberQueue[m], applying)]
    BY <1>4 DEF SetMembers
  <2>2. CASE target = l
    BY <2>1, <2>2 DEF OnItsWay
  <2>3. CASE target # l
    <3>1. target = Nothing /\ applying = l
      BY <2>1, <2>3 DEF OnItsWay
    <3>2. ASSUME NEW m \in Members PROVE EndsAt(memberQueue'[m], member'[m], l)
      <4>1. memberQueue'[m] = Append(memberQueue[m], l) /\ memberQueue[m] \in Seq(Levels)
        BY <1>1, <2>1, <3>1
      <4>2. memberQueue'[m] # <<>> /\ memberQueue'[m][Len(memberQueue'[m])] = l
        BY <4>1
      <4>. QED BY <4>2 DEF EndsAt
    <3>. QED BY <2>1, <3>1, <3>2 DEF OnItsWay
  <2>. QED BY <2>2, <2>3
<1>5. CASE MembersSet \/ CacheExpires \/ \E m \in Members : MemberTimesOut(m)
  <2>1. UNCHANGED <<target, applying, member, memberQueue>>
    BY <1>5 DEF MembersSet, CacheExpires, MemberTimesOut
  <2>2. apply' = apply \/ (apply = "wait" /\ apply' = "next")
    BY <1>5 DEF MembersSet, CacheExpires, MemberTimesOut
  <2>. QED BY <2>1, <2>2 DEF OnItsWay
<1>6. ASSUME NEW n \in Members, MemberSets(n) PROVE OnItsWay(l)'
  <2>1. /\ UNCHANGED <<target, apply, applying>> /\ memberQueue[n] # <<>>
        /\ memberQueue' = [memberQueue EXCEPT ![n] = <<>>]
        /\ member' = [member EXCEPT ![n] = memberQueue[n][Len(memberQueue[n])]]
    BY <1>6 DEF MemberSets
  <2>2. \A m \in Members : EndsAt(memberQueue[m], member[m], l) => EndsAt(memberQueue'[m], member'[m], l)
    BY <1>1, <2>1 DEF EndsAt
  <2>. QED BY <2>1, <2>2 DEF OnItsWay
<1>. QED BY <1>2, <1>3, <1>4, <1>5, <1>6 DEF ApplyGroupVolume, GroupWaits

LEMMA SlideStep ==
  ASSUME TypeOK, GroupsStayOneWay, SlideInv, [Next]_vars
  PROVE  SlideInv'
<1>. SUFFICES ASSUME VolumeRoute' = "members"
              PROVE  /\ LastVolume(events', slider'.level)
                     /\ Has(events', "Volume") \/ lost' \/ OnItsWay(slider.level)'
  BY DEF SlideInv
<1>1. kind' = kind /\ hosted' = hosted
  BY RemoteKept DEF vars
<1>2. VolumeRoute = "members" /\ kind = "group" /\ told = <<>>
  BY <1>1 DEF VolumeRoute, GroupsStayOneWay
<1>3. /\ LastVolume(events, slider.level)
      /\ Has(events, "Volume") \/ lost \/ OnItsWay(slider.level)
  BY <1>2 DEF SlideInv
<1>4. events \in Seq(Event) /\ slider.level \in Levels /\ slider \in Volumes
  BY DEF TypeOK, SenderType, Volumes
<1>5. CASE UNCHANGED <<events, slider, group>> /\ (lost => lost')
  <2>1. OnItsWay(slider.level) => OnItsWay(slider.level)'
    BY <1>5 DEF OnItsWay, group
  <2>. QED BY <1>3, <1>5, <2>1
<1>6. CASE Press
  <2>1. UNCHANGED <<slider, group, lost>>
    BY <1>6 DEF Press
  <2>2. \/ events' = events
        \/ \E e \in Event : e.op # "Volume" /\ events' = Append(events, e)
    <3>1. \A op \in {"Paused", "Resumed"} : [op |-> op, level |-> Nothing] \in Event
      BY DEF Event
    <3>. QED BY <1>6, <3>1 DEF Press, SetRate
  <2>3. LastVolume(events', slider.level) /\ (Has(events, "Volume") => Has(events', "Volume"))
    BY <1>3, <1>4, <2>2, OtherEvent
  <2>4. OnItsWay(slider.level) => OnItsWay(slider.level)'
    BY <2>1 DEF OnItsWay, group
  <2>. QED BY <1>3, <2>1, <2>3, <2>4
<1>7. ASSUME NEW l \in Levels, Slide(l)
      PROVE  LastVolume(events', slider'.level) /\ Has(events', "Volume")
  <2>1. slider'.level = l /\ events' = Append(events, [op |-> "Volume", level |-> l])
    BY <1>4, <1>7 DEF Slide, Volumes
  <2>. QED BY <1>4, <2>1, NewVolume
<1>8. CASE TakeEvent
  <2>1. /\ events # <<>> /\ events' = Tail(events) /\ UNCHANGED <<slider, lost>>
        /\ HandleVolume \/ HandlePause \/ HandleResume
    BY <1>8 DEF TakeEvent, history
  <2>2. /\ LastVolume(events', slider.level)
        /\ Head(events).op = "Volume" => Has(events', "Volume") \/ Head(events).level = slider.level
        /\ Head(events).op # "Volume" /\ Has(events, "Volume") => Has(events', "Volume")
    BY <1>3, <1>4, <2>1, LessEvent
  <2>3. CASE HandleVolume
    <3>1. Head(events).op = "Volume" /\ QueueGroupVolume(Head(events).level)
      BY <1>2, <2>3 DEF HandleVolume
    <3>2. target' = Head(events).level /\ apply' # "off"
      BY <3>1 DEF QueueGroupVolume
    <3>3. Head(events).level = slider'.level => OnItsWay(slider.level)'
      BY <3>2 DEF OnItsWay
    <3>. QED BY <2>1, <2>2, <3>1, <3>3
  <2>4. CASE HandlePause \/ HandleResume
    <3>1. Head(events).op # "Volume" /\ UNCHANGED group
      BY <2>4 DEF HandlePause, HandleResume
    <3>2. OnItsWay(slider.level) => OnItsWay(slider.level)'
      BY <2>1, <3>1 DEF OnItsWay, group
    <3>. QED BY <1>3, <2>1, <2>2, <3>1, <3>2
  <2>. QED BY <2>1, <2>3, <2>4
<1>9. CASE ApplyGroupVolume \/ GroupWaits
  <2>1. UNCHANGED <<events, slider>>
    BY <1>9 DEF ApplyGroupVolume, GroupWaits, sender
  <2>2. lost => lost'
    BY <1>9 DEF ApplyGroupVolume, GroupWaits, NextTarget, ReadMembers, SetMembers, MembersSet, MemberSets,
           CacheExpires, MemberTimesOut
  <2>3. OnItsWay(slider.level) /\ ~lost' => OnItsWay(slider.level)'
    <3>1. PICK l \in Levels : slider.level = l /\ slider'.level = l
      BY <1>4, <2>1
    <3>2. OnItsWay(l) /\ ~lost' => OnItsWay(l)'
      BY <1>9, ApplyGoesOn
    <3>. QED BY <3>1, <3>2 DEF OnItsWay
  <2>. QED BY <1>3, <2>1, <2>2, <2>3
<1>10. CASE Obey
  BY <1>2, <1>10 DEF Obey
<1>11. \/ UNCHANGED <<events, slider, group>> /\ (lost => lost')
       \/ Press \/ (\E l \in Levels : Slide(l)) \/ Obey \/ TakeEvent \/ ApplyGroupVolume \/ GroupWaits
  BY DEF Next, User, VolumeTimesOut, Command, Worker, Serve, SetVolumeDone, TransportDone, CommandFails, Looks,
         Drain, Probe, Reconnect, Settle, PlayerSettles, VolumeSettles, EchoExpires, Tap, Mute, Turn, Touch,
         OnCastRemote, vars, sender, history
<1>. QED BY <1>5, <1>6, <1>7, <1>8, <1>9, <1>10, <1>11

\* For every set of levels and members: at rest every member of a group whose session plays
\* elsewhere is at the last level slid to, unless something failed since.
THEOREM LastSlideIsApplied == Spec => []LastSlideApplied
<1>1. TypeOK /\ SlideInv => LastSlideApplied
  <2>. SUFFICES ASSUME TypeOK, SlideInv, Quiet, VolumeRoute = "members", ~lost, NEW m \in Members
                PROVE  member[m] = slider.level
    BY DEF LastSlideApplied
  <2>1. events = <<>> /\ apply = "off" /\ memberQueue[m] = <<>>
    BY DEF Quiet
  <2>2. ~Has(events, "Volume")
    BY <2>1 DEF Has
  <2>3. OnItsWay(slider.level)
    BY <2>2 DEF SlideInv
  <2>4. EndsAt(memberQueue[m], member[m], slider.level)
    BY <2>1, <2>3 DEF OnItsWay
  <2>. QED BY <2>1, <2>4 DEF EndsAt
<1>. QED BY <1>1, SlideInit, SlideStep, OneWay, TypeCorrect, PTL DEF Spec

-----------------------------------------------------------------------------
(***************************************************************************)
(* No phantom tap.  Every report of a player state that is on its way, and *)
(* every one the statuses not looked at may still make, has its own touch  *)
(* or failed command that no report was told of.                           *)
(***************************************************************************)
\* A player status that may be reported; s tells that we are in a settle window, which what is old
\* does not outlast.
Countable(k, s)    == k.of = "player" /\ (s => ~k.old)
UntoldIn(q, s, p)  == {i \in DOMAIN q : Countable(q[i], s) /\ q[i].is = p}
NoneIn(q, s)       == \A i \in DOMAIN q : ~Countable(q[i], s)
EndsWith(q, s, v)  ==
  \A i \in DOMAIN q : Countable(q[i], s) /\ (\A j \in DOMAIN q : i < j => ~Countable(q[j], s)) => q[i].is = v
OnWay(q, p)        == {i \in DOMAIN q : q[i].of = "player" /\ q[i].is = p}

\* A speaker in state now that no status tells of, by what the tracker takes for our intent.
Unseen(q, s, now, meant, op) == op \notin Ops /\ now # meant /\ NoneIn(q, s)
Reports(q, s, now, meant, op, p) ==
  Cardinality(UntoldIn(q, s, p)) + (IF Unseen(q, s, now, meant, op) /\ now = p THEN 1 ELSE 0)

CreditInv ==
  \A p \in Players :
    /\ credit[p] >= 0
    /\ kind = "speaker" =>
         credit[p] >= Cardinality(OnWay(remote, p))
                        + Reports(air, playerSettling, player, intent, serving.op, p)

\* The newest status tells what the speaker does, the newest of before a settle window apart.
NewestInv ==
  /\ EndsWith(air, TRUE, player)
  /\ ~playerSettling => EndsWith(air, FALSE, player)

\* Without a settle window, what a probe's replies brought is known.
SettledInv ==
  ~playerSettling =>
    drained.player = Nothing \/ (drained.player = intent /\ (player = intent \/ ~NoneIn(air, FALSE)))

\* A command we have under way is our intent, in its settle window.
ServingInv ==
  serving.op \in Ops => playerSettling /\ intent = IF serving.op = "PAUSE" THEN "paused" ELSE "playing"

TapInv == CreditInv /\ NewestInv /\ SettledInv /\ ServingInv

\* A set of numbers that fits into another one, n further up, has no more elements, and fewer if
\* one is not hit.
LEMMA ShiftFits ==
  ASSUME NEW n \in Nat, NEW A \in SUBSET Nat, NEW B, IsFiniteSet(B), \A i \in A : n + i \in B
  PROVE  /\ Cardinality(A) \in Nat /\ Cardinality(B) \in Nat /\ Cardinality(A) <= Cardinality(B)
         /\ (\E b \in B : \A i \in A : n + i # b) => Cardinality(A) + 1 <= Cardinality(B)
<1>. DEFINE f == [i \in A |-> n + i]
<1>1. IsFiniteSet(A) /\ Cardinality(A) <= Cardinality(B)
  <2>1. f \in Injection(A, B)
    BY DEF Injection, IsInjective
  <2>. HIDE DEF f
  <2>. QED BY <2>1, FS_Injection
<1>2. Cardinality(A) \in Nat /\ Cardinality(B) \in Nat
  BY <1>1, FS_CardinalityType
<1>3. ASSUME NEW b \in B, \A i \in A : n + i # b PROVE Cardinality(A) + 1 <= Cardinality(B)
  <2>1. IsFiniteSet(B \ {b}) /\ Cardinality(B \ {b}) = Cardinality(B) - 1
    BY FS_RemoveElement
  <2>2. f \in Injection(A, B \ {b})
    BY <1>3 DEF Injection, IsInjective
  <2>. HIDE DEF f
  <2>3. Cardinality(A) <= Cardinality(B \ {b})
    BY <2>1, <2>2, FS_Injection
  <2>. QED BY <1>2, <2>1, <2>3
<1>. QED BY <1>1, <1>2, <1>3

LEMMA CountFinite ==
  ASSUME NEW S, NEW q \in Seq(S), NEW s, NEW p
  PROVE  /\ IsFiniteSet(UntoldIn(q, s, p)) /\ Cardinality(UntoldIn(q, s, p)) \in Nat
         /\ IsFiniteSet(OnWay(q, p)) /\ Cardinality(OnWay(q, p)) \in Nat
         /\ UntoldIn(q, s, p) \in SUBSET Nat /\ OnWay(q, p) \in SUBSET Nat
<1>1. DOMAIN q = 1..Len(q) /\ Len(q) \in Nat
  OBVIOUS
<1>2. IsFiniteSet(DOMAIN q) /\ DOMAIN q \in SUBSET Nat
  BY <1>1, FS_Interval
<1>3. UntoldIn(q, s, p) \in SUBSET DOMAIN q /\ OnWay(q, p) \in SUBSET DOMAIN q
  BY DEF UntoldIn, OnWay
<1>4. IsFiniteSet(UntoldIn(q, s, p)) /\ IsFiniteSet(OnWay(q, p))
  BY <1>2, <1>3, FS_Subset
<1>. QED BY <1>2, <1>3, <1>4, FS_CardinalityType

\* If some status counts, the newest that does is one of what the speaker does.
LEMMA NewestCounts ==
  ASSUME NEW S, NEW q \in Seq(S), NEW s, NEW v, EndsWith(q, s, v), ~NoneIn(q, s)
  PROVE  UntoldIn(q, s, v) # {} /\ Cardinality(UntoldIn(q, s, v)) >= 1
<1>. DEFINE at == {i \in DOMAIN q : Countable(q[i], s)}
<1>1. DOMAIN q = 1..Len(q) /\ Len(q) \in Nat
  OBVIOUS
<1>2. at \in SUBSET (1..Len(q)) /\ at # {}
  BY <1>1 DEF NoneIn
<1>3. PICK i \in at : \A j \in at : j <= i
  <2>. HIDE DEF at
  <2>. QED BY <1>1, <1>2, Greatest
<1>4. \A j \in DOMAIN q : i < j => ~Countable(q[j], s)
  BY <1>1, <1>3
<1>5. i \in UntoldIn(q, s, v)
  BY <1>3, <1>4 DEF EndsWith, UntoldIn
<1>6. Cardinality(UntoldIn(q, s, v)) # 0
  BY <1>5, CountFinite, FS_EmptySet
<1>7. Cardinality(UntoldIn(q, s, v)) \in Nat
  BY CountFinite
<1>. QED BY <1>5, <1>6, <1>7

\* Statuses that are lost, or do not count any more, make no report.
LEMMA FewerReports ==
  ASSUME NEW S, NEW q \in Seq(S), NEW z \in Seq(S), NEW s, NEW t, NEW now, NEW meant, NEW op, NEW op2,
         NEW p, op \notin Ops \/ op2 \in Ops, EndsWith(q, s, now),
         Cardinality(UntoldIn(z, t, p)) <= Cardinality(UntoldIn(q, s, p))
  PROVE  Reports(z, t, now, meant, op2, p) <= Reports(q, s, now, meant, op, p)
<1>1. Cardinality(UntoldIn(z, t, p)) \in Nat /\ Cardinality(UntoldIn(q, s, p)) \in Nat
  BY CountFinite
<1>2. CASE ~(Unseen(z, t, now, meant, op2) /\ now = p)
  BY <1>1, <1>2 DEF Reports
<1>3. CASE Unseen(z, t, now, meant, op2) /\ now = p /\ NoneIn(q, s)
  <2>1. Unseen(q, s, now, meant, op)
    BY <1>3 DEF Unseen
  <2>. QED BY <1>1, <1>3, <2>1 DEF Reports
<1>4. CASE Unseen(z, t, now, meant, op2) /\ now = p /\ ~NoneIn(q, s)
  <2>1. UntoldIn(z, t, p) = {}
    BY <1>4 DEF Unseen, NoneIn, UntoldIn
  <2>2. Cardinality(UntoldIn(z, t, p)) = 0 /\ Cardinality(UntoldIn(q, s, p)) >= 1
    BY <1>4, <2>1, FS_EmptySet, NewestCounts
  <2>. QED BY <1>1, <1>4, <2>2 DEF Reports
<1>. QED BY <1>2, <1>3, <1>4

LEMMA ReportsNat ==
  ASSUME NEW S, NEW q \in Seq(S), NEW s, NEW now, NEW meant, NEW op, NEW p
  PROVE  Reports(q, s, now, meant, op, p) \in Nat
BY CountFinite DEF Reports

\* Of every status that counts at most one report, and of an unseen state one more.
LEMMA ReportsAre ==
  ASSUME NEW S, NEW q \in Seq(S), NEW s, NEW now, NEW meant, NEW op, NEW p
  PROVE  /\ Reports(q, s, now, meant, op, p) \in Nat
         /\ Cardinality(UntoldIn(q, s, p)) \in Nat
         /\ Reports(q, s, now, meant, op, p) >= Cardinality(UntoldIn(q, s, p))
         /\ ~Unseen(q, s, now, meant, op) \/ now # p
              => Reports(q, s, now, meant, op, p) = Cardinality(UntoldIn(q, s, p))
         /\ Unseen(q, s, now, meant, op) /\ now = p
              => Reports(q, s, now, meant, op, p) = Cardinality(UntoldIn(q, s, p)) + 1
<1>1. Cardinality(UntoldIn(q, s, p)) \in Nat
  BY CountFinite
<1>. QED BY <1>1 DEF Reports

LEMMA NoneUntold ==
  ASSUME NEW S, NEW q \in Seq(S), NEW s, NoneIn(q, s), NEW p
  PROVE  Cardinality(UntoldIn(q, s, p)) = 0
<1>1. UntoldIn(q, s, p) = {}
  BY DEF NoneIn, UntoldIn
<1>. QED BY <1>1, FS_EmptySet

\* What is left of the statuses without the first n.
LEMMA DropCounts ==
  ASSUME NEW S, NEW q \in Seq(S), NEW n \in 0..Len(q), NEW s, NEW v
  PROVE  LET z == SubSeq(q, n + 1, Len(q)) IN
           /\ z \in Seq(S)
           /\ Cardinality(UntoldIn(z, s, v)) <= Cardinality(UntoldIn(q, s, v))
           /\ (\E i \in 1..n : i \in UntoldIn(q, s, v))
                => Cardinality(UntoldIn(z, s, v)) + 1 <= Cardinality(UntoldIn(q, s, v))
           /\ EndsWith(q, s, v) => EndsWith(z, s, v)
           /\ NoneIn(z, s) => \A i \in DOMAIN q : Countable(q[i], s) => i <= n
<1>. DEFINE z == SubSeq(q, n + 1, Len(q))
<1>1. n + 1 \in 1..(Len(q) + 1) /\ Len(q) \in (n + 1 - 1)..Len(q) /\ Len(q) \in Nat /\ n \in Nat
      /\ DOMAIN q = 1..Len(q)
  OBVIOUS
<1>2. z \in Seq(S) /\ \A i \in DOMAIN z : n + i \in DOMAIN q /\ z[i] = q[n + i] /\ i \in Nat \ {0}
  <2>1. z \in Seq(S)
    BY <1>1, CutSeq
  <2>2. \A i \in DOMAIN z : i \in Nat \ {0}
    <3>. HIDE DEF z
    <3>. QED BY <2>1
  <2>. QED BY <2>1, <2>2, DropIs
<1>3. \A i \in DOMAIN q : i <= n \/ (i - n \in DOMAIN z /\ n + (i - n) = i)
  <2>1. Len(z) = Len(q) - n
    <3>1. \A i \in (n + 1)..Len(q) : q[i] \in S
      BY <1>1
    <3>2. Len(z) = IF n + 1 <= Len(q) THEN Len(q) - (n + 1) + 1 ELSE 0
      BY <1>1, <3>1, SubSeqProperties
    <3>3. n <= Len(q) /\ Len(q) \in Nat /\ n \in Nat
      BY <1>1
    <3>4. Len(q) - n = IF n + 1 <= Len(q) THEN Len(q) - (n + 1) + 1 ELSE 0
      BY <3>3
    <3>. HIDE DEF z
    <3>. QED BY <3>2, <3>4
  <2>2. DOMAIN z = 1..Len(z)
    BY <1>2
  <2>. HIDE DEF z
  <2>. QED BY <1>1, <2>1, <2>2
<1>. HIDE DEF z
<1>4. \A i \in UntoldIn(z, s, v) : n + i \in UntoldIn(q, s, v)
  BY <1>2 DEF UntoldIn
<1>5. /\ IsFiniteSet(UntoldIn(q, s, v)) /\ UntoldIn(z, s, v) \in SUBSET Nat
  BY <1>2, CountFinite
<1>6. Cardinality(UntoldIn(z, s, v)) <= Cardinality(UntoldIn(q, s, v))
  BY <1>1, <1>4, <1>5, ShiftFits
<1>7. ASSUME NEW i \in 1..n, i \in UntoldIn(q, s, v)
      PROVE  Cardinality(UntoldIn(z, s, v)) + 1 <= Cardinality(UntoldIn(q, s, v))
  <2>1. \A j \in UntoldIn(z, s, v) : n + j # i
    <3>1. \A j \in UntoldIn(z, s, v) : j \in Nat \ {0}
      BY <1>2 DEF UntoldIn
    <3>. QED BY <1>1, <1>7, <3>1
  <2>. QED BY <1>1, <1>4, <1>5, <1>7, <2>1, ShiftFits
<1>8. ASSUME EndsWith(q, s, v) PROVE EndsWith(z, s, v)
  <2>. SUFFICES ASSUME NEW i \in DOMAIN z, Countable(z[i], s), \A j \in DOMAIN z : i < j => ~Countable(z[j], s)
                PROVE  z[i].is = v
    BY DEF EndsWith
  <2>1. ASSUME NEW j \in DOMAIN q, n + i < j PROVE ~Countable(q[j], s)
    <3>1. j - n \in DOMAIN z /\ n + (j - n) = j /\ i < j - n
      BY <1>1, <1>2, <1>3, <2>1
    <3>. QED BY <1>2, <3>1
  <2>. QED BY <1>2, <1>8, <2>1 DEF EndsWith
<1>9. ASSUME NoneIn(z, s), NEW i \in DOMAIN q, Countable(q[i], s) PROVE i <= n
  BY <1>2, <1>3, <1>9 DEF NoneIn
<1>. QED BY <1>2, <1>6, <1>7, <1>8, <1>9 DEF z

\* One more report, and one less.
LEMMA OnWayPush ==
  ASSUME NEW S, NEW q \in Seq(S), NEW e \in S, NEW v
  PROVE  /\ Cardinality(OnWay(q \o <<e>>, v)) =
              Cardinality(OnWay(q, v)) + (IF e.of = "player" /\ e.is = v THEN 1 ELSE 0)
         /\ q \o <<e>> \in Seq(S)
<1>. DEFINE z == q \o <<e>>
            n == Len(q) + 1
<1>1. /\ z \in Seq(S) /\ DOMAIN z = DOMAIN q \cup {n} /\ z[n] = e /\ n \notin DOMAIN q
      /\ \A i \in DOMAIN q : z[i] = q[i]
  OBVIOUS
<1>. HIDE DEF z, n
<1>2. CASE e.of = "player" /\ e.is = v
  <2>1. OnWay(z, v) = OnWay(q, v) \cup {n} /\ n \notin OnWay(q, v)
    BY <1>1, <1>2 DEF OnWay
  <2>. QED BY <1>1, <1>2, <2>1, CountFinite, FS_AddElement DEF z
<1>3. CASE ~(e.of = "player" /\ e.is = v)
  <2>1. OnWay(z, v) = OnWay(q, v)
    BY <1>1, <1>3 DEF OnWay
  <2>2. Cardinality(OnWay(q, v)) \in Nat
    BY CountFinite
  <2>. QED BY <1>1, <1>3, <2>1, <2>2 DEF z
<1>. QED BY <1>2, <1>3

LEMMA OnWayTake ==
  ASSUME NEW S, NEW q \in Seq(S), q # <<>>, NEW v
  PROVE  /\ Cardinality(OnWay(Tail(q), v)) <= Cardinality(OnWay(q, v))
         /\ Head(q).of = "player" /\ Head(q).is = v
              => Cardinality(OnWay(Tail(q), v)) + 1 <= Cardinality(OnWay(q, v))
<1>. DEFINE z == Tail(q)
<1>1. /\ z \in Seq(S) /\ Head(q) = q[1] /\ 1 \in DOMAIN q
      /\ \A i \in DOMAIN z : i \in Nat \ {0} /\ 1 + i \in DOMAIN q /\ z[i] = q[1 + i]
  <2>1. Len(q) \in Nat \ {0} /\ Len(z) = Len(q) - 1 /\ DOMAIN q = 1..Len(q) /\ DOMAIN z = 1..Len(z)
    OBVIOUS
  <2>2. \A i \in 1..Len(z) : z[i] = q[i + 1]
    OBVIOUS
  <2>3. z \in Seq(S) /\ Head(q) = q[1]
    OBVIOUS
  <2>. HIDE DEF z
  <2>. QED BY <2>1, <2>2, <2>3
<1>. HIDE DEF z
<1>2. \A i \in OnWay(z, v) : 1 + i \in OnWay(q, v) /\ 1 + i # 1
  BY <1>1 DEF OnWay
<1>3. OnWay(z, v) \in SUBSET Nat /\ IsFiniteSet(OnWay(q, v))
  BY <1>1, CountFinite
<1>4. Head(q).of = "player" /\ Head(q).is = v => 1 \in OnWay(q, v)
  BY <1>1 DEF OnWay
<1>5. /\ Cardinality(OnWay(z, v)) <= Cardinality(OnWay(q, v))
      /\ (\E b \in OnWay(q, v) : \A i \in OnWay(z, v) : 1 + i # b)
           => Cardinality(OnWay(z, v)) + 1 <= Cardinality(OnWay(q, v))
  BY <1>2, <1>3, ShiftFits
<1>. QED BY <1>2, <1>4, <1>5 DEF z

\* A look reports a player state at most once.
LEMMA ObserveCounts ==
  ASSUME TypeOK, NEW p \in Players \cup {Nothing}, NEW v \in Volumes \cup {Nothing}, Observe(p, v), NEW x
  PROVE  Cardinality(OnWay(remote', x)) =
           Cardinality(OnWay(remote, x)) + (IF UserPlayer(p) /\ p = x THEN 1 ELSE 0)
<1>. DEFINE e == [of |-> "player", is |-> p]
            f == [of |-> "volume", is |-> v]
            q == remote \o Report("player", p, UserPlayer(p))
<1>1. remote \in Seq(Change) /\ remote' = q \o Report("volume", v, UserVolume(v))
  BY DEF Observe, TypeOK
<1>2. UserPlayer(p) => e \in Change /\ e.of = "player" /\ e.is = p
  BY DEF UserPlayer, Change, Players
<1>3. UserVolume(v) => f \in Change /\ f.of # "player"
  BY DEF UserVolume, Seen, Change
<1>4. Cardinality(OnWay(remote, x)) \in Nat
  BY <1>1, CountFinite
<1>5. /\ q \in Seq(Change)
      /\ Cardinality(OnWay(q, x)) = Cardinality(OnWay(remote, x)) + (IF UserPlayer(p) /\ p = x THEN 1 ELSE 0)
  <2>1. CASE UserPlayer(p)
    <3>1. q = remote \o <<e>>
      BY <2>1 DEF Report
    <3>2. e \in Change /\ e.of = "player" /\ e.is = p
      BY <1>2, <2>1
    <3>. HIDE DEF e, q
    <3>. QED BY <1>1, <2>1, <3>1, <3>2, OnWayPush
  <2>2. CASE ~UserPlayer(p)
    <3>1. q = remote
      BY <1>1, <2>2 DEF Report
    <3>. HIDE DEF q
    <3>. QED BY <1>1, <1>4, <2>2, <3>1
  <2>. QED BY <2>1, <2>2
<1>6. Cardinality(OnWay(remote', x)) = Cardinality(OnWay(q, x))
  <2>1. CASE UserVolume(v)
    <3>1. remote' = q \o <<f>>
      BY <1>1, <2>1 DEF Report
    <3>2. f \in Change /\ f.of # "player"
      BY <1>3, <2>1
    <3>. HIDE DEF f, q
    <3>3. Cardinality(OnWay(q, x)) \in Nat
      BY <1>5, CountFinite
    <3>. QED BY <1>5, <3>1, <3>2, <3>3, OnWayPush
  <2>2. CASE ~UserVolume(v)
    <3>1. Report("volume", v, UserVolume(v)) = <<>>
      BY <2>2 DEF Report
    <3>. HIDE DEF q
    <3>2. remote' = q
      BY <1>1, <1>5, <3>1
    <3>. QED BY <3>2
  <2>. QED BY <2>1, <2>2
<1>. QED BY <1>5, <1>6

\* What of the players arrived is the newest of the first n statuses, or what was drained before.
LEMMA ArrivedNewest ==
  ASSUME TypeOK, NEW n \in 0..Len(air)
  PROVE  \/ Arrived(n).player = drained.player /\ \A j \in 1..n : air[j].of # "player"
         \/ \E i \in 1..n : /\ air[i].of = "player" /\ air[i].is = Arrived(n).player
                            /\ \A j \in 1..n : i < j => air[j].of # "player"
<1>. DEFINE q == SubSeq(air, 1, n)
            at == {i \in DOMAIN q : q[i].of = "player"}
<1>1. air \in Seq(Status) /\ Len(air) \in Nat /\ n \in Nat
  BY DEF TypeOK, DeviceType
<1>2. DOMAIN q = 1..n /\ \A i \in 1..n : q[i] = air[i]
  <2>1. \A i \in 1..n : air[i] \in Status
    BY <1>1
  <2>2. Len(q) = (IF 1 <= n THEN n - 1 + 1 ELSE 0) /\ q \in Seq(Status)
    BY <2>1, <1>1, SubSeqProperties
  <2>3. Len(q) = n
    <3>. HIDE DEF q
    <3>. QED BY <1>1, <2>2
  <2>4. DOMAIN q = 1..n
    <3>. HIDE DEF q
    <3>. QED BY <2>2, <2>3
  <2>5. \A i \in 1..(n - 1 + 1) : q[i] = air[1 + i - 1]
    BY <2>1, <1>1, SubSeqProperties
  <2>. HIDE DEF q
  <2>6. \A i \in 1..n : i \in 1..(n - 1 + 1) /\ 1 + i - 1 = i
    BY <1>1
  <2>. QED BY <2>4, <2>5, <2>6
<1>3. Arrived(n).player = Newest(q, "player", drained.player)
  BY DEF Arrived
<1>. HIDE DEF q
<1>4. CASE at = {}
  <2>1. Arrived(n).player = drained.player
    BY <1>3, <1>4 DEF Newest
  <2>. QED BY <1>2, <1>4, <2>1
<1>5. CASE at # {}
  <2>1. at \in SUBSET (1..n)
    BY <1>2
  <2>2. \E i \in at : \A j \in at : j <= i
    <3>. HIDE DEF at
    <3>. QED BY <1>1, <1>5, <2>1, Greatest
  <2>. DEFINE i == CHOOSE i \in at : \A j \in at : j <= i
  <2>3. i \in at /\ \A j \in at : j <= i
    BY <2>2
  <2>4. Newest(q, "player", drained.player) = q[i].is
    BY <1>5 DEF Newest
  <2>. HIDE DEF i
  <2>5. i \in 1..n /\ air[i].of = "player" /\ air[i].is = Arrived(n).player
    BY <1>2, <1>3, <2>3, <2>4
  <2>6. \A j \in 1..n : i < j => air[j].of # "player"
    BY <1>1, <1>2, <2>3, <2>5
  <2>. QED BY <2>5, <2>6
<1>. QED BY <1>4, <1>5

LEMMA TapInit == Init => TapInv
<1>. SUFFICES ASSUME Init PROVE TapInv
  OBVIOUS
<1>1. /\ credit = [p \in {"playing", "paused"} |-> 0]
      /\ air = <<>> /\ remote = <<>> /\ serving = NoCmd /\ playerSettling = FALSE
      /\ intent = "playing" /\ player = "playing" /\ drained = Nowhere
  BY DEF Init
<1>2. serving.op \notin Ops /\ drained.player = Nothing
  BY <1>1 DEF NoCmd, Ops, Nowhere
<1>3. DOMAIN air = {} /\ DOMAIN remote = {}
  BY <1>1
<1>4. \A s, p : UntoldIn(air, s, p) = {} /\ OnWay(remote, p) = {}
  BY <1>3 DEF UntoldIn, OnWay
<1>5. CreditInv
  <2>1. \A p : Reports(air, playerSettling, player, intent, serving.op, p) = 0
    BY <1>1, <1>4, FS_EmptySet DEF Reports, Unseen
  <2>2. \A p \in Players : credit[p] = 0
    BY <1>1 DEF Players
  <2>. QED BY <1>4, <2>1, <2>2, FS_EmptySet DEF CreditInv
<1>6. NewestInv
  BY <1>3 DEF NewestInv, EndsWith
<1>. QED BY <1>2, <1>5, <1>6 DEF TapInv, SettledInv, ServingInv

LEMMA NowEnds ==
  ASSUME TypeOK, NewestInv
  PROVE  EndsWith(air, playerSettling, player)
<1>1. CASE playerSettling = TRUE
  BY <1>1 DEF NewestInv
<1>2. CASE playerSettling = FALSE
  BY <1>2 DEF NewestInv
<1>. QED BY <1>1, <1>2 DEF TypeOK, TrackerType

\* A step that touches no player state and only loses statuses.
LEMMA FewerCredit ==
  ASSUME TypeOK, CreditInv, NewestInv, UNCHANGED <<kind, remote, credit, player, intent>>,
         air' \in Seq(Status), serving.op \notin Ops \/ serving'.op \in Ops,
         \A p : Cardinality(UntoldIn(air', playerSettling', p)) <= Cardinality(UntoldIn(air, playerSettling, p))
  PROVE  CreditInv'
<1>. DEFINE before(p) == Reports(air, playerSettling, player, intent, serving.op, p)
            after(p)  == Reports(air', playerSettling', player, intent, serving'.op, p)
            way(p)    == Cardinality(OnWay(remote, p))
<1>1. air \in Seq(Status) /\ remote \in Seq(Change) /\ credit \in [Players -> Int]
  BY DEF TypeOK, DeviceType, HistoryType
<1>2. EndsWith(air, playerSettling, player)
  BY NowEnds
<1>3. ASSUME NEW p \in Players
      PROVE  after(p) <= before(p) /\ after(p) \in Nat /\ before(p) \in Nat /\ way(p) \in Nat
  BY <1>1, <1>2, FewerReports, ReportsNat, CountFinite
<1>4. \A p \in Players : credit[p] >= 0 /\ (kind = "speaker" => credit[p] >= way(p) + before(p))
  BY DEF CreditInv
<1>5. \A p \in Players : credit'[p] >= 0 /\ (kind' = "speaker" => credit'[p] >= way(p) + after(p))
  <2>. HIDE DEF way, before, after
  <2>. QED BY <1>1, <1>3, <1>4
<1>. QED BY <1>5 DEF CreditInv

LEMMA SameCredit ==
  ASSUME TypeOK, CreditInv, UNCHANGED <<kind, remote, credit, player, intent, air, playerSettling>>,
         serving'.op = serving.op
  PROVE  CreditInv'
BY DEF CreditInv

LEMMA ServeTaps ==
  ASSUME TypeOK, TapInv, Serve
  PROVE  TapInv'
<1>0. UNCHANGED <<kind, remote, credit, player, air, drained>> /\ serving = NoCmd /\ queue # <<>>
  BY DEF Serve, device, history
<1>1. serving.op \notin Ops
  BY <1>0 DEF NoCmd, Ops
<1>2. air \in Seq(Status) /\ remote \in Seq(Change) /\ credit \in [Players -> Int]
  BY DEF TypeOK, DeviceType, HistoryType
<1>3. CASE Head(queue).op = "SET"
  <2>1. UNCHANGED <<intent, playerSettling>> /\ serving'.op \notin Ops
    BY <1>3 DEF Serve, Ops
  <2>2. CreditInv'
    BY <1>0, <1>1, <2>1 DEF TapInv, CreditInv, Reports, Unseen
  <2>. QED BY <1>0, <2>1, <2>2 DEF TapInv, NewestInv, SettledInv, ServingInv
<1>4. CASE Head(queue).op \in Ops
  <2>1. /\ serving' = Head(queue) /\ serving'.op \in Ops
        /\ intent' = IF serving'.op = "PAUSE" THEN "paused" ELSE "playing"
        /\ playerSettling' = TRUE
    BY <1>4 DEF Serve, Ops
  <2>2. ASSUME NEW p \in Players
        PROVE  /\ Reports(air, TRUE, player, intent', serving'.op, p) <=
                    Reports(air, playerSettling, player, intent, serving.op, p)
               /\ Reports(air, TRUE, player, intent', serving'.op, p) \in Nat
               /\ Reports(air, playerSettling, player, intent, serving.op, p) \in Nat
               /\ Cardinality(OnWay(remote, p)) \in Nat
    <3>1. UntoldIn(air, TRUE, p) \in SUBSET UntoldIn(air, playerSettling, p)
      BY DEF UntoldIn, Countable
    <3>2. Cardinality(UntoldIn(air, TRUE, p)) <= Cardinality(UntoldIn(air, playerSettling, p))
      BY <1>2, <3>1, CountFinite, FS_Subset
    <3>3. ~Unseen(air, TRUE, player, intent', serving'.op)
      BY <2>1, Zenon DEF Unseen
    <3>. DEFINE after  == Reports(air, TRUE, player, intent', serving'.op, p)
                before == Reports(air, playerSettling, player, intent, serving.op, p)
                now    == Cardinality(UntoldIn(air, TRUE, p))
                then   == Cardinality(UntoldIn(air, playerSettling, p))
    <3>4. after \in Nat /\ now \in Nat /\ after = now
      BY <1>2, <3>3, ReportsAre
    <3>5. before \in Nat /\ then \in Nat /\ before >= then
      BY <1>2, ReportsAre
    <3>6. now <= then /\ Cardinality(OnWay(remote, p)) \in Nat
      BY <1>2, <3>2, CountFinite
    <3>7. after <= before
      <4>. HIDE DEF after, before, now, then
      <4>. QED BY <3>4, <3>5, <3>6
    <3>. QED BY <3>4, <3>5, <3>6, <3>7
  <2>3. CreditInv'
    <3>. DEFINE before(p) == Reports(air, playerSettling, player, intent, serving.op, p)
                after(p)  == Reports(air, TRUE, player, intent', serving'.op, p)
                way(p)    == Cardinality(OnWay(remote, p))
    <3>1. \A p \in Players : after(p) <= before(p) /\ after(p) \in Nat /\ before(p) \in Nat /\ way(p) \in Nat
      BY <2>2
    <3>2. \A p \in Players : credit[p] >= 0 /\ (kind = "speaker" => credit[p] >= way(p) + before(p))
      BY DEF TapInv, CreditInv
    <3>3. \A p \in Players : credit'[p] >= 0 /\ (kind' = "speaker" => credit'[p] >= way(p) + after(p))
      <4>. HIDE DEF way, before, after
      <4>. QED BY <1>0, <1>2, <3>1, <3>2
    <3>. QED BY <1>0, <2>1, <3>3 DEF CreditInv
  <2>4. NewestInv' /\ SettledInv' /\ ServingInv'
    BY <1>0, <2>1 DEF TapInv, NewestInv, SettledInv, ServingInv
  <2>. QED BY <2>3, <2>4 DEF TapInv
<1>. QED BY <1>3, <1>4 DEF Serve

\* The statuses after the reply to a SET_VOLUME: as before, but old.
LEMMA AgedCounts ==
  ASSUME TypeOK, NEW v \in Volumes
  PROVE  LET z == Aged(v, "volume") IN
           /\ z \in Seq(Status) /\ NoneIn(z, TRUE)
           /\ \A p : UntoldIn(z, FALSE, p) = UntoldIn(air, FALSE, p)
           /\ \A p : EndsWith(air, FALSE, p) => EndsWith(z, FALSE, p)
           /\ NoneIn(z, FALSE) => NoneIn(air, FALSE)
<1>. DEFINE z == Aged(v, "volume")
            n == Len(air) + 1
<1>1. air \in Seq(Status) /\ z \in Seq(Status) /\ Len(air) \in Nat /\ DOMAIN air = 1..Len(air)
  BY AgedType DEF TypeOK, DeviceType
<1>2. \A i \in DOMAIN air : [air[i] EXCEPT !.old = TRUE].of = air[i].of /\ [air[i] EXCEPT !.old = TRUE].is = air[i].is
                            /\ [air[i] EXCEPT !.old = TRUE].old = TRUE
  <2>1. \A s \in Status : /\ [s EXCEPT !.old = TRUE].of = s.of /\ [s EXCEPT !.old = TRUE].is = s.is
                          /\ [s EXCEPT !.old = TRUE].old = TRUE
    BY DEF Status
  <2>. QED BY <1>1, <2>1
<1>3. /\ DOMAIN z = DOMAIN air \cup {n} /\ n \notin DOMAIN air
      /\ z[n] = [of |-> "volume", is |-> v, old |-> TRUE]
      /\ \A i \in DOMAIN air : z[i] = [air[i] EXCEPT !.old = TRUE]
  <2>1. DOMAIN z = 1..n /\ 1..n = DOMAIN air \cup {n} /\ n \notin DOMAIN air
    BY <1>1 DEF Aged
  <2>2. ~(n <= Len(air)) /\ n \in 1..n /\ \A i \in DOMAIN air : i \in 1..n /\ i <= Len(air)
    BY <1>1
  <2>3. z[n] = [of |-> "volume", is |-> v, old |-> TRUE]
    BY <2>2 DEF Aged
  <2>4. \A i \in DOMAIN air : z[i] = [air[i] EXCEPT !.old = TRUE]
    BY <2>2 DEF Aged
  <2>. QED BY <2>1, <2>3, <2>4
<1>4. z[n].of = "volume" /\ z[n].old = TRUE
  BY <1>3
<1>5. \A i \in DOMAIN air : z[i].of = air[i].of /\ z[i].is = air[i].is /\ z[i].old = TRUE
  BY <1>2, <1>3
<1>. HIDE DEF z, n
<1>6. NoneIn(z, TRUE)
  BY <1>3, <1>4, <1>5 DEF NoneIn, Countable
<1>7. \A i \in DOMAIN z : Countable(z[i], FALSE) => i \in DOMAIN air /\ Countable(air[i], FALSE) /\ z[i].is = air[i].is
  BY <1>3, <1>4, <1>5 DEF Countable
<1>8. \A i \in DOMAIN air : i \in DOMAIN z /\ z[i].is = air[i].is /\ (Countable(air[i], FALSE) => Countable(z[i], FALSE))
  BY <1>3, <1>5 DEF Countable
<1>9. \A p : UntoldIn(z, FALSE, p) = UntoldIn(air, FALSE, p)
  BY <1>7, <1>8 DEF UntoldIn
<1>10. ASSUME NEW p, EndsWith(air, FALSE, p) PROVE EndsWith(z, FALSE, p)
  BY <1>7, <1>8, <1>10 DEF EndsWith
<1>11. NoneIn(z, FALSE) => NoneIn(air, FALSE)
  BY <1>8 DEF NoneIn
<1>. QED BY <1>1, <1>6, <1>9, <1>10, <1>11 DEF z

\* The connection is replaced, and what it still carried is lost.
LEMMA LostTaps ==
  ASSUME TypeOK, TapInv, UNCHANGED <<kind, remote, credit, player, intent, playerSettling>>,
         air' = <<>>, drained' = Nowhere, serving.op \notin Ops, serving'.op \notin Ops
  PROVE  TapInv'
<1>1. air' \in Seq(Status) /\ NoneIn(air', playerSettling') /\ drained'.player = Nothing
  BY DEF NoneIn, Nowhere
<1>2. ASSUME NEW p
      PROVE  Cardinality(UntoldIn(air', playerSettling', p)) <= Cardinality(UntoldIn(air, playerSettling, p))
  <2>1. Cardinality(UntoldIn(air', playerSettling', p)) = 0
    BY <1>1, NoneUntold
  <2>2. air \in Seq(Status)
    BY DEF TypeOK, DeviceType
  <2>3. Cardinality(UntoldIn(air, playerSettling, p)) \in Nat
    BY <2>2, CountFinite
  <2>. QED BY <2>1, <2>3
<1>3. CreditInv'
  BY <1>1, <1>2, FewerCredit DEF TapInv
<1>4. NewestInv' /\ SettledInv' /\ ServingInv'
  BY <1>1 DEF NewestInv, EndsWith, SettledInv, ServingInv
<1>. QED BY <1>3, <1>4 DEF TapInv

LEMMA SetDoneTaps ==
  ASSUME TypeOK, TapInv, SetVolumeDone
  PROVE  TapInv'
<1>1. /\ UNCHANGED <<kind, remote, credit, player, intent, playerSettling, drained>>
      /\ serving.op \notin Ops /\ serving' = NoCmd /\ volume' \in Volumes
      /\ air' = Aged(volume', "volume")
  <2>1. serving.op = "SET" /\ serving' = NoCmd
    BY DEF SetVolumeDone, Reply
  <2>2. serving.level \in Levels /\ volume \in Volumes
    BY <2>1 DEF TypeOK, TransitType, DeviceType, Cmd, NoCmd, Ops
  <2>3. volume' \in Volumes
    BY <2>2 DEF SetVolumeDone, Volumes
  <2>. QED BY <2>1, <2>3 DEF SetVolumeDone, Ops, history
<1>2. serving'.op \notin Ops
  BY <1>1 DEF NoCmd, Ops
<1>3. PICK v \in Volumes : v = volume'
  BY <1>1
<1>. DEFINE z == Aged(v, "volume")
<1>4. /\ z \in Seq(Status) /\ NoneIn(z, TRUE)
      /\ \A p : UntoldIn(z, FALSE, p) = UntoldIn(air, FALSE, p)
      /\ \A p : EndsWith(air, FALSE, p) => EndsWith(z, FALSE, p)
      /\ NoneIn(z, FALSE) => NoneIn(air, FALSE)
  BY AgedCounts
<1>5. air' = z
  BY <1>1, <1>3
<1>. HIDE DEF z
<1>6. air \in Seq(Status) /\ playerSettling \in BOOLEAN
  BY DEF TypeOK, DeviceType, TrackerType
<1>7. ASSUME NEW p
      PROVE  Cardinality(UntoldIn(air', playerSettling', p)) <= Cardinality(UntoldIn(air, playerSettling, p))
  <2>1. CASE playerSettling = TRUE
    <3>1. Cardinality(UntoldIn(air', playerSettling', p)) = 0
      BY <1>1, <1>4, <1>5, <2>1, NoneUntold
    <3>2. Cardinality(UntoldIn(air, playerSettling, p)) \in Nat
      BY <1>6, CountFinite
    <3>. QED BY <3>1, <3>2
  <2>2. CASE playerSettling = FALSE
    <3>1. UntoldIn(air', playerSettling', p) = UntoldIn(air, playerSettling, p)
      BY <1>1, <1>4, <1>5, <2>2
    <3>2. Cardinality(UntoldIn(air, playerSettling, p)) \in Nat
      BY <1>6, CountFinite
    <3>. QED BY <3>1, <3>2
  <2>. QED BY <1>6, <2>1, <2>2
<1>8. CreditInv'
  BY <1>1, <1>2, <1>4, <1>5, <1>7, FewerCredit DEF TapInv
<1>9. NewestInv'
  BY <1>1, <1>4, <1>5 DEF TapInv, NewestInv, EndsWith, NoneIn
<1>10. SettledInv' /\ ServingInv'
  BY <1>1, <1>2, <1>4, <1>5 DEF TapInv, SettledInv, ServingInv
<1>. QED BY <1>8, <1>9, <1>10 DEF TapInv

\* After a pause or play command nothing the speaker said before counts.
LEMMA SilentAfter ==
  ASSUME TypeOK, TapInv, NEW z \in Seq(Status), NoneIn(z, TRUE), serving.op \in Ops,
         UNCHANGED <<kind, remote, intent, playerSettling>>, air' = z, serving'.op \notin Ops,
         player' \in Players, credit' \in [Players -> Int],
         \A p \in Players : credit'[p] >= credit[p] + (IF player' = p /\ p # intent THEN 1 ELSE 0)
  PROVE  TapInv'
<1>1. /\ playerSettling = TRUE /\ playerSettling' = TRUE
      /\ air \in Seq(Status) /\ remote \in Seq(Change) /\ credit \in [Players -> Int]
  BY DEF TapInv, ServingInv, TypeOK, DeviceType, HistoryType, TrackerType
<1>n. NoneIn(z, playerSettling')
  BY <1>1
<1>2. ASSUME NEW p \in Players
      PROVE  credit'[p] >= 0 /\ (kind' = "speaker" => credit'[p] >= Cardinality(OnWay(remote', p))
                                       + Reports(air', playerSettling', player', intent', serving'.op, p))
  <2>. DEFINE before == Reports(air, playerSettling, player, intent, serving.op, p)
              after  == Reports(z, playerSettling', player', intent, serving'.op, p)
              way    == Cardinality(OnWay(remote, p))
              c      == credit[p]
              d      == credit'[p]
              more   == IF player' = p /\ p # intent THEN 1 ELSE 0
  <2>1. before \in Nat /\ way \in Nat /\ c \in Int /\ d \in Int
    BY <1>1, ReportsAre, CountFinite
  <2>2. c >= 0 /\ (kind = "speaker" => c >= way + before)
    BY DEF TapInv, CreditInv
  <2>3. after \in Nat /\ after <= more
    <3>1. Cardinality(UntoldIn(z, playerSettling', p)) = 0
      BY <1>n, NoneUntold
    <3>2. CASE ~Unseen(z, playerSettling', player', intent, serving'.op) \/ player' # p
      <4>1. after = Cardinality(UntoldIn(z, playerSettling', p))
        BY <3>2, ReportsAre
      <4>2. after = 0 /\ more \in {0, 1}
        BY <3>1, <4>1
      <4>. HIDE DEF after, more
      <4>. QED BY <4>2
    <3>3. CASE Unseen(z, playerSettling', player', intent, serving'.op) /\ player' = p
      <4>1. after = Cardinality(UntoldIn(z, playerSettling', p)) + 1
        BY <3>3, ReportsAre
      <4>2. player' = p /\ p # intent
        BY <3>3 DEF Unseen
      <4>3. after = 1
        BY <3>1, <4>1
      <4>4. more = 1
        BY <4>2
      <4>. HIDE DEF after, more
      <4>. QED BY <4>3, <4>4
    <3>. QED BY <3>2, <3>3
  <2>4. d >= c + more /\ more \in {0, 1}
    OBVIOUS
  <2>5. d >= 0 /\ (kind = "speaker" => d >= way + after)
    <3>. HIDE DEF before, after, way, c, d, more
    <3>. QED BY <2>1, <2>2, <2>3, <2>4
  <2>. QED BY <1>1, <2>5
<1>3. CreditInv'
  BY <1>2 DEF CreditInv
<1>4. NewestInv' /\ SettledInv' /\ ServingInv'
  BY <1>1 DEF NewestInv, EndsWith, NoneIn, SettledInv, ServingInv
<1>. QED BY <1>3, <1>4 DEF TapInv

LEMMA TransportTaps ==
  ASSUME TypeOK, TapInv, TransportDone
  PROVE  TapInv'
<1>1. /\ UNCHANGED <<kind, remote, intent, playerSettling, credit>>
      /\ serving.op \in Ops /\ serving' = NoCmd
      /\ player' = IF serving.op = "PAUSE" THEN "paused" ELSE "playing"
      /\ air' = Aged(player', "player")
  BY DEF TransportDone, Reply, tracker, history
<1>2. player' = intent /\ player' \in Players /\ serving'.op \notin Ops
  BY <1>1 DEF TapInv, ServingInv, NoCmd, Ops, Players
<1>3. air' \in Seq(Status)
  BY <1>1, <1>2, AgedType
<1>4. NoneIn(air', TRUE)
  <2>1. \A i \in DOMAIN air' : i \in 1..(Len(air) + 1)
    BY <1>1 DEF Aged
  <2>2. \A i \in DOMAIN air' : air'[i].old = TRUE
    <3>. SUFFICES ASSUME NEW i \in DOMAIN air' PROVE air'[i].old = TRUE
      OBVIOUS
    <3>1. CASE i <= Len(air)
      <4>1. air'[i] = [air[i] EXCEPT !.old = TRUE] /\ air[i] \in Status
        BY <1>1, <2>1, <3>1 DEF Aged, TypeOK, DeviceType
      <4>. QED BY <4>1 DEF Status
    <3>2. CASE ~(i <= Len(air))
      BY <1>1, <2>1, <3>2 DEF Aged
    <3>. QED BY <3>1, <3>2
  <2>. QED BY <2>2 DEF NoneIn, Countable
<1>5. credit' \in [Players -> Int] /\ \A p \in Players : credit'[p] >= credit[p]
  BY <1>1 DEF TypeOK, HistoryType
<1>6. \A p \in Players : credit'[p] >= credit[p] + (IF player' = p /\ p # intent THEN 1 ELSE 0)
  BY <1>2, <1>5 DEF TypeOK, HistoryType
<1>7. PICK z \in Seq(Status) : air' = z /\ NoneIn(z, TRUE)
  BY <1>3, <1>4
<1>. QED BY <1>1, <1>2, <1>5, <1>6, <1>7, SilentAfter

\* A failed command: the speaker may not be what we meant it to be, and is owed a report of that.
LEMMA FailTaps ==
  ASSUME TypeOK, TapInv, CommandFails
  PROVE  TapInv'
<1>1. /\ UNCHANGED <<kind, remote, intent, playerSettling>>
      /\ serving # NoCmd /\ serving' = NoCmd
      /\ player' = player \/ (serving.op \in Ops /\ player' \in Players)
      /\ credit' = [p \in DOMAIN credit |->
                      IF p # intent /\ serving.op \in Ops THEN credit[p] + 1 ELSE credit[p]]
      /\ \/ air' = <<>> /\ drained' = Nowhere
         \/ serving.op \in Ops /\ air' = [i \in DOMAIN air |-> [air[i] EXCEPT !.old = TRUE]]
  BY DEF CommandFails, Reply, tracker, Players
<1>2. /\ air \in Seq(Status) /\ credit \in [Players -> Int] /\ player \in Players
      /\ serving'.op \notin Ops /\ <<>> \in Seq(Status)
  BY <1>1 DEF TypeOK, DeviceType, HistoryType, NoCmd, Ops
<1>3. CASE serving.op \in Ops
  <2>1. air' \in Seq(Status) /\ NoneIn(air', TRUE)
    <3>1. CASE air' = <<>>
      BY <3>1 DEF NoneIn
    <3>2. CASE air' = [i \in DOMAIN air |-> [air[i] EXCEPT !.old = TRUE]]
      <4>1. \A s \in Status : [s EXCEPT !.old = TRUE] \in Status /\ [s EXCEPT !.old = TRUE].old = TRUE
        BY DEF Status
      <4>2. DOMAIN air = 1..Len(air) /\ Len(air) \in Nat
        BY <1>2
      <4>p. \A i \in DOMAIN air : air[i] \in Status
        BY <1>2
      <4>q. DOMAIN air' = DOMAIN air /\ \A i \in DOMAIN air : air'[i] = [air[i] EXCEPT !.old = TRUE]
        BY <3>2
      <4>3. \A i \in DOMAIN air' : air'[i] \in Status /\ air'[i].old = TRUE
        <5>1. TAKE i \in DOMAIN air'
        <5>2. i \in DOMAIN air /\ air'[i] = [air[i] EXCEPT !.old = TRUE]
          BY <4>q
        <5>3. PICK s \in Status : s = air[i]
          BY <4>p, <5>2
        <5>4. [s EXCEPT !.old = TRUE] \in Status /\ [s EXCEPT !.old = TRUE].old = TRUE
          BY <4>1
        <5>. QED BY <5>2, <5>3, <5>4
      <4>4. air' \in Seq(Status)
        BY <3>2, <4>2, <4>3, IsASeq
      <4>. QED BY <4>3, <4>4 DEF NoneIn, Countable
    <3>. QED BY <1>1, <3>1, <3>2
  <2>2. credit' \in [Players -> Int]
    BY <1>1, <1>2
  <2>3. \A p \in Players : credit'[p] >= credit[p] + (IF player' = p /\ p # intent THEN 1 ELSE 0)
    BY <1>1, <1>2, <1>3
  <2>4. PICK z \in Seq(Status) : air' = z /\ NoneIn(z, TRUE)
    BY <2>1
  <2>. QED BY <1>1, <1>2, <1>3, <2>2, <2>3, <2>4, SilentAfter
<1>4. CASE serving.op \notin Ops
  <2>1. UNCHANGED <<player, credit>> /\ air' = <<>> /\ drained' = Nowhere
    BY <1>1, <1>2, <1>4
  <2>. QED BY <1>1, <1>2, <1>4, <2>1, LostTaps DEF TapInv
<1>. QED BY <1>3, <1>4

LEMMA DrainTaps ==
  ASSUME TypeOK, TapInv, Drain
  PROVE  TapInv'
<1>0. /\ UNCHANGED <<kind, credit, player, playerSettling, serving>> /\ serving = NoCmd /\ drained' = Nowhere
  BY DEF Drain, Idle, Observe, transit, history
<1>1. PICK n \in 0..Len(air) : /\ Observe(Arrived(n).player, Arrived(n).volume)
                               /\ air' = SubSeq(air, n + 1, Len(air))
  BY DEF Drain
<1>2. /\ air \in Seq(Status) /\ remote \in Seq(Change) /\ credit \in [Players -> Int]
      /\ playerSettling \in BOOLEAN /\ serving.op \notin Ops /\ drained'.player = Nothing
  BY <1>0 DEF TypeOK, DeviceType, HistoryType, TrackerType, NoCmd, Ops, Nowhere
<1>. DEFINE p == Arrived(n).player
            v == Arrived(n).volume
<1>3. p \in Players \cup {Nothing} /\ v \in Volumes \cup {Nothing}
  BY LookedAt
<1>4. \A x : Cardinality(OnWay(remote', x)) =
               Cardinality(OnWay(remote, x)) + (IF UserPlayer(p) /\ p = x THEN 1 ELSE 0)
  BY <1>1, <1>3, ObserveCounts
<1>5. intent' = IF UserPlayer(p) THEN p ELSE intent
  BY <1>1 DEF Observe
<1>6. /\ air' \in Seq(Status)
      /\ \A s, x : /\ Cardinality(UntoldIn(air', s, x)) <= Cardinality(UntoldIn(air, s, x))
                   /\ (\E i \in 1..n : i \in UntoldIn(air, s, x))
                        => Cardinality(UntoldIn(air', s, x)) + 1 <= Cardinality(UntoldIn(air, s, x))
                   /\ EndsWith(air, s, x) => EndsWith(air', s, x)
                   /\ NoneIn(air', s) => \A i \in DOMAIN air : Countable(air[i], s) => i <= n
  BY <1>1, <1>2, DropCounts
<1>7. NewestInv' /\ SettledInv' /\ ServingInv'
  BY <1>0, <1>2, <1>6 DEF TapInv, NewestInv, SettledInv, ServingInv
<1>a. EndsWith(air, playerSettling, player)
  BY NowEnds DEF TapInv
<1>8. CASE ~UserPlayer(p)
  <2>1. intent' = intent
    BY <1>5, <1>8
  <2>2. ASSUME NEW x \in Players
        PROVE  credit'[x] >= 0 /\ (kind' = "speaker" => credit'[x] >= Cardinality(OnWay(remote', x))
                                         + Reports(air', playerSettling', player', intent', serving'.op, x))
    <3>. DEFINE before == Reports(air, playerSettling, player, intent, serving.op, x)
                after  == Reports(air', playerSettling, player, intent, serving.op, x)
                way    == Cardinality(OnWay(remote, x))
                c      == credit[x]
    <3>1. before \in Nat /\ after \in Nat /\ way \in Nat /\ c \in Int
      BY <1>2, <1>6, ReportsAre, CountFinite
    <3>2. after <= before
      BY <1>2, <1>6, <1>a, FewerReports
    <3>3. c >= 0 /\ (kind = "speaker" => c >= way + before)
      BY DEF TapInv, CreditInv
    <3>4. Cardinality(OnWay(remote', x)) = way
      <4>1. Cardinality(OnWay(remote', x)) = way + 0
        BY <1>4, <1>8
      <4>. HIDE DEF way
      <4>. QED BY <3>1, <4>1
    <3>5. c >= 0 /\ (kind = "speaker" => c >= way + after)
      <4>. HIDE DEF before, after, way, c
      <4>. QED BY <3>1, <3>2, <3>3
    <3>. QED BY <1>0, <2>1, <3>4, <3>5
  <2>. QED BY <1>7, <2>2 DEF TapInv, CreditInv
\* The report made was one that a status on its way may make.
<1>9. CASE UserPlayer(p)
  <2>1. p \in Players /\ playerSettling = FALSE /\ p # intent /\ intent' = p
    BY <1>2, <1>3, <1>5, <1>9 DEF UserPlayer
  <2>2. PICK i \in 1..n : air[i].of = "player" /\ air[i].is = p /\ \A j \in 1..n : i < j => air[j].of # "player"
    <3>1. p # drained.player
      <4>1. drained.player = Nothing \/ drained.player = intent
        BY <2>1 DEF TapInv, SettledInv
      <4>2. p # Nothing /\ p # intent
        BY <1>9, <2>1 DEF UserPlayer
      <4>. HIDE DEF p
      <4>. QED BY <4>1, <4>2
    <3>. HIDE DEF p
    <3>. QED BY <3>1, ArrivedNewest DEF p
  <2>3. i \in DOMAIN air /\ Countable(air[i], playerSettling)
    BY <1>2, <2>1, <2>2 DEF Countable
  <2>4. i \in UntoldIn(air, playerSettling, p)
    BY <2>2, <2>3 DEF UntoldIn
  <2>5. NoneIn(air', playerSettling) => player = p
    <3>. SUFFICES ASSUME NoneIn(air', playerSettling) PROVE player = p
      OBVIOUS
    <3>p. \A j \in DOMAIN air : Countable(air[j], playerSettling) => j <= n
      BY <1>6
    <3>q. DOMAIN air = 1..Len(air) /\ Len(air) \in Nat /\ n \in Nat
      BY <1>2
    <3>1. \A j \in DOMAIN air : Countable(air[j], playerSettling) => j \in 1..n
      BY <3>p, <3>q
    <3>2. \A j \in DOMAIN air : i < j => ~Countable(air[j], playerSettling)
      BY <2>2, <3>1 DEF Countable
    <3>. QED BY <1>a, <2>2, <2>3, <3>2 DEF EndsWith
  <2>6. ~Unseen(air', playerSettling, player, p, serving.op)
    BY <2>5 DEF Unseen
  <2>7. ASSUME NEW x \in Players
        PROVE  credit'[x] >= 0 /\ (kind' = "speaker" => credit'[x] >= Cardinality(OnWay(remote', x))
                                         + Reports(air', playerSettling', player', intent', serving'.op, x))
    <3>. DEFINE before == Reports(air, playerSettling, player, intent, serving.op, x)
                after  == Reports(air', playerSettling, player, p, serving.op, x)
                way    == Cardinality(OnWay(remote, x))
                then   == Cardinality(UntoldIn(air, playerSettling, x))
                now    == Cardinality(UntoldIn(air', playerSettling, x))
                one    == IF p = x THEN 1 ELSE 0
                c      == credit[x]
    <3>1. before \in Nat /\ way \in Nat /\ c \in Int /\ then \in Nat /\ before >= then /\ one \in {0, 1}
      BY <1>2, ReportsAre, CountFinite
    <3>2. now \in Nat /\ after = now
      BY <1>6, <2>6, ReportsAre
    <3>3. now + one <= then
      <4>1. CASE p = x
        <5>1. now + 1 <= then
          BY <1>6, <2>4, <4>1
        <5>. QED BY <4>1, <5>1
      <4>2. CASE p # x
        <5>1. now <= then
          BY <1>6
        <5>2. one = 0
          BY <4>2
        <5>. HIDE DEF now, then, one
        <5>. QED BY <3>2, <5>1, <5>2
      <4>. QED BY <4>1, <4>2
    <3>4. c >= 0 /\ (kind = "speaker" => c >= way + before)
      BY DEF TapInv, CreditInv
    <3>5. Cardinality(OnWay(remote', x)) = way + one
      BY <1>4, <1>9
    <3>6. c >= 0 /\ (kind = "speaker" => c >= way + one + after)
      <4>. HIDE DEF before, after, way, then, now, one, c
      <4>. QED BY <3>1, <3>2, <3>3, <3>4
    <3>. HIDE DEF after, way, one
    <3>7. credit'[x] = c /\ Reports(air', playerSettling', player', intent', serving'.op, x) = after
      BY <1>0, <2>1 DEF after
    <3>. QED BY <1>0, <3>5, <3>6, <3>7
  <2>. QED BY <1>7, <2>7 DEF TapInv, CreditInv
<1>. QED BY <1>8, <1>9

LEMMA ProbeTaps ==
  ASSUME TypeOK, TapInv, Probe
  PROVE  TapInv'
<1>0. /\ UNCHANGED <<kind, credit, player, playerSettling, serving>> /\ serving = NoCmd
      /\ air' = <<>> /\ drained' = Arrived(Len(air)) /\ Observe(player, volume)
  BY DEF Probe, Idle, Observe, transit, history
<1>1. /\ air \in Seq(Status) /\ remote \in Seq(Change) /\ credit \in [Players -> Int]
      /\ playerSettling \in BOOLEAN /\ serving.op \notin Ops
      /\ player \in Players \cup {Nothing} /\ volume \in Volumes \cup {Nothing}
  BY <1>0 DEF TypeOK, DeviceType, HistoryType, TrackerType, NoCmd, Ops
<1>n. player # Nothing
  BY BoundsAssumption DEF TypeOK, DeviceType, Players
<1>2. \A x : Cardinality(OnWay(remote', x)) =
               Cardinality(OnWay(remote, x)) + (IF UserPlayer(player) /\ player = x THEN 1 ELSE 0)
  BY <1>0, <1>1, ObserveCounts
<1>3. intent' = IF UserPlayer(player) THEN player ELSE intent
  BY <1>0 DEF Observe
<1>4. air' \in Seq(Status) /\ \A s : NoneIn(air', s) /\ \A x : EndsWith(air', s, x)
  BY <1>0 DEF NoneIn, EndsWith
<1>a. EndsWith(air, playerSettling, player)
  BY NowEnds DEF TapInv
<1>5. NewestInv' /\ ServingInv'
  BY <1>0, <1>1, <1>4 DEF NewestInv, ServingInv
<1>6. SettledInv'
  <2>. SUFFICES ASSUME playerSettling = FALSE
                PROVE  intent' = player /\ (drained'.player = Nothing \/ drained'.player = player)
    BY <1>0, <1>1 DEF SettledInv
  <2>1. intent' = player
    BY <1>n, <1>3 DEF UserPlayer
  <2>2. Len(air) \in 0..Len(air) /\ DOMAIN air = 1..Len(air) /\ Len(air) \in Nat
    BY <1>1
  <2>3. CASE Arrived(Len(air)).player = drained.player /\ \A j \in 1..Len(air) : air[j].of # "player"
    <3>1. NoneIn(air, FALSE)
      BY <2>2, <2>3 DEF NoneIn, Countable
    <3>. QED BY <1>0, <2>1, <2>3, <3>1 DEF TapInv, SettledInv
  <2>4. ASSUME NEW i \in 1..Len(air), air[i].of = "player", air[i].is = Arrived(Len(air)).player,
               \A j \in 1..Len(air) : i < j => air[j].of # "player"
        PROVE  drained'.player = player
    <3>1. EndsWith(air, FALSE, player)
      BY DEF TapInv, NewestInv
    <3>2. Countable(air[i], FALSE) /\ \A j \in DOMAIN air : i < j => ~Countable(air[j], FALSE)
      BY <2>2, <2>4 DEF Countable
    <3>. QED BY <1>0, <2>2, <2>4, <3>1, <3>2 DEF EndsWith
  <2>. QED BY <2>1, <2>2, <2>3, <2>4, ArrivedNewest
<1>7. ASSUME NEW x \in Players
      PROVE  credit'[x] >= 0 /\ (kind' = "speaker" => credit'[x] >= Cardinality(OnWay(remote', x))
                                       + Reports(air', playerSettling', player', intent', serving'.op, x))
  <2>. DEFINE before == Reports(air, playerSettling, player, intent, serving.op, x)
              after  == Reports(air', playerSettling, player, intent', serving.op, x)
              way    == Cardinality(OnWay(remote, x))
              one    == IF UserPlayer(player) /\ player = x THEN 1 ELSE 0
              c      == credit[x]
  <2>1. before \in Nat /\ way \in Nat /\ c \in Int /\ after \in Nat /\ one \in {0, 1}
    BY <1>1, <1>4, ReportsAre, CountFinite
  <2>2. after + one <= before
    <3>1. CASE UserPlayer(player)
      <4>1. ~Unseen(air', playerSettling, player, intent', serving.op)
        BY <1>3, <3>1 DEF Unseen
      <4>2. Cardinality(UntoldIn(air', playerSettling, x)) = 0
        BY <1>4, NoneUntold
      <4>3. after = 0
        BY <1>4, <4>1, <4>2, ReportsAre
      <4>4. player = x => before >= 1
        <5>. SUFFICES ASSUME player = x PROVE before >= 1
          OBVIOUS
        <5>1. CASE NoneIn(air, playerSettling)
          <6>1. Unseen(air, playerSettling, player, intent, serving.op)
            BY <1>1, <3>1, <5>1 DEF Unseen, UserPlayer
          <6>2. before = Cardinality(UntoldIn(air, playerSettling, x)) + 1
            BY <1>1, <6>1, ReportsAre
          <6>3. Cardinality(UntoldIn(air, playerSettling, x)) \in Nat
            BY <1>1, CountFinite
          <6>. HIDE DEF before
          <6>. QED BY <6>2, <6>3
        <5>2. CASE ~NoneIn(air, playerSettling)
          <6>1. Cardinality(UntoldIn(air, playerSettling, x)) >= 1
            BY <1>1, <1>a, <5>2, NewestCounts
          <6>2. before >= Cardinality(UntoldIn(air, playerSettling, x))
            BY <1>1, ReportsAre
          <6>3. Cardinality(UntoldIn(air, playerSettling, x)) \in Nat
            BY <1>1, CountFinite
          <6>. HIDE DEF before
          <6>. QED BY <2>1, <6>1, <6>2, <6>3
        <5>. QED BY <5>1, <5>2
      <4>5. player # x => one = 0
        OBVIOUS
      <4>. HIDE DEF before, after, one
      <4>. QED BY <2>1, <4>3, <4>4, <4>5
    <3>2. CASE ~UserPlayer(player)
      <4>1. intent' = intent /\ one = 0
        BY <1>3, <3>2
      <4>2. Cardinality(UntoldIn(air', playerSettling, x)) = 0 /\ Cardinality(UntoldIn(air, playerSettling, x)) \in Nat
        BY <1>1, <1>4, NoneUntold, CountFinite
      <4>3. Cardinality(UntoldIn(air', playerSettling, x)) <= Cardinality(UntoldIn(air, playerSettling, x))
        BY <4>2
      <4>4. after <= before
        BY <1>1, <1>4, <1>a, <4>1, <4>3, FewerReports
      <4>. HIDE DEF before, after, one
      <4>. QED BY <2>1, <4>1, <4>4
    <3>. QED BY <3>1, <3>2
  <2>3. c >= 0 /\ (kind = "speaker" => c >= way + before)
    BY DEF TapInv, CreditInv
  <2>4. Cardinality(OnWay(remote', x)) = way + one
    BY <1>2
  <2>5. c >= 0 /\ (kind = "speaker" => c >= way + one + after)
    <3>. HIDE DEF before, after, way, one, c
    <3>. QED BY <2>1, <2>2, <2>3
  <2>. HIDE DEF after, way, one
  <2>6. credit'[x] = c /\ Reports(air', playerSettling', player', intent', serving'.op, x) = after
    BY <1>0 DEF after
  <2>. QED BY <1>0, <2>4, <2>5, <2>6
<1>. QED BY <1>5, <1>6, <1>7 DEF TapInv, CreditInv

LEMMA SettleTaps ==
  ASSUME TypeOK, TapInv, PlayerSettles
  PROVE  TapInv'
<1>1. /\ UNCHANGED <<kind, remote, credit, player, intent, air, drained, serving>>
      /\ serving = NoCmd /\ playerSettling = TRUE /\ playerSettling' = FALSE
      /\ drained.player = Nothing /\ \A i \in DOMAIN air : air[i].of = "player" => ~air[i].old
  BY DEF PlayerSettles, Idle, Looked, transit, device, history, TypeOK, TrackerType
<1>2. air \in Seq(Status) /\ serving.op \notin Ops
  BY <1>1 DEF TypeOK, DeviceType, NoCmd, Ops
<1>3. \A i \in DOMAIN air : Countable(air[i], FALSE) <=> Countable(air[i], TRUE)
  BY <1>1 DEF Countable
<1>4. ASSUME NEW p
      PROVE  Cardinality(UntoldIn(air', playerSettling', p)) <= Cardinality(UntoldIn(air, playerSettling, p))
  <2>1. UntoldIn(air, FALSE, p) = UntoldIn(air, TRUE, p)
    BY <1>3 DEF UntoldIn
  <2>2. UntoldIn(air', playerSettling', p) = UntoldIn(air, playerSettling, p)
    BY <1>1, <2>1
  <2>3. Cardinality(UntoldIn(air, playerSettling, p)) \in Nat
    BY <1>2, CountFinite
  <2>. QED BY <2>2, <2>3
<1>5. CreditInv'
  BY <1>1, <1>2, <1>4, FewerCredit DEF TapInv
<1>6. NewestInv'
  BY <1>1, <1>3 DEF TapInv, NewestInv, EndsWith
<1>7. SettledInv' /\ ServingInv'
  BY <1>1, <1>2 DEF SettledInv, ServingInv
<1>. QED BY <1>5, <1>6, <1>7 DEF TapInv

\* A touch and its status.
LEMMA TouchTaps ==
  ASSUME TypeOK, TapInv, Tap
  PROVE  TapInv'
<1>. DEFINE e == [of |-> "player", is |-> player', old |-> FALSE]
            n == Len(air) + 1
<1>0. /\ UNCHANGED <<kind, remote, intent, playerSettling, serving, drained>>
      /\ credit' = [credit EXCEPT ![player'] = @ + 1] /\ air' = Append(air, e)
      /\ player' = IF player = "playing" THEN "paused" ELSE "playing"
  BY DEF Tap, tracker, transit
<1>1. /\ air \in Seq(Status) /\ remote \in Seq(Change) /\ credit \in [Players -> Int]
      /\ player' \in Players /\ playerSettling \in BOOLEAN
  BY <1>0 DEF TypeOK, DeviceType, HistoryType, TrackerType, Players
<1>2. e \in Status /\ e.of = "player" /\ e.is = player' /\ e.old = FALSE
  BY <1>1 DEF Status, Players
<1>. HIDE DEF e
<1>3. /\ air' \in Seq(Status) /\ DOMAIN air' = DOMAIN air \cup {n} /\ n \notin DOMAIN air /\ air'[n] = e
      /\ \A i \in DOMAIN air : air'[i] = air[i] /\ i < n
  BY <1>0, <1>1, <1>2
<1>. HIDE DEF n
<1>4. \A s : Countable(air'[n], s)
  BY <1>2, <1>3 DEF Countable
<1>5. \A s : EndsWith(air', s, player') /\ ~NoneIn(air', s)
  <2>1. \A i \in DOMAIN air' : i < n \/ i = n
    BY <1>3
  <2>. QED BY <1>2, <1>3, <1>4, <2>1 DEF EndsWith, NoneIn
<1>6. NewestInv' /\ SettledInv' /\ ServingInv'
  BY <1>0, <1>5 DEF TapInv, NewestInv, SettledInv, ServingInv
<1>7. ASSUME NEW x \in Players
      PROVE  credit'[x] >= 0 /\ (kind' = "speaker" => credit'[x] >= Cardinality(OnWay(remote', x))
                                       + Reports(air', playerSettling', player', intent', serving'.op, x))
  <2>. DEFINE before == Reports(air, playerSettling, player, intent, serving.op, x)
              after  == Reports(air', playerSettling, player', intent, serving.op, x)
              way    == Cardinality(OnWay(remote, x))
              then   == Cardinality(UntoldIn(air, playerSettling, x))
              now    == Cardinality(UntoldIn(air', playerSettling, x))
              one    == IF player' = x THEN 1 ELSE 0
              c      == credit[x]
  <2>1. before \in Nat /\ way \in Nat /\ c \in Int /\ then \in Nat /\ before >= then /\ one \in {0, 1}
    BY <1>1, ReportsAre, CountFinite
  <2>2. ~Unseen(air', playerSettling, player', intent, serving.op)
    BY <1>5 DEF Unseen
  <2>3. after = now
    BY <1>3, <2>2, ReportsAre
  <2>4. now = then + one
    <3>p. IsFiniteSet(UntoldIn(air, playerSettling, x))
      BY <1>1, CountFinite
    <3>q. n \notin UntoldIn(air, playerSettling, x)
      BY <1>3 DEF UntoldIn
    <3>1. IsFiniteSet(UntoldIn(air, playerSettling, x)) /\ n \notin UntoldIn(air, playerSettling, x)
      BY <3>p, <3>q
    <3>2. CASE player' = x
      <4>1. UntoldIn(air', playerSettling, x) = UntoldIn(air, playerSettling, x) \cup {n}
        BY <1>2, <1>3, <1>4, <3>2 DEF UntoldIn
      <4>2. now = then + 1
        BY <3>1, <4>1, FS_AddElement
      <4>. QED BY <3>2, <4>2
    <3>3. CASE player' # x
      <4>1. UntoldIn(air', playerSettling, x) = UntoldIn(air, playerSettling, x)
        BY <1>2, <1>3, <3>3 DEF UntoldIn
      <4>2. now = then /\ one = 0
        BY <3>3, <4>1
      <4>. HIDE DEF now, then, one
      <4>. QED BY <2>1, <4>2
    <3>. QED BY <3>2, <3>3
  <2>5. credit'[x] = c + one
    BY <1>0, <1>1
  <2>6. c >= 0 /\ (kind = "speaker" => c >= way + before)
    BY DEF TapInv, CreditInv
  <2>7. c + one >= 0 /\ (kind = "speaker" => c + one >= way + after)
    <3>. HIDE DEF before, after, way, then, now, one, c
    <3>. QED BY <2>1, <2>3, <2>4, <2>6
  <2>. HIDE DEF after, way, one, c
  <2>8. Reports(air', playerSettling', player', intent', serving'.op, x) = after /\ Cardinality(OnWay(remote', x)) = way
    BY <1>0 DEF after, way
  <2>. QED BY <1>0, <2>5, <2>7, <2>8
<1>. QED BY <1>6, <1>7 DEF TapInv, CreditInv

\* A report told.
LEMMA ToldTaps ==
  ASSUME TypeOK, TapInv, OnCastRemote
  PROVE  TapInv'
<1>. DEFINE h == Head(remote)
            goes == Forwards(h)
<1>0. /\ UNCHANGED <<kind, intent, playerSettling, serving, drained, air, player>>
      /\ remote # <<>> /\ remote' = Tail(remote)
      /\ credit' = IF goes /\ h.of = "player" THEN [credit EXCEPT ![h.is] = @ - 1] ELSE credit
  BY DEF OnCastRemote, tracker, transit, device
<1>1. /\ air \in Seq(Status) /\ remote \in Seq(Change) /\ credit \in [Players -> Int]
      /\ goes => kind = "speaker"
  BY DEF TypeOK, DeviceType, HistoryType, Forwards
<1>. HIDE DEF h, goes
<1>2. NewestInv' /\ SettledInv' /\ ServingInv'
  BY <1>0 DEF TapInv, NewestInv, SettledInv, ServingInv
<1>3. ASSUME NEW x \in Players
      PROVE  credit'[x] >= 0 /\ (kind' = "speaker" => credit'[x] >= Cardinality(OnWay(remote', x))
                                       + Reports(air', playerSettling', player', intent', serving'.op, x))
  <2>. DEFINE before == Reports(air, playerSettling, player, intent, serving.op, x)
              way    == Cardinality(OnWay(remote, x))
              left   == Cardinality(OnWay(remote', x))
              one    == IF goes /\ h.of = "player" /\ h.is = x THEN 1 ELSE 0
              c      == credit[x]
  <2>1. before \in Nat /\ way \in Nat /\ c \in Int /\ one \in {0, 1}
    BY <1>1, ReportsAre, CountFinite
  <2>2. left \in Nat /\ left + one <= way
    <3>1. Tail(remote) \in Seq(Change)
      BY <1>0, <1>1
    <3>2. left \in Nat
      BY <1>0, <3>1, CountFinite
    <3>3. left <= way /\ (h.of = "player" /\ h.is = x => left + 1 <= way)
      BY <1>0, <1>1, OnWayTake DEF h
    <3>4. one = 0 \/ (one = 1 /\ h.of = "player" /\ h.is = x)
      OBVIOUS
    <3>. HIDE DEF left, way, one
    <3>. QED BY <2>1, <3>2, <3>3, <3>4
  <2>3. credit'[x] = c - one /\ (one = 1 => kind = "speaker")
    <3>1. CASE goes /\ h.of = "player" /\ h.is = x
      BY <1>0, <1>1, <3>1
    <3>2. CASE ~(goes /\ h.of = "player" /\ h.is = x)
      <4>1. one = 0
        BY <3>2
      <4>2. credit'[x] = c
        BY <1>0, <1>1, <3>2
      <4>. HIDE DEF one, c
      <4>. QED BY <2>1, <4>1, <4>2
    <3>. QED BY <3>1, <3>2
  <2>4. c >= 0 /\ (kind = "speaker" => c >= way + before)
    BY DEF TapInv, CreditInv
  <2>5. c - one >= 0 /\ (kind = "speaker" => c - one >= left + before)
    <3>. HIDE DEF before, way, left, one, c
    <3>. QED BY <2>1, <2>2, <2>3, <2>4
  <2>. HIDE DEF before, left, one, c
  <2>6. Reports(air', playerSettling', player', intent', serving'.op, x) = before /\ Cardinality(OnWay(remote', x)) = left
    BY <1>0 DEF before, left
  <2>. QED BY <1>0, <2>3, <2>5, <2>6
<1>. QED BY <1>2, <1>3 DEF TapInv, CreditInv

\* A volume status is no player status.
LEMMA VolumeTouchTaps ==
  ASSUME TypeOK, TapInv, NEW v \in Volumes, Touch(v)
  PROVE  TapInv'
<1>. DEFINE e == [of |-> "volume", is |-> v, old |-> FALSE]
            n == Len(air) + 1
<1>0. /\ UNCHANGED <<kind, remote, intent, playerSettling, serving, drained, credit, player>>
      /\ air' = Append(air, e)
  BY DEF Touch, tracker, transit
<1>1. air \in Seq(Status) /\ playerSettling \in BOOLEAN
  BY DEF TypeOK, DeviceType, TrackerType
<1>2. e \in Status /\ e.of # "player"
  BY DEF Status
<1>. HIDE DEF e
<1>3. /\ air' \in Seq(Status) /\ DOMAIN air' = DOMAIN air \cup {n} /\ n \notin DOMAIN air /\ air'[n] = e
      /\ \A i \in DOMAIN air : air'[i] = air[i]
  BY <1>0, <1>1, <1>2
<1>. HIDE DEF n
<1>4. \A s : ~Countable(air'[n], s)
  BY <1>2, <1>3 DEF Countable
<1>5. \A s, p : UntoldIn(air', s, p) = UntoldIn(air, s, p)
  BY <1>3, <1>4 DEF UntoldIn
<1>6. \A s, p : EndsWith(air, s, p) => EndsWith(air', s, p)
  BY <1>3, <1>4 DEF EndsWith
<1>7. \A s : NoneIn(air', s) <=> NoneIn(air, s)
  BY <1>3, <1>4 DEF NoneIn
<1>8. CreditInv'
  <2>1. \A p : Reports(air', playerSettling, player, intent, serving.op, p) =
                 Reports(air, playerSettling, player, intent, serving.op, p)
    BY <1>5, <1>7 DEF Reports, Unseen
  <2>. QED BY <1>0, <2>1 DEF TapInv, CreditInv
<1>9. NewestInv' /\ SettledInv' /\ ServingInv'
  BY <1>0, <1>6, <1>7 DEF TapInv, NewestInv, SettledInv, ServingInv
<1>. QED BY <1>8, <1>9 DEF TapInv

LEMMA TapStep ==
  ASSUME TypeOK, TapInv, [Next]_vars
  PROVE  TapInv'
<1>1. CASE Reconnect
  <2>1. /\ UNCHANGED <<kind, remote, credit, player, intent, playerSettling, serving>>
        /\ air' = <<>> /\ drained' = Nowhere /\ serving.op \notin Ops
    BY <1>1 DEF Reconnect, Idle, tracker, transit, history, NoCmd, Ops
  <2>. QED BY <2>1, LostTaps
<1>2. CASE /\ UNCHANGED <<kind, remote, credit, player, intent, air, playerSettling, drained>>
           /\ serving'.op = serving.op
  <2>1. CreditInv'
    BY <1>2, SameCredit DEF TapInv
  <2>. QED BY <1>2, <2>1 DEF TapInv, NewestInv, SettledInv, ServingInv
<1>3. VolumeTimesOut => serving'.op = serving.op
  BY DEF VolumeTimesOut, TypeOK, TransitType, Cmd, NoCmd
<1>4. \/ /\ UNCHANGED <<kind, remote, credit, player, intent, air, playerSettling, drained>>
         /\ serving' = serving \/ VolumeTimesOut
      \/ Serve \/ SetVolumeDone \/ TransportDone \/ CommandFails \/ Drain \/ Probe \/ Reconnect
      \/ PlayerSettles \/ Tap \/ OnCastRemote \/ Mute \/ \E l \in Levels : Turn(l)
  BY DEF Next, User, Press, Slide, Obey, TakeEvent, VolumeTimesOut, Command, Worker, Looks, Settle, VolumeSettles,
         EchoExpires, ApplyGroupVolume, GroupWaits, HandleVolume, HandlePause, HandleResume,
         vars, transit, tracker, device, history
<1>5. ASSUME Mute \/ \E l \in Levels : Turn(l) PROVE TapInv'
  <2>1. PICK v \in Volumes : Touch(v)
    <3>1. volume \in Volumes
      BY DEF TypeOK, DeviceType
    <3>2. [volume EXCEPT !.muted = ~volume.muted] \in Volumes /\ \A l \in Levels : [volume EXCEPT !.level = l] \in Volumes
      BY <3>1 DEF Volumes
    <3>. QED BY <1>5, <3>2 DEF Mute, Turn
  <2>. QED BY <2>1, VolumeTouchTaps
<1>. QED BY <1>1, <1>2, <1>3, <1>4, <1>5, ServeTaps, SetDoneTaps, TransportTaps, FailTaps, DrainTaps, ProbeTaps,
            SettleTaps, TouchTaps, ToldTaps

\* For every number of touches, commands and failures: the sender is told to play or to pause no
\* more often than the speaker was touched to, or a command failed that may have left it so.
THEOREM TapsAreReal == Spec => []NoPhantomTap
<1>1. TapInv => NoPhantomTap
  BY DEF TapInv, CreditInv, NoPhantomTap, Players
<1>. QED BY <1>1, TapInit, TapStep, TypeCorrect, PTL DEF Spec
-----------------------------------------------------------------------------
(***************************************************************************)
(* A touch of the speaker reaches the sender.  What the tracker takes for  *)
(* known was told, by the newest report on its way or to a sender that     *)
(* shows it; and what it does not, it will report when it looks.           *)
(***************************************************************************)
NoneOf(q, of) == \A i \in DOMAIN q : q[i].of # of
LastOf(q, v)  == \E k \in DOMAIN q : /\ q[k].of = "volume" /\ q[k].is = v
                                     /\ \A j \in DOMAIN q : k < j => q[j].of # "volume"
AllAre(q, p)  == \A i \in DOMAIN q : q[i].of = "player" => q[i].is = p

\* One more report or status, and one less.
LEMMA OneMore ==
  ASSUME NEW S, NEW q \in Seq(S), NEW e \in S
  PROVE  /\ Append(q, e) \in Seq(S)
         /\ \A of : NoneOf(Append(q, e), of) <=> NoneOf(q, of) /\ e.of # of
         /\ \A v : e.of = "volume" /\ e.is = v => LastOf(Append(q, e), v)
         /\ \A v : e.of # "volume" /\ LastOf(q, v) => LastOf(Append(q, e), v)
         /\ \A p : AllAre(Append(q, e), p) <=> AllAre(q, p) /\ (e.of = "player" => e.is = p)
<1>. DEFINE z == Append(q, e)
            n == Len(q) + 1
<1>1. /\ z \in Seq(S) /\ DOMAIN z = DOMAIN q \cup {n} /\ n \notin DOMAIN q /\ z[n] = e
      /\ \A i \in DOMAIN q : z[i] = q[i] /\ i < n /\ ~(n < i)
  OBVIOUS
<1>2. ~(n < n)
  OBVIOUS
<1>. HIDE DEF z, n
<1>3. \A of : NoneOf(z, of) <=> NoneOf(q, of) /\ e.of # of
  BY <1>1 DEF NoneOf
<1>4. ASSUME NEW v, e.of = "volume", e.is = v PROVE LastOf(z, v)
  BY <1>1, <1>2, <1>4 DEF LastOf
<1>5. ASSUME NEW v, e.of # "volume", LastOf(q, v) PROVE LastOf(z, v)
  <2>1. PICK k \in DOMAIN q : /\ q[k].of = "volume" /\ q[k].is = v
                              /\ \A j \in DOMAIN q : k < j => q[j].of # "volume"
    BY <1>5 DEF LastOf
  <2>2. k \in DOMAIN z /\ z[k] = q[k] /\ \A j \in DOMAIN z : k < j => z[j].of # "volume"
    BY <1>1, <1>5, <2>1
  <2>. QED BY <2>1, <2>2 DEF LastOf
<1>6. \A p : AllAre(z, p) <=> AllAre(q, p) /\ (e.of = "player" => e.is = p)
  BY <1>1 DEF AllAre
<1>. QED BY <1>1, <1>3, <1>4, <1>5, <1>6 DEF z

LEMMA OneLess ==
  ASSUME NEW S, NEW q \in Seq(S), q # <<>>
  PROVE  /\ Tail(q) \in Seq(S) /\ Head(q) \in S
         /\ \A of : NoneOf(q, of) <=> NoneOf(Tail(q), of) /\ Head(q).of # of
         /\ \A v : LastOf(q, v) => \/ LastOf(Tail(q), v)
                                   \/ NoneOf(Tail(q), "volume") /\ Head(q).of = "volume" /\ Head(q).is = v
         /\ \A p : AllAre(q, p) => AllAre(Tail(q), p) /\ (Head(q).of = "player" => Head(q).is = p)
<1>. DEFINE z == Tail(q)
<1>1. Len(q) \in Nat \ {0} /\ Len(z) = Len(q) - 1 /\ DOMAIN q = 1..Len(q) /\ DOMAIN z = 1..Len(z)
  OBVIOUS
<1>2. /\ z \in Seq(S) /\ Head(q) \in S /\ Head(q) = q[1]
      /\ \A i \in 1..Len(z) : z[i] = q[i + 1]
  OBVIOUS
<1>. HIDE DEF z
<1>3. 1 \in DOMAIN q /\ \A i \in DOMAIN z : i \in Nat /\ i + 1 \in DOMAIN q /\ 1 < i + 1 /\ z[i] = q[i + 1]
  BY <1>1, <1>2
<1>4. \A j \in DOMAIN q : j # 1 => \E i \in DOMAIN z : j = i + 1 /\ z[i] = q[j]
  <2>1. ASSUME NEW j \in DOMAIN q, j # 1 PROVE j - 1 \in DOMAIN z /\ j = (j - 1) + 1
    BY <1>1, <2>1
  <2>. QED BY <1>3, <2>1
<1>5. ASSUME NEW of PROVE NoneOf(q, of) <=> NoneOf(z, of) /\ Head(q).of # of
  <2>1. NoneOf(q, of) => NoneOf(z, of) /\ Head(q).of # of
    BY <1>2, <1>3 DEF NoneOf
  <2>2. ASSUME NoneOf(z, of), Head(q).of # of, NEW j \in DOMAIN q PROVE q[j].of # of
    BY <1>2, <1>4, <2>2 DEF NoneOf
  <2>3. NoneOf(z, of) /\ Head(q).of # of => NoneOf(q, of)
    BY <2>2 DEF NoneOf
  <2>. QED BY <2>1, <2>3
<1>6. ASSUME NEW v, LastOf(q, v)
      PROVE  LastOf(z, v) \/ (NoneOf(z, "volume") /\ Head(q).of = "volume" /\ Head(q).is = v)
  <2>1. PICK k \in DOMAIN q : /\ q[k].of = "volume" /\ q[k].is = v
                              /\ \A j \in DOMAIN q : k < j => q[j].of # "volume"
    BY <1>6 DEF LastOf
  <2>2. CASE k = 1
    BY <1>2, <1>3, <2>1, <2>2 DEF NoneOf
  <2>3. CASE k # 1
    <3>1. PICK i \in DOMAIN z : k = i + 1 /\ z[i] = q[k]
      BY <1>4, <2>3
    <3>2. \A j \in DOMAIN z : i < j => k < j + 1
      BY <1>3, <3>1
    <3>. QED BY <1>3, <2>1, <3>1, <3>2 DEF LastOf
  <2>. QED BY <2>2, <2>3
<1>7. \A p : AllAre(q, p) => AllAre(z, p) /\ (Head(q).of = "player" => Head(q).is = p)
  BY <1>2, <1>3 DEF AllAre
<1>. QED BY <1>2, <1>5, <1>6, <1>7 DEF z

\* What a look reports.
LEMMA ObserveTells ==
  ASSUME TypeOK, NEW p \in Players \cup {Nothing}, NEW v \in Volumes \cup {Nothing}, Observe(p, v)
  PROVE  \E q \in Seq(Change) :
           /\ \/ ~UserPlayer(p) /\ q = remote
              \/ UserPlayer(p) /\ [of |-> "player", is |-> p] \in Change
                               /\ q = Append(remote, [of |-> "player", is |-> p])
           /\ \/ ~UserVolume(v) /\ remote' = q
              \/ UserVolume(v) /\ [of |-> "volume", is |-> v] \in Change
                               /\ remote' = Append(q, [of |-> "volume", is |-> v])
<1>. DEFINE e == [of |-> "player", is |-> p]
            f == [of |-> "volume", is |-> v]
            q == remote \o Report("player", p, UserPlayer(p))
<1>1. remote \in Seq(Change) /\ remote' = q \o Report("volume", v, UserVolume(v))
  BY DEF Observe, TypeOK
<1>2. UserPlayer(p) => e \in Change
  BY DEF UserPlayer, Change, Players
<1>3. UserVolume(v) => f \in Change
  BY DEF UserVolume, Seen, Change
<1>. HIDE DEF e, f
<1>4. q \in Seq(Change) /\ ((~UserPlayer(p) /\ q = remote) \/ (UserPlayer(p) /\ e \in Change /\ q = Append(remote, e)))
  <2>1. CASE UserPlayer(p)
    <3>1. q = remote \o <<e>>
      BY <2>1 DEF Report, e
    <3>2. remote \o <<e>> = Append(remote, e) /\ Append(remote, e) \in Seq(Change)
      BY <1>1, <1>2, <2>1
    <3>. QED BY <1>2, <2>1, <3>1, <3>2
  <2>2. CASE ~UserPlayer(p)
    <3>1. q = remote
      BY <1>1, <2>2 DEF Report
    <3>. QED BY <1>1, <2>2, <3>1
  <2>. QED BY <2>1, <2>2
<1>5. (~UserVolume(v) /\ remote' = q) \/ (UserVolume(v) /\ f \in Change /\ remote' = Append(q, f))
  <2>. HIDE DEF q
  <2>1. CASE UserVolume(v)
    <3>1. remote' = q \o <<f>>
      BY <1>1, <2>1 DEF Report, f
    <3>2. q \o <<f>> = Append(q, f)
      BY <1>3, <1>4, <2>1
    <3>. QED BY <1>3, <2>1, <3>1, <3>2
  <2>2. CASE ~UserVolume(v)
    <3>1. remote' = q \o <<>>
      BY <1>1, <2>2 DEF Report
    <3>2. q \o <<>> = q
      BY <1>4
    <3>. QED BY <2>2, <3>1, <3>2
  <2>. QED BY <2>1, <2>2
<1>. QED BY <1>4, <1>5 DEF e, f

\* Statuses of before our reply are old, and what they tell is the same.
LEMMA AgedIs ==
  ASSUME TypeOK, NEW of \in {"volume", "player"}, NEW is
  PROVE  /\ DOMAIN Aged(is, of) = DOMAIN air \cup {Len(air) + 1} /\ Len(air) + 1 \notin DOMAIN air
         /\ Aged(is, of)[Len(air) + 1].of = of /\ Aged(is, of)[Len(air) + 1].is = is
         /\ \A i \in DOMAIN air : Aged(is, of)[i].of = air[i].of /\ Aged(is, of)[i].is = air[i].is
<1>1. air \in Seq(Status)
  BY DEF TypeOK, DeviceType
<1>2. \A s \in Status : [s EXCEPT !.old = TRUE].of = s.of /\ [s EXCEPT !.old = TRUE].is = s.is
  BY DEF Status
<1>. DEFINE n == Len(air) + 1
<1>3. n \in Nat /\ 1..n = DOMAIN air \cup {n} /\ n \notin DOMAIN air /\ \A i \in DOMAIN air : i <= Len(air) /\ air[i] \in Status
  BY <1>1
<1>4. ~(n <= Len(air))
  BY <1>1
<1>. HIDE DEF n
<1>5. Aged(is, of) = [i \in 1..n |-> IF i <= Len(air) THEN [air[i] EXCEPT !.old = TRUE]
                                     ELSE [of |-> of, is |-> is, old |-> TRUE]]
  BY DEF Aged, n
<1>6. Aged(is, of)[n] = [of |-> of, is |-> is, old |-> TRUE]
  BY <1>3, <1>4, <1>5
<1>7. \A i \in DOMAIN air : Aged(is, of)[i] = [air[i] EXCEPT !.old = TRUE]
  BY <1>3, <1>5
<1>8. DOMAIN Aged(is, of) = 1..n
  BY <1>5
<1>9. Aged(is, of)[n].of = of /\ Aged(is, of)[n].is = is
  BY <1>6
<1>10. \A i \in DOMAIN air : Aged(is, of)[i].of = air[i].of /\ Aged(is, of)[i].is = air[i].is
  BY <1>2, <1>3, <1>7
<1>11. DOMAIN Aged(is, of) = DOMAIN air \cup {n} /\ n \notin DOMAIN air
  BY <1>3, <1>8
<1>. QED BY <1>9, <1>10, <1>11 DEF n

\* An event or command more, one less, and the first n less.
LEMMA HasMore ==
  ASSUME NEW S, NEW q \in Seq(S), NEW e \in S
  PROVE  \A op : Has(Append(q, e), op) <=> Has(q, op) \/ e.op = op
<1>. DEFINE z == Append(q, e)
            n == Len(q) + 1
<1>1. /\ 1..Len(z) = 1..Len(q) \cup {n} /\ z[n] = e
      /\ \A i \in 1..Len(q) : z[i] = q[i]
  OBVIOUS
<1>. HIDE DEF z, n
<1>2. ASSUME NEW op PROVE Has(z, op) <=> Has(q, op) \/ e.op = op
  BY <1>1 DEF Has
<1>. QED BY <1>2 DEF z

LEMMA HasLess ==
  ASSUME NEW S, NEW q \in Seq(S), q # <<>>
  PROVE  \A op : /\ Has(Tail(q), op) => Has(q, op)
                 /\ Head(q).op = op => Has(q, op)
<1>. DEFINE z == Tail(q)
<1>1. /\ \A i \in 1..Len(z) : i + 1 \in 1..Len(q) /\ z[i] = q[i + 1]
      /\ 1 \in 1..Len(q) /\ Head(q) = q[1]
  <2>1. Len(q) \in Nat \ {0} /\ Len(z) = Len(q) - 1 /\ Head(q) = q[1]
    OBVIOUS
  <2>2. \A i \in 1..Len(z) : z[i] = q[i + 1]
    OBVIOUS
  <2>. HIDE DEF z
  <2>. QED BY <2>1, <2>2
<1>. HIDE DEF z
<1>2. ASSUME NEW op PROVE (Has(z, op) => Has(q, op)) /\ (Head(q).op = op => Has(q, op))
  BY <1>1 DEF Has
<1>. QED BY <1>2 DEF z

LEMMA HasCut ==
  ASSUME NEW S, NEW q \in Seq(S), NEW n \in 0..Len(q)
  PROVE  \A op : Has(SubSeq(q, n + 1, Len(q)), op) => Has(q, op)
<1>. DEFINE z == SubSeq(q, n + 1, Len(q))
<1>1. \A i \in DOMAIN z : n + i \in DOMAIN q /\ z[i] = q[n + i]
  BY DropIs
<1>2. DOMAIN z = 1..Len(z) /\ DOMAIN q = 1..Len(q)
  OBVIOUS
<1>. HIDE DEF z
<1>3. ASSUME NEW op, Has(z, op) PROVE Has(q, op)
  BY <1>1, <1>2, <1>3 DEF Has
<1>. QED BY <1>3 DEF z

\* A caller that gave up does not change what its command does.
LEMMA LateCommands ==
  ASSUME TypeOK, VolumeTimesOut, NEW op
  PROVE  (Has(queue, op) <=> Has(queue', op)) /\ serving'.op = serving.op
<1>1. queue \in Seq(Cmd) /\ serving \in Cmd \cup {NoCmd}
  BY DEF TypeOK, TransitType
<1>2. \A c \in Cmd \cup {NoCmd} : [c EXCEPT !.wanted = FALSE].op = c.op
  BY DEF Cmd, NoCmd
<1>3. queue' = [i \in DOMAIN queue |-> IF queue[i].op = "SET" THEN [queue[i] EXCEPT !.wanted = FALSE]
                                       ELSE queue[i]]
  BY DEF VolumeTimesOut
<1>4. DOMAIN queue' = DOMAIN queue /\ \A i \in DOMAIN queue : queue'[i].op = queue[i].op
  BY <1>1, <1>2, <1>3
<1>5. Len(queue') = Len(queue) /\ DOMAIN queue = 1..Len(queue)
  <2>1. DOMAIN queue = 1..Len(queue) /\ Len(queue) \in Nat
    BY <1>1
  <2>2. DOMAIN queue' = 1..Len(queue') /\ Len(queue') \in Nat
    <3>1. queue' \in Seq(Cmd)
      BY TransitKept DEF TransitType, Next
    <3>. QED BY <3>1
  <2>3. 1..Len(queue') = 1..Len(queue)
    BY <1>4, <2>1, <2>2
  <2>4. ASSUME NEW a \in Nat, NEW b \in Nat, 1..a = 1..b PROVE a = b
    <3>1. (a > 0 => a \in 1..b) /\ (b > 0 => b \in 1..a)
      BY <2>4
    <3>. QED BY <3>1
  <2>. QED BY <2>1, <2>2, <2>3, <2>4
<1>6. Has(queue, op) <=> Has(queue', op)
  BY <1>4, <1>5 DEF Has
<1>7. serving'.op = serving.op
  BY <1>1, <1>2 DEF VolumeTimesOut
<1>. QED BY <1>6, <1>7

\* A task or a command of the bridge needs an event of the sender.
NoOp(op) == tasks[op] = 0 /\ ~Waiting(op)

LEMMA OpsCome ==
  ASSUME TypeOK, [Next]_vars, owedTap' # Nothing, NEW op \in Ops, NoOp(op),
         ~Has(events, IF op = "PAUSE" THEN "Paused" ELSE "Resumed")
  PROVE  NoOp(op)'
<1>0. /\ queue \in Seq(Cmd) /\ tasks \in [Ops -> Nat] /\ events \in Seq(Event) /\ op # "SET" /\ op # "none"
      /\ tasks[op] = 0 /\ ~Has(queue, op) /\ serving.op # op
  BY DEF TypeOK, TransitType, SenderType, NoOp, Waiting, Ops
<1>1. CASE UNCHANGED <<tasks, queue, serving>>
  BY <1>0, <1>1 DEF NoOp, Waiting
<1>2. CASE TakeEvent
  <2>1. events # <<>> /\ serving' = serving /\ (HandleVolume \/ HandlePause \/ HandleResume)
    BY <1>2 DEF TakeEvent, HandleVolume, HandlePause, HandleResume
  <2>2. \A e : Head(events).op = e => Has(events, e)
    BY <1>0, <2>1, HasLess
  <2>3. CASE HandleVolume
    <3>1. tasks' = tasks
      BY <2>3 DEF HandleVolume
    <3>2. queue' = queue \/ queue' = Append(queue, [op |-> "SET", level |-> Head(events).level, wanted |-> TRUE])
      BY <2>3 DEF HandleVolume
    <3>3. [op |-> "SET", level |-> Head(events).level, wanted |-> TRUE] \in Cmd
      BY <1>0, <2>1, <2>3, HeadTail DEF HandleVolume, Event, Cmd
    <3>4. PICK c \in Cmd : c.op = "SET" /\ (queue' = queue \/ queue' = Append(queue, c))
      BY <3>2, <3>3
    <3>5. Has(Append(queue, c), op) <=> Has(queue, op) \/ c.op = op
      BY <1>0, HasMore
    <3>6. ~Has(queue', op)
      BY <1>0, <3>4, <3>5
    <3>. QED BY <1>0, <2>1, <3>1, <3>6 DEF NoOp, Waiting
  <2>4. CASE HandlePause
    <3>1. op # "PAUSE" /\ queue' = queue /\ tasks'[op] = tasks[op]
      BY <1>0, <2>2, <2>4 DEF HandlePause
    <3>. QED BY <1>0, <2>1, <3>1 DEF NoOp, Waiting
  <2>5. CASE HandleResume
    <3>1. op # "PLAY" /\ queue' = queue /\ tasks'[op] = tasks[op]
      BY <1>0, <2>2, <2>5 DEF HandleResume, Ops
    <3>. QED BY <1>0, <2>1, <3>1 DEF NoOp, Waiting
  <2>. QED BY <2>1, <2>3, <2>4, <2>5
<1>3. CASE VolumeTimesOut
  <2>1. tasks' = tasks
    BY <1>3 DEF VolumeTimesOut
  <2>. QED BY <1>0, <1>3, <2>1, LateCommands DEF NoOp, Waiting
<1>4. ASSUME NEW o \in Ops, Command(o) PROVE NoOp(op)'
  <2>1. o # op /\ serving' = serving /\ tasks'[op] = tasks[op]
    BY <1>0, <1>4 DEF Command
  <2>2. queue' = queue \/ queue' = Append(queue, [op |-> o, level |-> Nothing, wanted |-> TRUE])
    BY <1>4 DEF Command
  <2>3. [op |-> o, level |-> Nothing, wanted |-> TRUE] \in Cmd
    BY DEF Cmd
  <2>4. PICK c \in Cmd : c.op = o /\ (queue' = queue \/ queue' = Append(queue, c))
    BY <2>2, <2>3
  <2>p. Has(Append(queue, c), op) <=> Has(queue, op) \/ c.op = op
    BY <1>0, HasMore
  <2>5. ~Has(queue', op)
    BY <1>0, <2>1, <2>4, <2>p
  <2>. QED BY <1>0, <2>1, <2>5 DEF NoOp, Waiting
<1>5. CASE Serve
  <2>1. queue # <<>> /\ tasks' = tasks
    BY <1>5 DEF Serve
  <2>2. CASE Head(queue).op = "SET"
    <3>1. Run(queue) \in 1..Len(queue)
      BY <1>0, <2>1, <2>2, RunIs
    <3>2. queue' = SubSeq(queue, Run(queue) + 1, Len(queue)) /\ serving'.op = "SET"
      BY <1>5, <2>2 DEF Serve, Ops
    <3>3. Run(queue) \in 0..Len(queue)
      BY <1>0, <3>1
    <3>4. ~Has(queue', op)
      BY <1>0, <3>2, <3>3, HasCut
    <3>. QED BY <1>0, <2>1, <3>2, <3>4 DEF NoOp, Waiting
  <2>3. CASE Head(queue).op # "SET"
    <3>1. queue' = Tail(queue) /\ serving' = Head(queue)
      BY <1>5, <2>3 DEF Serve
    <3>. QED BY <1>0, <2>1, <3>1, HasLess DEF NoOp, Waiting
  <2>. QED BY <2>2, <2>3
<1>6. CASE SetVolumeDone \/ TransportDone
  <2>1. tasks' = tasks /\ queue' = queue /\ serving' = NoCmd
    BY <1>6 DEF SetVolumeDone, TransportDone, Reply
  <2>. QED BY <1>0, <2>1 DEF NoOp, Waiting, NoCmd
<1>7. ~CommandFails
  BY DEF CommandFails
<1>8. \/ UNCHANGED <<tasks, queue, serving>> \/ TakeEvent \/ VolumeTimesOut \/ (\E o \in Ops : Command(o))
      \/ Serve \/ SetVolumeDone \/ TransportDone
  BY <1>7 DEF Next, User, Press, Slide, Obey, Worker, Looks, Drain, Probe, Reconnect, Settle, PlayerSettles,
         VolumeSettles, EchoExpires, Tap, Mute, Turn, Touch, OnCastRemote, ApplyGroupVolume, GroupWaits, vars, transit
<1>. QED BY <1>1, <1>2, <1>3, <1>4, <1>5, <1>6, <1>8

\* A pause or resume of the sender, unless it is pressed there, is what it was told.
Rate(change) == IF change.is = "playing" THEN "Resumed" ELSE "Paused"

LEMMA EventsCome ==
  ASSUME TypeOK, [Next]_vars, owedTap' # Nothing, NEW e \in {"Paused", "Resumed"}, ~Has(events, e),
         Obey /\ Head(told).of = "player" => e # Rate(Head(told))
  PROVE  ~Has(events', e)
<1>0. events \in Seq(Event)
  BY DEF TypeOK, SenderType
<1>1. \A f \in Event : f.op # e => ~Has(Append(events, f), e)
  BY <1>0, HasMore
<1>2. ASSUME NEW l \in Levels, Slide(l) PROVE ~Has(events', e)
  <2>1. [op |-> "Volume", level |-> l] \in Event
    BY DEF Event
  <2>. QED BY <1>1, <1>2, <2>1 DEF Slide
<1>3. CASE Obey
  <2>1. told # <<>> /\ told \in Seq(Change)
    BY <1>3 DEF Obey, TypeOK, SenderType
  <2>2. Head(told) \in Change
    BY <2>1, HeadTail
  <2>3. CASE Head(told).of = "player"
    <3>1. events' = events \/ events' = Append(events, [op |-> Rate(Head(told)), level |-> Nothing])
      BY <1>3, <2>3 DEF Obey, SetRate, Rate
    <3>2. [op |-> Rate(Head(told)), level |-> Nothing] \in Event
      BY DEF Event, Rate
    <3>. QED BY <1>1, <1>3, <2>3, <3>1, <3>2
  <2>4. CASE Head(told).of = "volume"
    <3>1. events' = events \/ events' = Append(events, [op |-> "Volume", level |-> Head(told).is.level])
      BY <1>3, <2>4 DEF Obey
    <3>2. [op |-> "Volume", level |-> Head(told).is.level] \in Event
      BY <2>2, <2>4 DEF Change, Volumes, Event
    <3>. QED BY <1>1, <3>1, <3>2
  <2>. QED BY <2>2, <2>3, <2>4 DEF Change
<1>4. CASE TakeEvent
  BY <1>0, <1>4, HasLess DEF TakeEvent
<1>5. CASE events' = events
  BY <1>5
<1>6. ~Press
  BY DEF Press
<1>7. events' = events \/ (\E l \in Levels : Slide(l)) \/ Obey \/ TakeEvent
  BY <1>6 DEF Next, User, VolumeTimesOut, Command, Worker, Serve, SetVolumeDone, TransportDone, CommandFails, Looks,
         Drain, Probe, Reconnect, Settle, PlayerSettles, VolumeSettles, EchoExpires, Tap, Mute, Turn, Touch,
         OnCastRemote, ApplyGroupVolume, GroupWaits, vars, sender
<1>. QED BY <1>2, <1>3, <1>4, <1>5, <1>7

-----------------------------------------------------------------------------
\* While the sender is owed player state p, the speaker is in it, and whatever is on its way to
\* the tracker, to the sender or back to the speaker says so.  It is the newest the tracker does
\* not know, or is told, or is on its way to the watch that will forward it; once the sender has
\* the rate for it, it keeps it.
OwnOp(p)    == IF p = "playing" THEN "PLAY" ELSE "PAUSE"
OwnEvent(p) == IF p = "playing" THEN "Resumed" ELSE "Paused"
Clear == (\A op \in Ops : NoOp(op)) /\ ~Has(events, "Paused") /\ ~Has(events, "Resumed")

OnlyOwn(p) ==
  /\ \A op \in Ops : op # OwnOp(p) => NoOp(op)
  /\ \A e \in {"Paused", "Resumed"} : e # OwnEvent(p) => ~Has(events, e)
SpeakerTells(p) ==
  /\ player = p /\ AllAre(air, p)
  /\ drained.player \in {Nothing, p} \/ (intent # p /\ ~NoneOf(air, "player"))
SenderHears(p) ==
  /\ AllAre(remote, p) /\ AllAre(told, p)
  /\ intent # p => paused # playing /\ Clear /\ NoneOf(remote, "player") /\ NoneOf(told, "player")
  /\ intent = p /\ playing # (p = "playing") =>
       Clear /\ (~NoneOf(told, "player") \/ (paused # playing /\ ~NoneOf(remote, "player")))
TapOwed(p) == kind = "speaker" /\ OnlyOwn(p) /\ SpeakerTells(p) /\ SenderHears(p)
TapOwedInv == \A p \in Players : owedTap = p => TapOwed(p)

\* A tap while no other is under way.
LEMMA TapOwes ==
  ASSUME TypeOK, Tap, NEW p \in Players, owedTap' = p
  PROVE  TapOwed(p)'
<1>. DEFINE e == [of |-> "player", is |-> player', old |-> FALSE]
<1>0. /\ NoTransport /\ kind = "speaker" /\ player' = p /\ air' = Append(air, e) /\ player \in Players
      /\ UNCHANGED <<kind, told, events, paused, playing, tasks, queue, serving, intent, drained, remote>>
  <2>1. p # Nothing
    BY BoundsAssumption DEF Players
  <2>. QED BY <2>1 DEF Tap, sender, session, transit, tracker, TypeOK, DeviceType
<1>1. air \in Seq(Status) /\ e \in Status /\ e.of = "player" /\ e.is = p
  BY <1>0 DEF TypeOK, DeviceType, Status, Players
<1>2. intent # p
  BY <1>0 DEF NoTransport, Tap, Players
<1>3. NoneOf(air, "player") /\ NoneOf(told, "player") /\ NoneOf(remote, "player")
  BY <1>0 DEF NoTransport, NoneOf
<1>4. Clear
  BY <1>0 DEF NoTransport, Clear, NoOp
<1>5. Clear'
  BY <1>0, <1>4 DEF Clear, NoOp, Waiting
<1>6. AllAre(air, p) /\ AllAre(told, p) /\ AllAre(remote, p)
  BY <1>3 DEF NoneOf, AllAre
<1>. HIDE DEF e
<1>7. AllAre(air', p) /\ ~NoneOf(air', "player")
  BY <1>0, <1>1, <1>6, OneMore
<1>8. OnlyOwn(p)'
  BY <1>5 DEF OnlyOwn, Clear
<1>9. SpeakerTells(p)'
  BY <1>0, <1>2, <1>7 DEF SpeakerTells
<1>10. SenderHears(p)'
  BY <1>0, <1>2, <1>3, <1>5, <1>6 DEF SenderHears, NoTransport
<1>. QED BY <1>0, <1>8, <1>9, <1>10 DEF TapOwed

\* Only what the sender was told comes back to the speaker.
LEMMA OwnStays ==
  ASSUME TypeOK, [Next]_vars, NEW p \in Players, owedTap' = p, OnlyOwn(p), AllAre(told, p)
  PROVE  OnlyOwn(p)' /\ (Clear /\ ~(Obey /\ Head(told).of = "player") => Clear')
<1>0. owedTap' # Nothing
  BY BoundsAssumption DEF Players
<1>1. ASSUME NEW op \in Ops, op # OwnOp(p) PROVE NoOp(op)'
  <2>1. NoOp(op)
    BY <1>1 DEF OnlyOwn
  <2>2. ~Has(events, IF op = "PAUSE" THEN "Paused" ELSE "Resumed")
    BY <1>1 DEF OnlyOwn, OwnOp, OwnEvent, Ops
  <2>. QED BY <1>0, <2>1, <2>2, OpsCome
<1>2. ASSUME NEW e \in {"Paused", "Resumed"}, e # OwnEvent(p) PROVE ~Has(events', e)
  <2>1. ~Has(events, e)
    BY <1>2 DEF OnlyOwn
  <2>2. ASSUME Obey, Head(told).of = "player" PROVE e # Rate(Head(told))
    <3>1. told # <<>> /\ told \in Seq(Change)
      BY <2>2 DEF Obey, TypeOK, SenderType
    <3>2. Head(told).is = p
      BY <2>2, <3>1, OneLess
    <3>. QED BY <1>2, <3>2 DEF Rate, OwnEvent
  <2>. QED BY <1>0, <2>1, <2>2, EventsCome
<1>3. OnlyOwn(p)'
  BY <1>1, <1>2 DEF OnlyOwn
<1>4. ASSUME Clear, ~(Obey /\ Head(told).of = "player") PROVE Clear'
  <2>1. ASSUME NEW op \in Ops PROVE NoOp(op)'
    BY <1>0, <1>4, OpsCome DEF Clear
  <2>2. ~Has(events', "Paused") /\ ~Has(events', "Resumed")
    BY <1>0, <1>4, EventsCome DEF Clear
  <2>. QED BY <2>1, <2>2 DEF Clear
<1>. QED BY <1>3, <1>4

\* Once an event, a task or a command is on its way, the tracker knows and the sender has the rate.
LEMMA UnderWay ==
  ASSUME NEW p \in Players, SenderHears(p), TypeOK, ~Clear
  PROVE  intent = p /\ playing = (p = "playing")
BY DEF SenderHears, TypeOK, SenderType

\* A look reports what the sender is owed, and nothing else.
LEMMA LookTells ==
  ASSUME TypeOK, NEW p \in Players, AllAre(remote, p),
         NEW x \in Players \cup {Nothing}, NEW v \in Volumes \cup {Nothing}, Observe(x, v),
         x \in {Nothing, p} \/ intent # p
  PROVE  /\ UserPlayer(x) => intent # p
         /\ intent' = IF UserPlayer(x) THEN p ELSE intent
         /\ AllAre(remote', p)
         /\ NoneOf(remote', "player") <=> NoneOf(remote, "player") /\ ~UserPlayer(x)
<1>1. UserPlayer(x) => x = p /\ intent # p
  BY DEF UserPlayer, TypeOK, TrackerType, Players
<1>2. intent' = IF UserPlayer(x) THEN p ELSE intent
  BY <1>1 DEF Observe
<1>3. remote \in Seq(Change)
  BY DEF TypeOK
<1>4. PICK q \in Seq(Change) :
           /\ \/ ~UserPlayer(x) /\ q = remote
              \/ UserPlayer(x) /\ [of |-> "player", is |-> x] \in Change
                               /\ q = Append(remote, [of |-> "player", is |-> x])
           /\ \/ ~UserVolume(v) /\ remote' = q
              \/ UserVolume(v) /\ [of |-> "volume", is |-> v] \in Change
                               /\ remote' = Append(q, [of |-> "volume", is |-> v])
  BY ObserveTells
<1>5. AllAre(q, p) /\ (NoneOf(q, "player") <=> NoneOf(remote, "player") /\ ~UserPlayer(x))
  <2>1. CASE UserPlayer(x)
    <3>1. PICK e \in Change : e.of = "player" /\ e.is = p /\ q = Append(remote, e)
      BY <1>1, <1>4, <2>1
    <3>. QED BY <1>3, <2>1, <3>1, OneMore
  <2>2. CASE ~UserPlayer(x)
    BY <1>4, <2>2
  <2>. QED BY <2>1, <2>2
<1>6. AllAre(remote', p) /\ (NoneOf(remote', "player") <=> NoneOf(q, "player"))
  <2>1. CASE UserVolume(v)
    <3>1. PICK e \in Change : e.of = "volume" /\ remote' = Append(q, e)
      BY <1>4, <2>1
    <3>. QED BY <1>5, <3>1, OneMore
  <2>2. CASE ~UserVolume(v)
    BY <1>4, <1>5, <2>2
  <2>. QED BY <2>1, <2>2
<1>. QED BY <1>1, <1>2, <1>5, <1>6

\* What may be looked at: a state of before the tap only while the tracker does not know of it.
LEMMA LookFinds ==
  ASSUME TypeOK, NEW p \in Players, SpeakerTells(p), NEW n \in 0..Len(air)
  PROVE  /\ Arrived(n).player \in {Nothing, p} \/ intent # p
         /\ n = Len(air) => Arrived(n).player \in {Nothing, p}
<1>0. air \in Seq(Status) /\ DOMAIN air = 1..Len(air) /\ 1..n \subseteq 1..Len(air)
  BY DEF TypeOK, DeviceType
<1>1. CASE Arrived(n).player = drained.player /\ \A j \in 1..n : air[j].of # "player"
  <2>1. n = Len(air) => NoneOf(air, "player")
    BY <1>0, <1>1 DEF NoneOf
  <2>. QED BY <1>1, <2>1 DEF SpeakerTells
<1>2. CASE \E i \in 1..n : air[i].of = "player" /\ air[i].is = Arrived(n).player
  BY <1>0, <1>2 DEF SpeakerTells, AllAre
<1>. QED BY <1>1, <1>2, ArrivedNewest

LEMMA SpeakerGoesOn ==
  ASSUME TypeOK, NEW p \in Players, TapOwed(p), [Next]_vars, owedTap' = p, ~Tap
  PROVE  SpeakerTells(p)'
<1>0. /\ OnlyOwn(p) /\ SpeakerTells(p) /\ SenderHears(p) /\ p # Nothing
      /\ player = p /\ AllAre(air, p) /\ air \in Seq(Status)
      /\ drained.player \in {Nothing, p} \/ (intent # p /\ ~NoneOf(air, "player"))
  BY BoundsAssumption DEF TapOwed, SpeakerTells, Players, TypeOK, DeviceType
<1>1. CASE UNCHANGED <<player, air, drained, intent>>
  BY <1>0, <1>1 DEF SpeakerTells
<1>2. CASE Serve
  <2>1. UNCHANGED <<player, air, drained>> /\ queue # <<>> /\ queue \in Seq(Cmd)
    BY <1>2 DEF Serve, device, TypeOK, TransitType
  <2>2. CASE Head(queue).op = "SET"
    <3>1. intent' = intent
      BY <1>2, <2>2 DEF Serve, Ops
    <3>. QED BY <1>0, <2>1, <3>1 DEF SpeakerTells
  <2>3. CASE Head(queue).op # "SET"
    <3>1. Head(queue).op \in Ops /\ intent' = IF Head(queue).op = "PAUSE" THEN "paused" ELSE "playing"
      BY <1>2, <2>3 DEF Serve
    <3>2. ~NoOp(Head(queue).op)
      BY <2>1, HasLess DEF NoOp, Waiting
    <3>3. intent = p /\ intent' = p
      BY <1>0, <3>1, <3>2, UnderWay DEF OnlyOwn, OwnOp, Clear, Ops, Players
    <3>. QED BY <1>0, <2>1, <3>3 DEF SpeakerTells
  <2>. QED BY <2>2, <2>3
<1>3. CASE SetVolumeDone
  <2>1. UNCHANGED <<player, drained, intent>> /\ air' = Aged(volume', "volume")
    BY <1>3 DEF SetVolumeDone
  <2>2. AllAre(air', p) /\ (~NoneOf(air, "player") => ~NoneOf(air', "player"))
    BY <1>0, <2>1, AgedIs DEF AllAre, NoneOf
  <2>. QED BY <1>0, <2>1, <2>2 DEF SpeakerTells
<1>4. CASE TransportDone
  <2>1. /\ serving.op \in Ops /\ UNCHANGED <<drained, intent>> /\ air' = Aged(player', "player")
        /\ player' = IF serving.op = "PAUSE" THEN "paused" ELSE "playing"
    BY <1>4 DEF TransportDone, tracker
  <2>2. ~NoOp(serving.op)
    BY DEF NoOp, Waiting
  <2>3. player' = p /\ intent = p
    BY <1>0, <2>1, <2>2, UnderWay DEF OnlyOwn, OwnOp, Clear, Ops, Players
  <2>4. AllAre(air', p)
    BY <1>0, <2>1, <2>3, AgedIs DEF AllAre
  <2>. QED BY <1>0, <2>1, <2>3, <2>4 DEF SpeakerTells
<1>5. CASE Drain
  <2>1. PICK n \in 0..Len(air) : Observe(Arrived(n).player, Arrived(n).volume) /\ air' = SubSeq(air, n + 1, Len(air))
    BY <1>5 DEF Drain
  <2>2. player' = player /\ drained'.player = Nothing
    BY <1>5 DEF Drain, Nowhere
  <2>3. AllAre(air', p)
    <3>1. \A i \in DOMAIN air' : n + i \in DOMAIN air /\ air'[i] = air[n + i]
      BY <1>0, <2>1, DropIs
    <3>. QED BY <1>0, <3>1 DEF AllAre
  <2>. QED BY <1>0, <2>2, <2>3 DEF SpeakerTells
<1>6. CASE Probe
  <2>1. player' = player /\ air' = <<>> /\ drained' = Arrived(Len(air)) /\ Len(air) \in 0..Len(air)
    BY <1>0, <1>6 DEF Probe
  <2>2. drained'.player \in {Nothing, p} /\ AllAre(air', p)
    BY <1>0, <2>1, LookFinds DEF AllAre
  <2>. QED BY <1>0, <2>1, <2>2 DEF SpeakerTells
<1>7. CASE Reconnect
  <2>1. player' = player /\ air' = <<>> /\ drained'.player = Nothing
    BY <1>7 DEF Reconnect, Nowhere
  <2>. QED BY <1>0, <2>1 DEF SpeakerTells, AllAre
<1>8. ASSUME NEW v \in Volumes, Touch(v) PROVE SpeakerTells(p)'
  <2>1. /\ UNCHANGED <<player, drained, intent>>
        /\ air' = Append(air, [of |-> "volume", is |-> v, old |-> FALSE])
    BY <1>8 DEF Touch, tracker
  <2>2. PICK e \in Status : e.of = "volume" /\ air' = Append(air, e)
    BY <2>1 DEF Status
  <2>3. AllAre(air', p) /\ (NoneOf(air', "player") <=> NoneOf(air, "player"))
    BY <1>0, <2>2, OneMore
  <2>. QED BY <1>0, <2>1, <2>3 DEF SpeakerTells
<1>9. Mute \/ (\E l \in Levels : Turn(l)) => \E v \in Volumes : Touch(v)
  <2>1. volume \in Volumes
    BY DEF TypeOK, DeviceType
  <2>2. [volume EXCEPT !.muted = ~volume.muted] \in Volumes /\ \A l \in Levels : [volume EXCEPT !.level = l] \in Volumes
    BY <2>1 DEF Volumes
  <2>. QED BY <2>2 DEF Mute, Turn
<1>10. ~CommandFails
  BY <1>0 DEF CommandFails
<1>11. \/ UNCHANGED <<player, air, drained, intent>> \/ Serve \/ SetVolumeDone \/ TransportDone \/ Drain \/ Probe
       \/ Reconnect \/ Mute \/ \E l \in Levels : Turn(l)
  BY <1>10 DEF Next, User, Press, Slide, Obey, TakeEvent, HandleVolume, HandlePause, HandleResume, VolumeTimesOut,
         Command, Worker, Looks, Settle, PlayerSettles, VolumeSettles, EchoExpires, OnCastRemote, ApplyGroupVolume,
         GroupWaits, vars, tracker, device
<1>. QED BY <1>1, <1>2, <1>3, <1>4, <1>5, <1>6, <1>7, <1>8, <1>9, <1>11

LEMMA SenderGoesOn ==
  ASSUME TypeOK, NEW p \in Players, TapOwed(p), [Next]_vars, owedTap' = p, ~Tap
  PROVE  SenderHears(p)'
<1>0. /\ OnlyOwn(p) /\ SpeakerTells(p) /\ SenderHears(p) /\ p # Nothing /\ kind = "speaker"
      /\ AllAre(remote, p) /\ AllAre(told, p) /\ remote \in Seq(Change) /\ told \in Seq(Change)
      /\ playing \in BOOLEAN /\ paused \in BOOLEAN /\ intent \in Players
  BY BoundsAssumption DEF TapOwed, SenderHears, Players, TypeOK, SenderType, SessionType, TrackerType
<1>c. Clear /\ ~(Obey /\ Head(told).of = "player") => Clear'
  BY <1>0, OwnStays
<1>1. CASE UNCHANGED <<remote, told, intent, paused, playing>> /\ ~Obey
  BY <1>0, <1>1, <1>c DEF SenderHears
<1>2. CASE Obey
  <2>1. UNCHANGED <<remote, intent, paused>> /\ told # <<>> /\ told' = Tail(told)
    BY <1>2 DEF Obey, session, tracker
  <2>2. /\ AllAre(told', p) /\ (Head(told).of = "player" => Head(told).is = p)
        /\ NoneOf(told, "player") <=> NoneOf(told', "player") /\ Head(told).of # "player"
    BY <1>0, <2>1, OneLess
  <2>3. CASE Head(told).of = "player"
    <3>1. intent = p
      BY <1>0, <2>2, <2>3 DEF SenderHears
    <3>2. playing' = (p = "playing")
      BY <1>2, <2>2, <2>3 DEF Obey, SetRate
    <3>. QED BY <1>0, <2>1, <2>2, <3>1, <3>2 DEF SenderHears
  <2>4. CASE Head(told).of # "player"
    <3>1. playing' = playing
      BY <1>2, <2>4 DEF Obey
    <3>2. NoneOf(told', "player") <=> NoneOf(told, "player")
      BY <2>2, <2>4
    <3>. QED BY <1>0, <1>c, <2>1, <2>2, <2>4, <3>1, <3>2 DEF SenderHears
  <2>. QED BY <2>3, <2>4
<1>3. CASE TakeEvent
  <2>1. UNCHANGED <<remote, told, intent, playing>> /\ events # <<>> /\ ~Obey
        /\ (HandleVolume \/ HandlePause \/ HandleResume) /\ events \in Seq(Event)
    BY <1>3 DEF TakeEvent, Obey, tracker, TypeOK, SenderType
  <2>2. CASE HandleVolume
    <3>1. paused' = paused
      BY <2>2 DEF HandleVolume
    <3>. QED BY <1>0, <1>c, <2>1, <3>1 DEF SenderHears
  <2>3. CASE HandlePause \/ HandleResume
    <3>1. Has(events, "Paused") \/ Has(events, "Resumed")
      BY <2>1, <2>3, HasLess DEF HandlePause, HandleResume
    <3>2. intent = p /\ playing = (p = "playing")
      BY <1>0, <3>1, UnderWay DEF Clear
    <3>. QED BY <1>0, <2>1, <3>2 DEF SenderHears
  <2>. QED BY <2>1, <2>2, <2>3
<1>4. CASE Serve
  <2>1. UNCHANGED <<remote, told, paused, playing>> /\ ~Obey /\ queue # <<>> /\ queue \in Seq(Cmd)
    BY <1>4 DEF Serve, Obey, sender, session, TypeOK, TransitType
  <2>2. CASE Head(queue).op = "SET"
    <3>1. intent' = intent
      BY <1>4, <2>2 DEF Serve, Ops
    <3>. QED BY <1>1, <2>1, <3>1
  <2>3. CASE Head(queue).op # "SET"
    <3>1. Head(queue).op \in Ops /\ intent' = IF Head(queue).op = "PAUSE" THEN "paused" ELSE "playing"
      BY <1>4, <2>3 DEF Serve
    <3>2. ~NoOp(Head(queue).op)
      BY <2>1, HasLess DEF NoOp, Waiting
    <3>3. intent = p /\ playing = (p = "playing") /\ intent' = p
      BY <1>0, <3>1, <3>2, UnderWay DEF OnlyOwn, OwnOp, Clear, Ops, Players
    <3>. QED BY <1>0, <2>1, <3>3 DEF SenderHears
  <2>. QED BY <2>2, <2>3
<1>5. CASE Looks
  <2>1. PICK x \in Players \cup {Nothing}, v \in Volumes \cup {Nothing} :
          Observe(x, v) /\ (x \in {Nothing, p} \/ intent # p)
    <3>1. CASE Drain
      <4>1. PICK n \in 0..Len(air) : Observe(Arrived(n).player, Arrived(n).volume)
        BY <3>1 DEF Drain
      <4>. QED BY <1>0, <4>1, LookedAt, LookFinds
    <3>2. CASE Probe
      <4>1. player = p /\ volume \in Volumes
        BY <1>0 DEF SpeakerTells, TypeOK, DeviceType
      <4>. QED BY <3>2, <4>1 DEF Probe
    <3>. QED BY <1>5, <3>1, <3>2 DEF Looks
  <2>2. UNCHANGED <<told, paused, playing>> /\ ~(Obey /\ Head(told).of = "player")
    BY <1>5 DEF Looks, Drain, Probe, Obey, sender, session
  <2>3. /\ UserPlayer(x) => intent # p
        /\ intent' = IF UserPlayer(x) THEN p ELSE intent
        /\ AllAre(remote', p)
        /\ NoneOf(remote', "player") <=> NoneOf(remote, "player") /\ ~UserPlayer(x)
    BY <1>0, <2>1, LookTells
  <2>4. CASE UserPlayer(x)
    <3>1. Clear' /\ paused # playing
      BY <1>0, <1>c, <2>2, <2>3, <2>4 DEF SenderHears
    <3>. QED BY <1>0, <2>2, <2>3, <2>4, <3>1 DEF SenderHears
  <2>5. CASE ~UserPlayer(x)
    <3>1. intent' = intent /\ (NoneOf(remote', "player") <=> NoneOf(remote, "player"))
      BY <2>3, <2>5
    <3>. QED BY <1>0, <1>c, <2>2, <2>3, <3>1 DEF SenderHears
  <2>. QED BY <2>4, <2>5
<1>6. CASE OnCastRemote
  <2>. DEFINE h == Head(remote)
              goes == Forwards(h)
  <2>1. /\ UNCHANGED <<intent, playing>> /\ remote # <<>> /\ remote' = Tail(remote)
        /\ paused' = (paused \/ (goes /\ h.of = "player" /\ h.is = "paused"))
        /\ told' = told \/ (goes /\ told' = Append(told, h))
        /\ told' = IF goes THEN Append(told, h) ELSE told
        /\ ~(Obey /\ Head(told).of = "player")
    BY <1>0, <1>6 DEF OnCastRemote, Obey, tracker
  <2>2. /\ AllAre(remote', p) /\ (h.of = "player" => h.is = p) /\ h \in Change
        /\ NoneOf(remote, "player") <=> NoneOf(remote', "player") /\ h.of # "player"
    BY <1>0, <2>1, OneLess
  <2>3. goes <=> (h.of = "player" /\ paused = (h.is = "playing")) \/ h.of = "volume"
    BY <1>0 DEF Forwards
  <2>. HIDE DEF h, goes
  <2>4. /\ AllAre(told', p)
        /\ NoneOf(told', "player") <=> NoneOf(told, "player") /\ ~(goes /\ h.of = "player")
    BY <1>0, <2>1, <2>2, OneMore
  <2>5. CASE h.of = "player"
    <3>1. intent = p /\ h.is = p
      BY <1>0, <2>2, <2>5 DEF SenderHears
    <3>2. CASE goes
      <4>1. ~NoneOf(told', "player")
        BY <2>4, <2>5, <3>2
      <4>. QED BY <1>0, <1>c, <2>1, <2>2, <2>4, <3>1, <4>1 DEF SenderHears
    <3>3. CASE ~goes
      <4>1. paused' = paused /\ paused # (p = "playing") /\ (NoneOf(told', "player") <=> NoneOf(told, "player"))
        BY <2>1, <2>3, <2>4, <2>5, <3>1, <3>3, <1>0
      <4>2. playing # (p = "playing") => paused = playing
        BY <1>0, <4>1
      <4>3. playing # (p = "playing") => Clear' /\ ~NoneOf(told', "player")
        BY <1>0, <1>c, <2>1, <3>1, <4>1, <4>2 DEF SenderHears
      <4>. QED BY <1>0, <2>1, <2>2, <2>4, <3>1, <4>3 DEF SenderHears
    <3>. QED BY <3>2, <3>3
  <2>6. CASE h.of # "player"
    <3>1. /\ paused' = paused
          /\ NoneOf(told', "player") <=> NoneOf(told, "player")
          /\ NoneOf(remote', "player") <=> NoneOf(remote, "player")
      BY <1>0, <2>1, <2>2, <2>4, <2>6
    <3>. QED BY <1>0, <1>c, <2>1, <2>2, <2>4, <3>1 DEF SenderHears
  <2>. QED BY <2>5, <2>6
<1>7. ~Press /\ ~CommandFails
  BY <1>0 DEF Press, CommandFails
<1>8. \/ UNCHANGED <<remote, told, intent, paused, playing>> \/ Obey \/ TakeEvent \/ Serve \/ Looks \/ OnCastRemote
  BY <1>7 DEF Next, User, Slide, VolumeTimesOut, Command, Worker, SetVolumeDone, TransportDone, Reconnect, Settle,
         PlayerSettles, VolumeSettles, EchoExpires, Tap, Mute, Turn, Touch, ApplyGroupVolume, GroupWaits, vars,
         sender, session, tracker
<1>. QED BY <1>1, <1>2, <1>3, <1>4, <1>5, <1>6, <1>8

LEMMA TapOwedStep ==
  ASSUME TypeOK, TapOwedInv, [Next]_vars
  PROVE  TapOwedInv'
<1>. SUFFICES ASSUME NEW p \in Players, owedTap' = p PROVE TapOwed(p)'
  BY DEF TapOwedInv
<1>1. CASE Tap
  BY <1>1, TapOwes
<1>2. CASE ~Tap
  <2>1. owedTap' = owedTap
    <3>1. p # Nothing
      BY BoundsAssumption DEF Players
    <3>. QED BY <1>2, <3>1 DEF Next, User, Press, Slide, Obey, TakeEvent, VolumeTimesOut, Command, Worker, Serve,
         SetVolumeDone, TransportDone, CommandFails, Looks, Drain, Probe, Reconnect, Settle, PlayerSettles,
         VolumeSettles, EchoExpires, Mute, Turn, Touch, OnCastRemote, ApplyGroupVolume, GroupWaits, vars, history
  <2>2. TapOwed(p)
    BY <2>1 DEF TapOwedInv
  <2>3. OnlyOwn(p)'
    BY <2>2, OwnStays DEF TapOwed, SenderHears
  <2>4. kind' = kind
    BY RemoteKept DEF vars
  <2>. QED BY <1>2, <2>2, <2>3, <2>4, SpeakerGoesOn, SenderGoesOn DEF TapOwed
<1>. QED BY <1>1, <1>2

\* For every number of slides, taps and commands: a pause or play touched on the speaker while no
\* other is under way is at rest the sender's and the speaker's; the PLAY that the sender's own
\* rate makes of it commands what the speaker does already.
THEOREM TapsAreHeard == Spec => []TapReachesSender
<1>1. Init => TapOwedInv
  BY BoundsAssumption DEF Init, TapOwedInv, Players
<1>2. TypeOK /\ TapOwedInv => TapReachesSender
  <2>. SUFFICES ASSUME TypeOK, TapOwedInv, Quiet, owedTap # Nothing
                PROVE  playing = (owedTap = "playing") /\ player = owedTap
    BY DEF TapReachesSender
  <2>1. PICK p \in Players : owedTap = p /\ TapOwed(p)
    BY DEF TapOwedInv, TypeOK, HistoryType
  <2>2. player = p /\ intent = p /\ NoneOf(told, "player") /\ NoneOf(remote, "player")
    BY <2>1 DEF TapOwed, SpeakerTells, Quiet, NoneOf
  <2>. QED BY <2>1, <2>2 DEF TapOwed, SenderHears
<1>. QED BY <1>1, <1>2, TapOwedStep, TypeCorrect, PTL DEF Spec

-----------------------------------------------------------------------------
\* While the sender is owed volume v, the speaker has it and no volume of ours is on its way there;
\* once the tracker has it for its baseline the sender was told it last; and before, the tracker
\* will take it for the user's, whichever status or reply it finds it in.
Heard(v) ==
  \/ LastOf(remote, v)
  \/ NoneOf(remote, "volume") /\ (LastOf(told, v) \/ (NoneOf(told, "volume") /\ slider = v))
Apart(v) ==
  /\ base # v => base.muted # v.muted
  /\ drained.volume # Nothing /\ drained.volume # v => drained.volume.muted # v.muted
  /\ \A i \in DOMAIN air : air[i].of = "volume" /\ air[i].is # v => air[i].is.muted # v.muted
WillTell(v) == ~IsEcho(v.level) \/ Apart(v)
TurnOwed(v) ==
  /\ kind = "speaker" /\ volume = v /\ NoVolume
  /\ WillTell(v)
  /\ base = v => Heard(v)
TurnOwedInv == \A v \in Volumes : owedTurn = v /\ v # Nothing => TurnOwed(v)

LEMMA TouchOwes ==
  ASSUME TypeOK, NEW w \in Volumes, Touch(w), NEW v \in Volumes, v # Nothing, owedTurn' = v
  PROVE  TurnOwed(v)'
<1>. DEFINE e == [of |-> "volume", is |-> w, old |-> FALSE]
<1>0. /\ NoVolume /\ kind = "speaker" /\ IsNew(w) /\ v = w /\ volume' = w /\ air' = Append(air, e)
      /\ UNCHANGED <<kind, events, queue, serving, base, commanded, drained>>
  BY DEF Touch, sender, transit, tracker
<1>1. air \in Seq(Status) /\ e \in Status /\ e.of = "volume" /\ e.is = w
  BY DEF TypeOK, DeviceType, Status
<1>2. NoVolume'
  BY <1>0 DEF NoVolume, Waiting
<1>3. base' # v
  BY <1>0 DEF IsNew
<1>4. CASE ~IsEcho(w.level)
  <2>1. ~IsEcho(v.level)'
    BY <1>0, <1>4 DEF IsEcho
  <2>. QED BY <1>0, <1>2, <1>3, <2>1 DEF TurnOwed, WillTell
<1>5. CASE IsEcho(w.level)
  <2>1. /\ base.muted # w.muted
        /\ drained.volume # Nothing => drained.volume.muted # w.muted
        /\ \A i \in DOMAIN air : air[i].of = "volume" => air[i].is.muted # w.muted
    BY <1>0, <1>5 DEF IsNew
  <2>2. \A i \in DOMAIN air' : air'[i] = e \/ (i \in DOMAIN air /\ air'[i] = air[i])
    <3>. HIDE DEF e
    <3>. QED BY <1>0, <1>1
  <2>3. Apart(v)'
    BY <1>0, <1>1, <2>1, <2>2 DEF Apart
  <2>. QED BY <1>0, <1>2, <1>3, <2>3 DEF TurnOwed, WillTell
<1>. QED BY <1>4, <1>5

\* No volume of the sender's comes while it is owed one.
LEMMA NoVolumeComes ==
  ASSUME TypeOK, NoVolume, [Next]_vars, owedTurn' # Nothing
  PROVE  NoVolume'
<1>0. /\ queue \in Seq(Cmd) /\ events \in Seq(Event) /\ told \in Seq(Change)
      /\ ~Has(events, "Volume") /\ ~Has(queue, "SET") /\ serving.op # "SET"
  BY DEF TypeOK, TransitType, SenderType, NoVolume, Waiting
<1>e. ~Has(events', "Volume")
  <2>1. \A o \in {"Paused", "Resumed"} : [op |-> o, level |-> Nothing] \in Event
    BY DEF Event
  <2>2. ASSUME NEW on, SetRate(on) PROVE ~Has(events', "Volume")
    <3>1. PICK e \in Event : e.op # "Volume" /\ (events' = events \/ events' = Append(events, e))
      BY <2>1, <2>2 DEF SetRate
    <3>2. Has(Append(events, e), "Volume") <=> Has(events, "Volume") \/ e.op = "Volume"
      BY <1>0, HasMore
    <3>. QED BY <1>0, <3>1, <3>2
  <2>3. CASE Press
    BY <2>2, <2>3 DEF Press
  <2>4. CASE Obey
    <3>1. SetRate(Head(told).is = "playing") \/ events' = events
      BY <2>4 DEF Obey
    <3>. QED BY <1>0, <2>2, <3>1
  <2>5. CASE TakeEvent
    BY <1>0, <2>5, HasLess DEF TakeEvent
  <2>6. \A l \in Levels : ~Slide(l)
    BY DEF Slide
  <2>7. events' = events \/ Press \/ Obey \/ TakeEvent
    BY <2>6 DEF Next, User, VolumeTimesOut, Command, Worker, Serve, SetVolumeDone, TransportDone, CommandFails, Looks,
         Drain, Probe, Reconnect, Settle, PlayerSettles, VolumeSettles, EchoExpires, Tap, Mute, Turn, Touch,
         OnCastRemote, ApplyGroupVolume, GroupWaits, vars, sender
  <2>. QED BY <1>0, <2>3, <2>4, <2>5, <2>7
<1>1. CASE UNCHANGED <<queue, serving>>
  BY <1>0, <1>1, <1>e DEF NoVolume, Waiting
<1>2. CASE TakeEvent
  <2>1. events # <<>> /\ serving' = serving /\ (HandleVolume \/ HandlePause \/ HandleResume)
    BY <1>2 DEF TakeEvent, HandleVolume, HandlePause, HandleResume
  <2>2. Head(events).op # "Volume"
    BY <1>0, <2>1, HasLess
  <2>3. queue' = queue
    BY <2>1, <2>2 DEF HandleVolume, HandlePause, HandleResume
  <2>. QED BY <1>1, <2>1, <2>3
<1>3. CASE VolumeTimesOut
  BY <1>0, <1>3, <1>e, LateCommands DEF NoVolume, Waiting
<1>4. ASSUME NEW o \in Ops, Command(o) PROVE NoVolume'
  <2>1. serving' = serving /\ o # "SET"
    BY <1>4 DEF Command, Ops
  <2>2. queue' = queue \/ queue' = Append(queue, [op |-> o, level |-> Nothing, wanted |-> TRUE])
    BY <1>4 DEF Command
  <2>3. [op |-> o, level |-> Nothing, wanted |-> TRUE] \in Cmd
    BY DEF Cmd
  <2>4. PICK c \in Cmd : c.op = o /\ (queue' = queue \/ queue' = Append(queue, c))
    BY <2>2, <2>3
  <2>5. Has(Append(queue, c), "SET") <=> Has(queue, "SET") \/ c.op = "SET"
    BY <1>0, HasMore
  <2>. QED BY <1>0, <1>e, <2>1, <2>4, <2>5 DEF NoVolume, Waiting
<1>5. CASE Serve
  <2>1. queue # <<>> /\ Head(queue).op # "SET"
    BY <1>0, <1>5, HasLess DEF Serve
  <2>2. queue' = Tail(queue) /\ serving' = Head(queue)
    BY <1>5, <2>1 DEF Serve
  <2>. QED BY <1>0, <1>e, <2>1, <2>2, HasLess DEF NoVolume, Waiting
<1>6. CASE SetVolumeDone \/ TransportDone
  <2>1. queue' = queue /\ serving' = NoCmd
    BY <1>6 DEF SetVolumeDone, TransportDone, Reply
  <2>. QED BY <1>0, <1>e, <2>1 DEF NoVolume, Waiting, NoCmd
<1>7. ~CommandFails
  BY DEF CommandFails
<1>8. \/ UNCHANGED <<queue, serving>> \/ TakeEvent \/ VolumeTimesOut \/ (\E o \in Ops : Command(o))
      \/ Serve \/ SetVolumeDone \/ TransportDone
  BY <1>7 DEF Next, User, Press, Slide, Obey, Worker, Looks, Drain, Probe, Reconnect, Settle, PlayerSettles,
         VolumeSettles, EchoExpires, Tap, Mute, Turn, Touch, OnCastRemote, ApplyGroupVolume, GroupWaits, vars, transit
<1>. QED BY <1>1, <1>2, <1>3, <1>4, <1>5, <1>6, <1>8

\* The volumes a look may find.
LEMMA LookFindsVolume ==
  ASSUME TypeOK, NEW v \in Volumes, Apart(v), NEW n \in 0..Len(air)
  PROVE  Arrived(n).volume \in {Nothing, v} \/ Arrived(n).volume.muted # v.muted
BY ArrivedIs DEF Apart

LEMMA WillTellStays ==
  ASSUME TypeOK, NEW v \in Volumes, v # Nothing, TurnOwed(v), [Next]_vars, owedTurn' # Nothing,
         \A w \in Volumes : ~Touch(w)
  PROVE  volume' = v /\ WillTell(v)'
<1>0. /\ volume = v /\ WillTell(v) /\ ~Has(queue, "SET") /\ serving.op # "SET"
      /\ air \in Seq(Status) /\ commanded \in Seq(Levels)
  BY DEF TurnOwed, NoVolume, Waiting, TypeOK, DeviceType, TrackerType
<1>t. ~Mute /\ \A l \in Levels : ~Turn(l)
  <2>1. volume \in Volumes
    BY DEF TypeOK, DeviceType
  <2>2. [volume EXCEPT !.muted = ~volume.muted] \in Volumes /\ \A l \in Levels : [volume EXCEPT !.level = l] \in Volumes
    BY <2>1 DEF Volumes
  <2>. QED BY <2>2 DEF Mute, Turn
<1>s. ~SetVolumeDone /\ ~CommandFails
  BY <1>0 DEF SetVolumeDone, CommandFails
<1>1. CASE commanded' = commanded /\ ~IsEcho(v.level)
  <2>1. ~IsEcho(v.level)'
    BY <1>1 DEF IsEcho
  <2>2. volume' = volume
    BY <1>t, <1>s DEF Next, User, Press, Slide, Obey, TakeEvent, VolumeTimesOut, Command, Worker, Serve, TransportDone,
         Looks, Drain, Probe, Reconnect, Settle, PlayerSettles, VolumeSettles, EchoExpires, Tap, OnCastRemote,
         ApplyGroupVolume, GroupWaits, vars, device
  <2>. QED BY <1>0, <2>1, <2>2 DEF WillTell
<1>2. CASE UNCHANGED <<volume, base, air, drained, commanded>>
  BY <1>0, <1>2 DEF WillTell, IsEcho, Apart
<1>3. CASE Serve
  <2>1. queue # <<>> /\ queue \in Seq(Cmd)
    BY <1>3 DEF Serve, TypeOK, TransitType
  <2>2. Head(queue).op # "SET"
    BY <1>0, <2>1, HasLess
  <2>3. UNCHANGED <<volume, base, air, drained, commanded>>
    BY <1>3, <2>2 DEF Serve, device
  <2>. QED BY <1>2, <2>3
<1>4. CASE TransportDone
  <2>1. UNCHANGED <<volume, base, drained, commanded>> /\ air' = Aged(player', "player")
    BY <1>4 DEF TransportDone, tracker
  <2>2. Apart(v) => Apart(v)'
    <3>1. \A i \in DOMAIN air' : \/ air'[i].of = "player"
                                 \/ i \in DOMAIN air /\ air'[i].of = air[i].of /\ air'[i].is = air[i].is
      BY <2>1, AgedIs
    <3>. QED BY <2>1, <3>1 DEF Apart
  <2>. QED BY <1>0, <1>1, <2>1, <2>2 DEF WillTell
<1>5. CASE Drain
  <2>1. PICK n \in 0..Len(air) : Observe(Arrived(n).player, Arrived(n).volume) /\ air' = SubSeq(air, n + 1, Len(air))
    BY <1>5 DEF Drain
  <2>2. UNCHANGED <<volume, commanded>> /\ drained'.volume = Nothing
    BY <1>5, <2>1 DEF Drain, Observe, Nowhere
  <2>3. base' = IF Seen(Arrived(n).volume) THEN Arrived(n).volume ELSE base
    BY <2>1 DEF Observe
  <2>4. Apart(v) => Apart(v)'
    <3>. SUFFICES ASSUME Apart(v) PROVE Apart(v)'
      OBVIOUS
    <3>1. \A i \in DOMAIN air' : n + i \in DOMAIN air /\ air'[i] = air[n + i]
      BY <1>0, <2>1, DropIs
    <3>2. \A i \in DOMAIN air' : air'[i].of = "volume" /\ air'[i].is # v => air'[i].is.muted # v.muted
      BY <3>1 DEF Apart
    <3>3. base' # v => base'.muted # v.muted
      BY <2>3, LookFindsVolume DEF Apart, Seen
    <3>. QED BY <2>2, <3>2, <3>3 DEF Apart
  <2>. QED BY <1>0, <1>1, <2>2, <2>4 DEF WillTell
<1>6. CASE Probe
  <2>1. UNCHANGED <<volume, commanded>> /\ air' = <<>> /\ drained' = Arrived(Len(air)) /\ Observe(player, volume)
    BY <1>6 DEF Probe, Observe
  <2>2. base' = IF Seen(volume) THEN volume ELSE base
    BY <2>1 DEF Observe
  <2>3. Apart(v) => Apart(v)'
    <3>. SUFFICES ASSUME Apart(v) PROVE Apart(v)'
      OBVIOUS
    <3>1. base' # v => base'.muted # v.muted
      BY <1>0, <2>2 DEF Apart
    <3>2. drained'.volume \in {Nothing, v} \/ drained'.volume.muted # v.muted
      <4>1. Len(air) \in 0..Len(air)
        BY <1>0
      <4>. QED BY <2>1, <4>1, LookFindsVolume
    <3>. QED BY <2>1, <3>1, <3>2 DEF Apart
  <2>. QED BY <1>0, <1>1, <2>1, <2>3 DEF WillTell
<1>7. CASE Reconnect
  <2>1. UNCHANGED <<volume, base, commanded>> /\ air' = <<>> /\ drained'.volume = Nothing
    BY <1>7 DEF Reconnect, tracker, Nowhere
  <2>2. Apart(v) => Apart(v)'
    BY <2>1 DEF Apart
  <2>. QED BY <1>0, <1>1, <2>1, <2>2 DEF WillTell
<1>8. CASE EchoExpires
  <2>1. UNCHANGED <<volume, base, air, drained>> /\ commanded # <<>> /\ commanded' = Tail(commanded)
    BY <1>8 DEF EchoExpires, device
  <2>2. \A i \in DOMAIN commanded' : \E j \in DOMAIN commanded : commanded'[i] = commanded[j]
    BY <1>0, <2>1, HeadTail
  <2>3. IsEcho(v.level)' => IsEcho(v.level)
    BY <2>2 DEF IsEcho
  <2>4. Apart(v) => Apart(v)'
    BY <2>1 DEF Apart
  <2>. QED BY <1>0, <2>1, <2>3, <2>4 DEF WillTell
<1>9. CASE Tap
  <2>1. /\ UNCHANGED <<volume, base, drained, commanded>>
        /\ air' = Append(air, [of |-> "player", is |-> player', old |-> FALSE])
    BY <1>9 DEF Tap, tracker
  <2>2. PICK e : e.of = "player" /\ air' = Append(air, e)
    BY <2>1
  <2>3. \A i \in DOMAIN air' : air'[i] = e \/ (i \in DOMAIN air /\ air'[i] = air[i])
    BY <1>0, <2>2
  <2>4. Apart(v) => Apart(v)'
    BY <2>1, <2>2, <2>3 DEF Apart
  <2>. QED BY <1>0, <1>1, <2>1, <2>4 DEF WillTell
<1>10. \/ UNCHANGED <<volume, base, air, drained, commanded>> \/ Serve \/ TransportDone \/ Drain \/ Probe \/ Reconnect
       \/ EchoExpires \/ Tap
  BY <1>t, <1>s DEF Next, User, Press, Slide, Obey, TakeEvent, VolumeTimesOut, Command, Worker, Looks, Settle,
         PlayerSettles, VolumeSettles, OnCastRemote, ApplyGroupVolume, GroupWaits, vars, tracker, device
<1>. QED BY <1>0, <1>2, <1>3, <1>4, <1>5, <1>6, <1>7, <1>8, <1>9, <1>10

\* The tracker has v for its baseline only once it was reported.
LEMMA LookTellsVolume ==
  ASSUME TypeOK, NEW v \in Volumes, base = v => Heard(v), WillTell(v),
         NEW x \in Players \cup {Nothing}, NEW w \in Volumes \cup {Nothing}, Observe(x, w), base' = v,
         UNCHANGED <<told, slider>>
  PROVE  Heard(v)'
<1>0. remote \in Seq(Change)
  BY DEF TypeOK
<1>1. PICK q \in Seq(Change) :
           /\ \/ ~UserPlayer(x) /\ q = remote
              \/ UserPlayer(x) /\ [of |-> "player", is |-> x] \in Change
                               /\ q = Append(remote, [of |-> "player", is |-> x])
           /\ \/ ~UserVolume(w) /\ remote' = q
              \/ UserVolume(w) /\ [of |-> "volume", is |-> w] \in Change
                               /\ remote' = Append(q, [of |-> "volume", is |-> w])
  BY ObserveTells
<1>2. base' = IF Seen(w) THEN w ELSE base
  BY DEF Observe
<1>3. CASE base = v
  <2>1. ~UserVolume(w)
    BY <1>2, <1>3 DEF UserVolume
  <2>2. remote' = q /\ Heard(v)
    BY <1>1, <1>3, <2>1
  <2>3. CASE q = remote
    BY <2>2, <2>3 DEF Heard
  <2>4. CASE q # remote
    <3>1. PICK e \in Change : e.of = "player" /\ q = Append(remote, e)
      BY <1>1, <2>4
    <3>2. (LastOf(remote, v) => LastOf(q, v)) /\ (NoneOf(q, "volume") <=> NoneOf(remote, "volume"))
      BY <1>0, <3>1, OneMore
    <3>. QED BY <2>2, <3>2 DEF Heard
  <2>. QED BY <2>3, <2>4
<1>4. CASE base # v
  <2>1. w = v /\ Seen(v)
    BY <1>2, <1>4
  <2>2. UserVolume(w)
    BY <1>4, <2>1 DEF UserVolume, WillTell, Apart
  <2>3. PICK e \in Change : e.of = "volume" /\ e.is = v /\ remote' = Append(q, e)
    BY <1>1, <2>1, <2>2
  <2>4. LastOf(remote', v)
    BY <2>3, OneMore
  <2>. QED BY <2>4 DEF Heard
<1>. QED BY <1>3, <1>4

LEMMA HeardStays ==
  ASSUME TypeOK, NEW v \in Volumes, TurnOwed(v), [Next]_vars, owedTurn' # Nothing, base' = v,
         \A w \in Volumes : ~Touch(w)
  PROVE  Heard(v)'
<1>0. /\ kind = "speaker" /\ volume = v /\ WillTell(v) /\ (base = v => Heard(v)) /\ serving.op # "SET"
      /\ remote \in Seq(Change) /\ told \in Seq(Change) /\ v \in Volumes \cup {Nothing}
  BY DEF TurnOwed, NoVolume, Waiting, TypeOK, SenderType
<1>t. ~Mute /\ \A l \in Levels : ~Turn(l)
  <2>1. volume \in Volumes
    BY DEF TypeOK, DeviceType
  <2>2. [volume EXCEPT !.muted = ~volume.muted] \in Volumes /\ \A l \in Levels : [volume EXCEPT !.level = l] \in Volumes
    BY <2>1 DEF Volumes
  <2>. QED BY <2>2 DEF Mute, Turn
<1>s. ~SetVolumeDone /\ ~CommandFails /\ \A l \in Levels : ~Slide(l)
  BY <1>0 DEF SetVolumeDone, CommandFails, Slide
<1>1. CASE UNCHANGED <<remote, told, slider, base>>
  BY <1>0, <1>1 DEF Heard
<1>2. CASE Obey
  <2>1. told # <<>> /\ told' = Tail(told) /\ remote' = remote /\ base' = base
    BY <1>2 DEF Obey, tracker
  <2>2. Heard(v)
    BY <1>0, <2>1
  <2>3. CASE LastOf(remote, v)
    BY <2>1, <2>3 DEF Heard
  <2>4. CASE NoneOf(remote, "volume") /\ LastOf(told, v)
    <3>1. \/ LastOf(Tail(told), v)
          \/ NoneOf(Tail(told), "volume") /\ Head(told).of = "volume" /\ Head(told).is = v
      BY <1>0, <2>1, <2>4, OneLess
    <3>2. Head(told).of = "volume" => slider' = Head(told).is
      BY <1>2 DEF Obey
    <3>. QED BY <2>1, <2>4, <3>1, <3>2 DEF Heard
  <2>5. CASE NoneOf(remote, "volume") /\ NoneOf(told, "volume") /\ slider = v
    <3>1. NoneOf(Tail(told), "volume") /\ Head(told).of # "volume"
      BY <1>0, <2>1, <2>5, OneLess
    <3>2. slider' = slider
      BY <1>2, <3>1 DEF Obey
    <3>. QED BY <2>1, <2>5, <3>1, <3>2 DEF Heard
  <2>. QED BY <2>2, <2>3, <2>4, <2>5 DEF Heard
<1>3. CASE OnCastRemote
  <2>1. remote # <<>> /\ remote' = Tail(remote) /\ slider' = slider /\ base' = base
    BY <1>3 DEF OnCastRemote, tracker
  <2>2. told' = IF Forwards(Head(remote)) THEN Append(told, Head(remote)) ELSE told
    BY <1>3 DEF OnCastRemote
  <2>3. Heard(v)
    BY <1>0, <2>1
  <2>h. Head(remote) \in Change
    BY <1>0, <2>1, OneLess
  <2>4. CASE Head(remote).of = "volume"
    <3>1. told' = Append(told, Head(remote))
      BY <1>0, <2>2, <2>4 DEF Forwards
    <3>2. LastOf(remote, v)
      <4>1. ~NoneOf(remote, "volume")
        BY <1>0, <2>1, <2>4, OneLess
      <4>. QED BY <2>3, <4>1 DEF Heard
    <3>3. LastOf(Tail(remote), v) \/ (NoneOf(Tail(remote), "volume") /\ Head(remote).is = v)
      BY <1>0, <2>1, <3>2, OneLess
    <3>4. Head(remote).is = v => LastOf(Append(told, Head(remote)), v)
      BY <1>0, <2>h, <2>4, OneMore
    <3>. QED BY <2>1, <3>1, <3>3, <3>4 DEF Heard
  <2>5. CASE Head(remote).of # "volume"
    <3>1. LastOf(remote, v) => LastOf(Tail(remote), v)
      BY <1>0, <2>1, <2>5, OneLess
    <3>2. NoneOf(remote, "volume") => NoneOf(Tail(remote), "volume")
      BY <1>0, <2>1, OneLess
    <3>3. (LastOf(told, v) => LastOf(told', v)) /\ (NoneOf(told, "volume") => NoneOf(told', "volume"))
      <4>1. CASE told' = told
        BY <4>1
      <4>2. CASE told' = Append(told, Head(remote))
        BY <1>0, <2>h, <2>5, <4>2, OneMore
      <4>. QED BY <2>2, <4>1, <4>2
    <3>. QED BY <2>1, <2>3, <3>1, <3>2, <3>3 DEF Heard
  <2>. QED BY <2>4, <2>5
<1>4. CASE Drain
  <2>1. PICK n \in 0..Len(air) : Observe(Arrived(n).player, Arrived(n).volume)
    BY <1>4 DEF Drain
  <2>2. Arrived(n).player \in Players \cup {Nothing} /\ Arrived(n).volume \in Volumes \cup {Nothing}
    BY LookedAt
  <2>3. UNCHANGED <<told, slider>>
    BY <1>4 DEF Drain, sender
  <2>. QED BY <1>0, <2>1, <2>2, <2>3, LookTellsVolume
<1>5. CASE Probe
  <2>1. Observe(player, volume) /\ UNCHANGED <<told, slider>>
    BY <1>5 DEF Probe, sender
  <2>2. player \in Players \cup {Nothing} /\ volume \in Volumes \cup {Nothing}
    BY DEF TypeOK, DeviceType
  <2>. QED BY <1>0, <2>1, <2>2, LookTellsVolume
<1>6. UNCHANGED <<remote, told, slider, base>> \/ Obey \/ OnCastRemote \/ Drain \/ Probe
  BY <1>t, <1>s DEF Next, User, Press, TakeEvent, VolumeTimesOut, Command, Worker, Serve, TransportDone, Looks,
       Reconnect, Settle, PlayerSettles, VolumeSettles, EchoExpires, Tap, ApplyGroupVolume, GroupWaits, vars, sender,
       tracker
<1>. QED BY <1>1, <1>2, <1>3, <1>4, <1>5, <1>6

LEMMA TurnOwedStep ==
  ASSUME TypeOK, TurnOwedInv, [Next]_vars
  PROVE  TurnOwedInv'
<1>. SUFFICES ASSUME NEW v \in Volumes, owedTurn' = v, v # Nothing PROVE TurnOwed(v)'
  BY DEF TurnOwedInv
<1>1. CASE \E w \in Volumes : Touch(w)
  BY <1>1, TouchOwes
<1>2. CASE \A w \in Volumes : ~Touch(w)
  <2>t. ~Mute /\ \A l \in Levels : ~Turn(l)
    <3>1. volume \in Volumes
      BY DEF TypeOK, DeviceType
    <3>2. [volume EXCEPT !.muted = ~volume.muted] \in Volumes /\ \A l \in Levels : [volume EXCEPT !.level = l] \in Volumes
      BY <3>1 DEF Volumes
    <3>. QED BY <1>2, <3>2 DEF Mute, Turn
  <2>1. owedTurn' = owedTurn
    BY <2>t DEF Next, User, Press, Slide, Obey, TakeEvent, VolumeTimesOut, Command, Worker, Serve,
         SetVolumeDone, TransportDone, CommandFails, Looks, Drain, Probe, Reconnect, Settle, PlayerSettles,
         VolumeSettles, EchoExpires, Tap, OnCastRemote, ApplyGroupVolume, GroupWaits, vars, history
  <2>2. TurnOwed(v)
    BY <2>1 DEF TurnOwedInv
  <2>3. NoVolume'
    BY <2>2, NoVolumeComes DEF TurnOwed
  <2>4. kind' = kind
    BY RemoteKept DEF vars
  <2>5. volume' = v /\ WillTell(v)'
    BY <1>2, <2>2, WillTellStays
  <2>6. base' = v => Heard(v)'
    BY <1>2, <2>2, HeardStays
  <2>. QED BY <2>2, <2>3, <2>4, <2>5, <2>6 DEF TurnOwed
<1>. QED BY <1>1, <1>2

\* For every number of slides, touches and commands: a volume chosen on the speaker, while none of
\* ours is on its way there and unless it repeats a level set within the echo window with a mute
\* flag that may have been seen on the way to it, is at rest the sender's.
THEOREM TurnsAreHeard == Spec => []TurnReachesSender
<1>1. Init => TurnOwedInv
  BY DEF Init, TurnOwedInv
<1>2. TypeOK /\ TurnOwedInv => TurnReachesSender
  <2>. SUFFICES ASSUME TypeOK, TurnOwedInv, Quiet, owedTurn # Nothing
                PROVE  slider = owedTurn
    BY DEF TurnReachesSender
  <2>1. PICK v \in Volumes : owedTurn = v /\ TurnOwed(v)
    BY DEF TurnOwedInv, TypeOK, HistoryType
  <2>2. base = v /\ told = <<>> /\ remote = <<>>
    BY <2>1 DEF TurnOwed, Quiet
  <2>3. ~LastOf(remote, v) /\ ~LastOf(told, v)
    BY <2>2 DEF LastOf
  <2>. QED BY <2>1, <2>2, <2>3 DEF TurnOwed, Heard
<1>. QED BY <1>1, <1>2, TurnOwedStep, TypeCorrect, PTL DEF Spec
=============================================================================
