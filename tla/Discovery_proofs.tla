--------------------------- MODULE Discovery_proofs ---------------------------
(***************************************************************************)
(* Discovery keeps the registry's promise for every set of speakers, every *)
(* grace and every TTL: each step of the browse thread, of the maintain    *)
(* loop and of the clock is a step of Registry, or leaves the registry as  *)
(* it is.  The refinement mapping reads an entry's clocks as the phase     *)
(* they are in (Discovery!Phase); the type invariant keeps them in range.  *)
(* And what the registry holds once all is read is the truth: SightingInv. *)
(***************************************************************************)
EXTENDS Discovery, FiniteSetTheorems, TLAPS

\* The registry as its specification sees it.
Mapped == [d \in Devices |-> Phase(entries[d])]

-----------------------------------------------------------------------------
(***************************************************************************)
(* Types.                                                                  *)
(***************************************************************************)
LEMMA TailType ==
  ASSUME NEW S, NEW q \in Seq(S), q # <<>>
  PROVE  Head(q) \in S /\ Tail(q) \in Seq(S)
OBVIOUS

LEMMA EventTypes ==
  ASSUME NEW d \in Devices, NEW n, n.ver \in Versions, n.group \in BOOLEAN
  PROVE  Add(d, n) \in Event /\ Remove(d, n) \in Event
BY DEF Add, Remove, Event

LEMMA AppearType ==
  ASSUME TypeOK, NEW d \in Devices, NEW v \in Versions, Appear(d, v)
  PROVE  /\ entries' \in [Devices -> Entry \union {NoEntry}]
         /\ cancellations' \subseteq Devices /\ lost' \in [Devices -> BOOLEAN]
<1>1. [ver |-> v, age |-> 0, wait |-> NoWait] \in Entry
  BY ClockAssumption DEF Entry, NoWait
<1>. QED BY <1>1 DEF TypeOK, Appear

LEMMA LeaveType ==
  ASSUME TypeOK, NEW d \in Devices, Leave(d)
  PROVE  /\ entries' \in [Devices -> Entry \union {NoEntry}]
         /\ cancellations' \subseteq Devices /\ lost' \in [Devices -> BOOLEAN]
BY DEF TypeOK, Leave

LEMMA MarkType ==
  ASSUME TypeOK, NEW d \in Devices, MarkPendingLeave(d)
  PROVE  /\ entries' \in [Devices -> Entry \union {NoEntry}]
         /\ cancellations' \subseteq Devices /\ lost' \in [Devices -> BOOLEAN]
<1>1. CASE Present(d) /\ ~Leaving(d)
  <2>1. entries[d] \in Entry
    BY <1>1 DEF TypeOK, Present
  <2>2. [entries[d] EXCEPT !.wait = Grace] \in Entry
    BY <2>1, ClockAssumption DEF Entry, NoWait
  <2>3. entries' = [entries EXCEPT ![d] = [entries[d] EXCEPT !.wait = Grace]]
    BY <1>1 DEF MarkPendingLeave
  <2>. QED BY <2>2, <2>3 DEF TypeOK, MarkPendingLeave
<1>2. CASE ~(Present(d) /\ ~Leaving(d))
  <2>1. entries' = entries
    BY <1>2 DEF MarkPendingLeave, TypeOK, Entry, NoEntry
  <2>. QED BY <2>1 DEF TypeOK, MarkPendingLeave
<1>. QED BY <1>1, <1>2

LEMMA ClassifyType ==
  ASSUME TypeOK, NEW d \in Devices, NEW v \in Versions, NEW g, Classify(d, v, g)
  PROVE  /\ entries' \in [Devices -> Entry \union {NoEntry}]
         /\ cancellations' \subseteq Devices /\ lost' \in [Devices -> BOOLEAN]
BY AppearType, LeaveType DEF Classify

LEMMA OlderType ==
  ASSUME NEW e \in Entry
  PROVE  Older(e) \in Entry
BY ClockAssumption DEF Entry, Older, NoWait

LEMMA WithoutType ==
  ASSUME TypeOK, NEW gone
  PROVE  Without(gone) \in [Devices -> Entry \union {NoEntry}]
BY DEF TypeOK, Without

LEMMA TypeInit == Init => TypeOK
BY BoundsAssumption DEF Init, TypeOK, Versions, NoLookup, Event

\* The speakers change, and the browser hears well-formed events.
LEMMA ChangeType ==
  ASSUME TypeOK, NEW d \in Devices, NEW n \in [on: BOOLEAN, ver: Versions, group: BOOLEAN],
         NEW heard \in SUBSET Seq(Event), Change(d, n, heard)
  PROVE  TypeOK'
<1>1. PICK news \in heard :
        /\ events' = IF browser THEN events \o news ELSE events
        /\ lost' = [lost EXCEPT ![d] = @ /\ \A i \in DOMAIN news : news[i].kind # "add"]
  BY DEF Change
<1>2. events' \in Seq(Event)
  BY <1>1 DEF TypeOK
<1>3. lost' \in [Devices -> BOOLEAN]
  BY <1>1 DEF TypeOK
<1>4. net' \in [Devices -> [on: BOOLEAN, ver: Versions, group: BOOLEAN]]
  BY DEF TypeOK, Change
<1>5. changes' \in 0..MaxChanges
  BY BoundsAssumption DEF TypeOK, Change
<1>. QED BY <1>2, <1>3, <1>4, <1>5 DEF TypeOK, Change, registry, Present

LEMMA NetworkType ==
  ASSUME TypeOK, NEW d \in Devices, TurnOn(d) \/ TurnOff(d) \/ Rename(d) \/ BecomeGroup(d)
  PROVE  TypeOK'
<1>. DEFINE Speaker == [on: BOOLEAN, ver: Versions, group: BOOLEAN]
<1>1. net[d] \in Speaker
  BY DEF TypeOK
<1>2. CASE TurnOn(d)
  <2>. DEFINE n == [net[d] EXCEPT !.on = TRUE]
  <2>1. n \in Speaker /\ Change(d, n, {<<Add(d, n)>>})
    BY <1>1, <1>2 DEF TurnOn
  <2>2. {<<Add(d, n)>>} \in SUBSET Seq(Event)
    BY <2>1, EventTypes
  <2>. QED BY <2>1, <2>2, ChangeType
<1>3. CASE TurnOff(d)
  <2>. DEFINE n == [net[d] EXCEPT !.on = FALSE]
  <2>1. n \in Speaker /\ Change(d, n, {<<Remove(d, n)>>, <<>>})
    BY <1>1, <1>3 DEF TurnOff
  <2>2. {<<Remove(d, n)>>, <<>>} \in SUBSET Seq(Event)
    BY <2>1, EventTypes
  <2>. QED BY <2>1, <2>2, ChangeType
<1>4. CASE Rename(d)
  <2>. DEFINE n == [net[d] EXCEPT !.ver = @ + 1]
  <2>1. n \in Speaker
    BY <1>1, <1>4, BoundsAssumption DEF Rename, Versions
  <2>2. Change(d, n, {<<Add(d, n), Remove(d, net[d])>>, <<Remove(d, net[d]), Add(d, n)>>})
    BY <1>4 DEF Rename
  <2>3. Add(d, n) \in Event /\ Remove(d, net[d]) \in Event
    BY <1>1, <2>1, EventTypes
  <2>4. {<<Add(d, n), Remove(d, net[d])>>, <<Remove(d, net[d]), Add(d, n)>>} \in SUBSET Seq(Event)
    BY <2>3
  <2>. QED BY <2>1, <2>2, <2>4, ChangeType
<1>5. CASE BecomeGroup(d)
  <2>. DEFINE n == [net[d] EXCEPT !.group = TRUE]
  <2>1. n \in Speaker /\ Change(d, n, {<<Add(d, n)>>})
    BY <1>1, <1>5 DEF BecomeGroup
  <2>2. {<<Add(d, n)>>} \in SUBSET Seq(Event)
    BY <2>1, EventTypes
  <2>. QED BY <2>1, <2>2, ChangeType
<1>. QED BY <1>2, <1>3, <1>4, <1>5

\* A restarted browse hears of each speaker once: a finite sequence of events.
LEMMA RestartType ==
  ASSUME TypeOK, BrowserRestarts
  PROVE  TypeOK'
<1>1. PICK order \in [1..Cardinality(On) -> On] :
        events' = [i \in DOMAIN order |-> Add(order[i], net[order[i]])]
  BY DEF BrowserRestarts
<1>2. Cardinality(On) \in Nat
  BY DevicesAssumption, FS_Subset, FS_CardinalityType DEF On
<1>3. \A i \in 1..Cardinality(On) : Add(order[i], net[order[i]]) \in Event
  BY <1>1, EventTypes DEF On, TypeOK
<1>4. events' \in Seq(Event)
  BY <1>1, <1>2, <1>3
<1>. QED BY <1>4 DEF TypeOK, BrowserRestarts, registry, network

LEMMA BrowseType ==
  ASSUME TypeOK, Browse \/ LookupFails \/ BrowserExits
  PROVE  TypeOK'
<1>1. Reading => Head(events) \in Event /\ Tail(events) \in Seq(Event)
  BY TailType DEF Reading, TypeOK
<1>2. CASE StartLookup
  <2>1. lookup' \in [dev: {{d} : d \in Devices}, ver: Versions]
    BY <1>1, <1>2 DEF StartLookup, Event
  <2>. QED BY <1>1, <1>2, <2>1 DEF StartLookup, TypeOK, registry, network
<1>3. CASE LookupAnswers
  <2>1. PICK d \in lookup.dev : Classify(d, lookup.ver, net[d].group)
    BY <1>3 DEF LookupAnswers
  <2>2. d \in Devices /\ lookup.ver \in Versions
    BY <2>1 DEF TypeOK, NoLookup
  <2>. QED BY <1>3, <2>1, <2>2, ClassifyType DEF LookupAnswers, TypeOK, network
<1>4. CASE ServiceResolved
  <2>1. Head(events).dev \in Devices /\ Head(events).ver \in Versions
    BY <1>1, <1>4 DEF ServiceResolved, Event
  <2>. QED BY <1>1, <1>4, <2>1, ClassifyType DEF ServiceResolved, TypeOK, network
<1>5. CASE ReadRemove
  <2>1. Head(events).dev \in Devices
    BY <1>1, <1>5 DEF ReadRemove, Event
  <2>2. MarkPendingLeave(Head(events).dev) \/ UNCHANGED <<registry, lost>>
    BY <1>5 DEF ReadRemove, LeaveByInstance
  <2>3. /\ entries' \in [Devices -> Entry \union {NoEntry}]
        /\ cancellations' \subseteq Devices /\ lost' \in [Devices -> BOOLEAN]
    BY <2>1, <2>2, MarkType DEF TypeOK, registry
  <2>. QED BY <1>1, <1>5, <2>3 DEF ReadRemove, TypeOK, network
<1>6. CASE LookupFails
  BY <1>6, BoundsAssumption DEF LookupFails, TypeOK, registry, network, NoLookup
<1>7. CASE BrowserExits
  <2>1. restarts' \in 0..MaxRestarts
    BY <1>7, BoundsAssumption DEF BrowserExits, TypeOK
  <2>2. events' \in Seq(Event)
    BY <1>7 DEF BrowserExits
  <2>. QED BY <1>7, <2>1, <2>2 DEF BrowserExits, TypeOK, registry, network
<1>. QED BY <1>2, <1>3, <1>4, <1>5, <1>6, <1>7, RestartType DEF Browse

LEMMA MaintainType ==
  ASSUME TypeOK, TakeDueLeaves \/ ExpireStale \/ DrainCancellations \/ Tick
  PROVE  TypeOK'
<1>1. entries' \in [Devices -> Entry \union {NoEntry}]
  <2>1. CASE Tick
    <3>1. \A d \in Devices : Present(d) => Older(entries[d]) \in Entry
      BY OlderType DEF TypeOK, Present
    <3>. QED BY <2>1, <3>1 DEF Tick
  <2>2. ASSUME NEW gone, entries' = Without(gone)
        PROVE  entries' \in [Devices -> Entry \union {NoEntry}]
    BY <2>2, WithoutType
  <2>3. CASE TakeDueLeaves
    BY <2>2, <2>3 DEF TakeDueLeaves
  <2>4. CASE ExpireStale
    BY <2>2, <2>4 DEF ExpireStale
  <2>5. CASE DrainCancellations
    BY <2>5 DEF DrainCancellations, TypeOK
  <2>. QED BY <2>1, <2>3, <2>4, <2>5
<1>2. cancellations' \subseteq Devices /\ lost' \in [Devices -> BOOLEAN]
  BY DEF TypeOK, TakeDueLeaves, ExpireStale, DrainCancellations, Tick
<1>. QED BY <1>1, <1>2 DEF TypeOK, TakeDueLeaves, ExpireStale, DrainCancellations, Tick, network, thread

\* Every variable keeps its type: the clocks stay in range, events and lookups well formed.
THEOREM TypeCorrect == Spec => []TypeOK
<1>1. TypeOK /\ [Next]_vars => TypeOK'
  <2>. SUFFICES ASSUME TypeOK, [Next]_vars PROVE TypeOK'
    OBVIOUS
  <2>1. CASE UNCHANGED vars
    BY <2>1 DEF vars, TypeOK
  <2>2. CASE Next
    BY <2>2, NetworkType, BrowseType, MaintainType DEF Next
  <2>. QED BY <2>1, <2>2
<1>. QED BY <1>1, TypeInit, PTL DEF Spec

-----------------------------------------------------------------------------
(***************************************************************************)
(* The mapping: each operation on the clocked registry is one on Registry. *)
(***************************************************************************)
LEMMA MappedAppear ==
  ASSUME TypeOK, NEW d \in Devices, NEW v \in Versions, Appear(d, v)
  PROVE  R!Appear(d, v)
<1>1. Phase([ver |-> v, age |-> 0, wait |-> NoWait]) = R!Fresh(v)
  BY ClockAssumption, BoundsAssumption DEF Phase, NoEntry, Versions, R!Fresh
<1>2. Mapped' = [Mapped EXCEPT ![d] = R!Fresh(v)]
  BY <1>1 DEF Mapped, Appear, TypeOK
<1>3. Leaving(d) <=> Mapped[d].leave # "no"
  BY DEF Mapped, Leaving, Phase, NoEntry, NoWait
<1>. QED BY <1>2, <1>3 DEF R!Appear, R!Leaving, Mapped, Appear

LEMMA MappedLeave ==
  ASSUME TypeOK, NEW d \in Devices, Leave(d)
  PROVE  R!Leave(d) \/ (Mapped' = Mapped /\ cancellations' = cancellations)
<1>1. CASE Present(d)
  <2>1. Mapped[d] # R!Absent
    BY <1>1, BoundsAssumption DEF Mapped, TypeOK, Present, Entry, Phase, Versions, NoEntry, R!Absent
  <2>2. Mapped' = [Mapped EXCEPT ![d] = R!Absent]
    BY DEF Mapped, Leave, TypeOK, Phase, R!Absent
  <2>. QED BY <2>1, <2>2 DEF R!Leave, R!Registered, Mapped, Leave
<1>2. CASE ~Present(d)
  BY <1>2 DEF Mapped, Leave, TypeOK, Present
<1>. QED BY <1>1, <1>2

\* A mark within the grace leaves its deadline alone.
LEMMA MappedMark ==
  ASSUME TypeOK, NEW d \in Devices, MarkPendingLeave(d)
  PROVE  R!MarkPendingLeave(d) \/ (Mapped' = Mapped /\ cancellations' = cancellations)
<1>1. CASE Present(d) /\ ~Leaving(d)
  <2>. DEFINE e == entries[d]
  <2>1. e \in Entry /\ e # NoEntry
    BY <1>1 DEF TypeOK, Present
  <2>2. [e EXCEPT !.wait = Grace] # NoEntry
    BY <2>1, BoundsAssumption DEF Entry, NoEntry, Versions
  <2>3. Phase([e EXCEPT !.wait = Grace]) = [Phase(e) EXCEPT !.leave = "pending"]
    BY <2>1, <2>2, ClockAssumption DEF Phase, Entry, NoWait
  <2>4. Mapped' = [Mapped EXCEPT ![d].leave = "pending"]
    BY <1>1, <2>3 DEF Mapped, MarkPendingLeave, TypeOK
  <2>5. Mapped[d] # R!Absent /\ Mapped[d].leave = "no"
    BY <1>1, <2>1, BoundsAssumption DEF Mapped, Phase, Leaving, Entry, Versions, R!Absent
  <2>. QED BY <2>4, <2>5 DEF R!MarkPendingLeave, R!Registered, R!Leaving, Mapped, MarkPendingLeave
<1>2. CASE ~(Present(d) /\ ~Leaving(d))
  <2>1. entries' = entries
    BY <1>2 DEF MarkPendingLeave, TypeOK, Entry, NoEntry
  <2>. QED BY <2>1 DEF Mapped, MarkPendingLeave
<1>. QED BY <1>1, <1>2

LEMMA MappedWithout ==
  ASSUME TypeOK, NEW gone, entries' = Without(gone)
  PROVE  Mapped' = R!Without(gone)
BY DEF Mapped, Without, Phase, R!Without, R!Absent

LEMMA MappedTake ==
  ASSUME TypeOK, TakeDueLeaves
  PROVE  R!TakeDueLeaves
<1>1. DueLeaves = R!DueLeaves
  <2>1. \A d \in Devices : PendingLeaveIsDue(d) <=> Mapped[d].leave = "due"
    BY DEF PendingLeaveIsDue, Mapped, Phase, NoEntry, NoWait
  <2>. QED BY <2>1 DEF DueLeaves, R!DueLeaves, Mapped
<1>. QED BY <1>1, MappedWithout DEF TakeDueLeaves, R!TakeDueLeaves, Mapped

LEMMA MappedExpire ==
  ASSUME TypeOK, ExpireStale
  PROVE  \E keep \in SUBSET Devices : R!ExpireStale(keep)
<1>1. PICK keep \in SUBSET Devices : entries' = Without(Stale \ keep)
  BY DEF ExpireStale
<1>2. Stale = R!Stale
  <2>1. \A d \in Devices : /\ entries[d].age > Ttl <=> Mapped[d].seen = "stale"
                           /\ Leaving(d) <=> Mapped[d].leave # "no"
    BY ClockAssumption DEF Mapped, Phase, NoEntry, NoWait, Leaving
  <2>. QED BY <2>1 DEF Stale, R!Stale, R!Leaving, Mapped
<1>. QED BY <1>1, <1>2, MappedWithout DEF ExpireStale, R!ExpireStale, Mapped

\* A tick lets graces of one tick run out and sightings of Ttl ticks grow old.
LEMMA MappedTick ==
  ASSUME TypeOK, Tick
  PROVE  \E due, old \in SUBSET Devices : R!Pass(due, old)
<1>. DEFINE due == {d \in Devices : entries[d].wait = 1}
            old == {d \in Devices : Present(d) /\ entries[d].age = Ttl}
            after(d) == [ver   |-> Mapped[d].ver,
                         leave |-> IF d \in due THEN "due" ELSE Mapped[d].leave,
                         seen  |-> IF d \in old THEN "stale" ELSE Mapped[d].seen]
<1>1. ASSUME NEW d \in Devices PROVE Mapped'[d] = after(d)
  <2>1. CASE Present(d)
    <3>. DEFINE e == entries[d]
    <3>1. e \in Entry /\ e # NoEntry
      BY <2>1 DEF TypeOK, Present
    <3>2. e.ver # 0 /\ e.age \in 0..(Ttl + 1) /\ e.wait \in {-1} \union 0..Grace
      BY <3>1, BoundsAssumption DEF Entry, Versions, NoWait
    <3>3. Older(e) # NoEntry
      BY <3>2 DEF Older, NoEntry
    <3>4. Mapped'[d] = Phase(Older(e))
      BY <2>1 DEF Tick, Mapped
    <3>. QED BY <2>1, <3>1, <3>2, <3>3, <3>4, ClockAssumption DEF Phase, Older, Mapped, NoWait
  <2>2. CASE ~Present(d)
    BY <2>2, ClockAssumption DEF Tick, Mapped, Phase, Present, NoEntry, NoWait
  <2>. QED BY <2>1, <2>2
<1>2. Mapped' = [d \in Devices |-> after(d)]
  BY <1>1 DEF Mapped
<1>3. \A d \in due : Mapped[d].leave = "pending"
  BY DEF Mapped, Phase, NoEntry, NoWait
<1>4. \A d \in old : Mapped[d] # R!Absent /\ Mapped[d].seen = "fresh"
  BY ClockAssumption, BoundsAssumption DEF Mapped, Phase, Present, TypeOK, Entry, Versions, R!Absent
<1>5. R!Pass(due, old)
  BY <1>2, <1>3, <1>4 DEF R!Pass, R!Registered, Mapped, Tick
<1>6. due \in SUBSET Devices /\ old \in SUBSET Devices
  OBVIOUS
<1>. HIDE DEF due, old
<1>. QED BY <1>5, <1>6

-----------------------------------------------------------------------------
(***************************************************************************)
(* Refinement.                                                             *)
(***************************************************************************)
LEMMA InitMaps == Init => R!Init
BY DEF Init, R!Init, Phase, R!Absent

LEMMA StepMaps ==
  ASSUME TypeOK, [Next]_vars
  PROVE  R!Next \/ (Mapped' = Mapped /\ cancellations' = cancellations)
<1>1. CASE UNCHANGED <<entries, cancellations>>
  BY <1>1 DEF Mapped
<1>2. ASSUME NEW d \in Devices, NEW v \in Versions, NEW g, Classify(d, v, g)
      PROVE  R!Next \/ (Mapped' = Mapped /\ cancellations' = cancellations)
  BY <1>2, MappedAppear, MappedLeave DEF Classify, R!Next
<1>3. CASE LookupAnswers
  <2>1. PICK d \in lookup.dev : Classify(d, lookup.ver, net[d].group)
    BY <1>3 DEF LookupAnswers
  <2>2. d \in Devices /\ lookup.ver \in Versions
    BY <2>1 DEF TypeOK, NoLookup
  <2>. QED BY <1>2, <2>1, <2>2
<1>4. CASE ServiceResolved
  <2>1. Head(events) \in Event
    BY <1>4, TailType DEF ServiceResolved, Reading, TypeOK
  <2>2. Head(events).dev \in Devices /\ Head(events).ver \in Versions
    BY <2>1 DEF Event
  <2>. QED BY <1>2, <1>4, <2>2 DEF ServiceResolved
<1>5. CASE ReadRemove
  <2>1. Head(events) \in Event
    BY <1>5, TailType DEF ReadRemove, Reading, TypeOK
  <2>2. MarkPendingLeave(Head(events).dev) \/ UNCHANGED <<entries, cancellations>>
    BY <1>5 DEF ReadRemove, LeaveByInstance, registry
  <2>3. Head(events).dev \in Devices
    BY <2>1 DEF Event
  <2>. QED BY <1>1, <2>2, <2>3, MappedMark DEF R!Next
<1>6. CASE TakeDueLeaves
  BY <1>6, MappedTake DEF R!Next
<1>7. CASE ExpireStale
  BY <1>7, MappedExpire DEF R!Next
<1>8. CASE Tick
  BY <1>8, MappedTick DEF R!Next
<1>9. CASE DrainCancellations
  <2>1. Mapped' = Mapped /\ cancellations' = {}
    BY <1>9 DEF DrainCancellations, Mapped
  <2>. QED BY <2>1 DEF R!Next, R!DrainCancellations, Mapped
<1>10. \/ UNCHANGED <<entries, cancellations>> \/ LookupAnswers \/ ServiceResolved \/ ReadRemove
       \/ TakeDueLeaves \/ ExpireStale \/ Tick \/ DrainCancellations
  BY DEF Next, vars, TurnOn, TurnOff, Rename, BecomeGroup, Change, Browse, StartLookup, BrowserRestarts,
         LookupFails, BrowserExits, registry
<1>. QED BY <1>1, <1>3, <1>4, <1>5, <1>6, <1>7, <1>8, <1>9, <1>10

\* Discovery, its clocks and the maintain loop's reads implement Registry.
THEOREM Refinement == Spec => RegistryPromise
<1>1. TypeOK /\ [Next]_vars => [R!Next]_(R!registryVars)
  <2>. SUFFICES ASSUME TypeOK, [Next]_vars PROVE [R!Next]_(R!registryVars)
    OBVIOUS
  <2>1. R!Next \/ (Mapped' = Mapped /\ cancellations' = cancellations)
    BY StepMaps
  <2>. QED BY <2>1 DEF R!registryVars, Mapped
<1>. QED BY <1>1, InitMaps, TypeCorrect, PTL DEF Spec, RegistryPromise, R!Spec

-----------------------------------------------------------------------------
(***************************************************************************)
(* What is left to read leads to the truth.  SettledIsTrue speaks of the   *)
(* moments when all is read; the invariant says of every moment that the   *)
(* last event about a speaker that is still to be read is its present      *)
(* record, and that whatever comes after it does no harm.                  *)
(***************************************************************************)
\* The Add e tells, on the backend s, that d is n; e does not tell otherwise.
RightAdd(e, d, n, s) ==
  /\ e.kind = "add" /\ e.dev = d /\ e.ver = n.ver
  /\ s = "linux" => e.group = n.group
Harmless(e, d, n, s) ==
  e.dev = d => RightAdd(e, d, n, s) \/ (e.kind = "remove" /\ e.ver # n.ver)

Announced(d) ==
  \E i \in 1..Len(events) :
    /\ RightAdd(events[i], d, net[d], os)
    /\ \A j \in 1..Len(events) : j > i => Harmless(events[j], d, net[d], os)
Clean(d)   == \A j \in 1..Len(events) : Harmless(events[j], d, net[d], os)
Settled(d) == IF net[d].group THEN ~Present(d)
              ELSE entries[d].ver = net[d].ver /\ ~Leaving(d)
\* What the lookup under way or the registry has is the truth.
Told(d)    == IF d \in lookup.dev THEN lookup.ver = net[d].ver ELSE Settled(d)
Heard(d)   == Announced(d) \/ (Clean(d) /\ Told(d))
Awaited(d) == browser /\ net[d].on /\ ~lost[d]

SightingInv == \A d \in Devices : Awaited(d) => Heard(d)

\* The head of the queue was not d's last Add, or its reading made it true.
LEMMA ReadHead ==
  ASSUME TypeOK, NEW d \in Devices, Heard(d), events # <<>>,
         events' = Tail(events), net' = net, os' = os,
         RightAdd(Head(events), d, net[d], os) => Told(d)',
         (Harmless(Head(events), d, net[d], os) /\ Told(d)) => Told(d)'
  PROVE  Heard(d)'
<1>1. /\ Len(events) \in Nat \ {0} /\ Len(events') = Len(events) - 1
      /\ \A j \in 1..Len(events') : events'[j] = events[j + 1]
  BY DEF TypeOK
<1>2. Head(events) = events[1]
  BY DEF TypeOK
<1>3. CASE Clean(d) /\ Told(d)
  <2>1. Clean(d)'
    BY <1>1, <1>3 DEF Clean
  <2>2. Harmless(Head(events), d, net[d], os)
    BY <1>1, <1>2, <1>3 DEF Clean
  <2>. QED BY <1>3, <2>1, <2>2 DEF Heard
<1>4. CASE Announced(d)
  <2>1. PICK i \in 1..Len(events) :
          /\ RightAdd(events[i], d, net[d], os)
          /\ \A j \in 1..Len(events) : j > i => Harmless(events[j], d, net[d], os)
    BY <1>4 DEF Announced
  <2>2. CASE i = 1
    <3>1. Told(d)'
      BY <1>2, <2>1, <2>2
    <3>2. Clean(d)'
      BY <1>1, <2>1, <2>2 DEF Clean
    <3>. QED BY <3>1, <3>2 DEF Heard
  <2>3. CASE i # 1
    <3>1. i - 1 \in 1..Len(events') /\ RightAdd(events'[i - 1], d, net[d], os)
      BY <1>1, <2>1, <2>3
    <3>2. \A j \in 1..Len(events') : j > i - 1 => Harmless(events'[j], d, net[d], os)
      BY <1>1, <2>1, <2>3
    <3>3. Announced(d)'
      BY <3>1, <3>2 DEF Announced
    <3>. QED BY <3>3 DEF Heard
  <2>. QED BY <2>2, <2>3
<1>. QED BY <1>3, <1>4 DEF Heard

\* News of d that ends with its present record.
LEMMA NewsOfItself ==
  ASSUME TypeOK, NEW d \in Devices, NEW news \in Seq(Event), NEW k \in 1..Len(news),
         events' = events \o news, RightAdd(news[k], d, net'[d], os'),
         \A j \in 1..Len(news) : j > k => Harmless(news[j], d, net'[d], os')
  PROVE  Heard(d)'
<1>1. /\ Len(events) \in Nat /\ Len(news) \in Nat /\ Len(events') = Len(events) + Len(news)
      /\ \A j \in 1..Len(news) : events'[Len(events) + j] = news[j]
  BY DEF TypeOK
<1>2. Len(events) + k \in 1..Len(events') /\ RightAdd(events'[Len(events) + k], d, net'[d], os')
  BY <1>1
<1>3. ASSUME NEW j \in 1..Len(events'), j > Len(events) + k
      PROVE  Harmless(events'[j], d, net'[d], os')
  <2>1. j - Len(events) \in 1..Len(news) /\ j - Len(events) > k
    BY <1>1, <1>3
  <2>2. events'[j] = news[j - Len(events)]
    BY <1>1, <2>1
  <2>. QED BY <2>1, <2>2
<1>4. Announced(d)'
  BY <1>2, <1>3 DEF Announced
<1>. QED BY <1>4 DEF Heard

\* News of another speaker.
LEMMA NewsOfOthers ==
  ASSUME TypeOK, NEW d \in Devices, Heard(d), NEW news \in Seq(Event),
         events' = events \o news, \A j \in 1..Len(news) : news[j].dev # d,
         net'[d] = net[d], UNCHANGED <<os, lookup, entries>>
  PROVE  Heard(d)'
<1>1. /\ Len(events) \in Nat /\ Len(news) \in Nat /\ Len(events') = Len(events) + Len(news)
      /\ \A j \in 1..Len(events) : events'[j] = events[j]
      /\ \A j \in 1..Len(events') : j > Len(events) => events'[j] = news[j - Len(events)]
  BY DEF TypeOK
<1>2. Told(d) <=> Told(d)'
  BY DEF Told, Settled, Present, Leaving
<1>3. \A j \in 1..Len(events') : j > Len(events) => Harmless(events'[j], d, net[d], os)
  BY <1>1 DEF Harmless
<1>4. CASE Clean(d) /\ Told(d)
  <2>1. \A j \in 1..Len(events) : Harmless(events'[j], d, net[d], os)
    BY <1>1, <1>4 DEF Clean
  <2>2. \A j \in 1..Len(events') : j <= Len(events) \/ j > Len(events)
    BY <1>1
  <2>3. \A j \in 1..Len(events') : Harmless(events'[j], d, net[d], os)
    BY <1>1, <1>3, <2>1, <2>2
  <2>4. Clean(d)'
    BY <2>3 DEF Clean
  <2>. QED BY <1>2, <1>4, <2>4 DEF Heard
<1>5. CASE Announced(d)
  <2>1. PICK i \in 1..Len(events) :
          /\ RightAdd(events[i], d, net[d], os)
          /\ \A j \in 1..Len(events) : j > i => Harmless(events[j], d, net[d], os)
    BY <1>5 DEF Announced
  <2>2. i \in 1..Len(events') /\ RightAdd(events'[i], d, net'[d], os')
    BY <1>1, <2>1
  <2>3. ASSUME NEW j \in 1..Len(events'), j > i
        PROVE  Harmless(events'[j], d, net'[d], os')
    <3>1. CASE j > Len(events)
      BY <1>3, <3>1
    <3>2. CASE ~(j > Len(events))
      <4>1. j \in 1..Len(events)
        BY <1>1, <3>2
      <4>. QED BY <1>1, <2>1, <2>3, <4>1
    <3>. QED BY <3>1, <3>2
  <2>4. Announced(d)'
    BY <2>2, <2>3 DEF Announced
  <2>. QED BY <2>4 DEF Heard
<1>. QED BY <1>4, <1>5 DEF Heard

LEMMA ChangeHeard ==
  ASSUME TypeOK, SightingInv, NEW c \in Devices, NEW n, NEW heard \in SUBSET Seq(Event),
         Change(c, n, heard), NEW d \in Devices, d # c, Awaited(d)',
         \A news \in heard : \A j \in 1..Len(news) : news[j].dev = c
  PROVE  Heard(d)'
<1>1. PICK news \in heard :
        /\ events' = IF browser THEN events \o news ELSE events
        /\ lost' = [lost EXCEPT ![c] = @ /\ \A i \in DOMAIN news : news[i].kind # "add"]
  BY DEF Change
<1>2. Awaited(d) /\ events' = events \o news
  BY <1>1 DEF Awaited, Change, TypeOK
<1>3. Heard(d)
  BY <1>2 DEF SightingInv
<1>4. net'[d] = net[d] /\ UNCHANGED <<os, lookup, entries>>
  BY DEF Change, TypeOK, registry
<1>. QED BY <1>1, <1>2, <1>3, <1>4, NewsOfOthers

\* A speaker that changes is announced with its present record.
LEMMA ChangeTells ==
  ASSUME TypeOK, NEW d \in Devices, NEW n, NEW heard, Change(d, n, heard), Awaited(d)',
         \A news \in heard : /\ news \in Seq(Event)
                             /\ \E k \in 1..Len(news) :
                                  /\ RightAdd(news[k], d, n, os)
                                  /\ \A j \in 1..Len(news) : j > k => Harmless(news[j], d, n, os)
  PROVE  Heard(d)'
<1>1. PICK news \in heard : events' = IF browser THEN events \o news ELSE events
  BY DEF Change
<1>2. events' = events \o news
  BY <1>1 DEF Awaited, Change
<1>3. net'[d] = n /\ os' = os
  BY DEF Change, TypeOK
<1>4. PICK k \in 1..Len(news) :
        /\ RightAdd(news[k], d, n, os)
        /\ \A j \in 1..Len(news) : j > k => Harmless(news[j], d, n, os)
  BY <1>1
<1>. QED BY <1>1, <1>2, <1>3, <1>4, NewsOfItself

LEMMA NetworkHeard ==
  ASSUME TypeOK, SightingInv, NEW c \in Devices, TurnOn(c) \/ TurnOff(c) \/ Rename(c) \/ BecomeGroup(c),
         NEW d \in Devices, Awaited(d)'
  PROVE  Heard(d)'
<1>. DEFINE Speaker == [on: BOOLEAN, ver: Versions, group: BOOLEAN]
<1>1. net[c] \in Speaker
  BY DEF TypeOK
<1>2. ASSUME NEW n \in Speaker, Change(c, n, {<<Add(c, n)>>})
      PROVE  Heard(d)'
  <2>1. Add(c, n) \in Event /\ Add(c, n).dev = c /\ RightAdd(Add(c, n), c, n, os)
    BY EventTypes DEF Add, RightAdd
  <2>. DEFINE e == Add(c, n)
              heard == {<<e>>}
  <2>. HIDE DEF e
  <2>2. <<e>> \in Seq(Event) /\ Len(<<e>>) = 1 /\ <<e>>[1] = e
    BY <2>1 DEF e
  <2>3. CASE d = c
    <3>1. /\ 1 \in 1..Len(<<e>>) /\ RightAdd(<<e>>[1], d, n, os)
          /\ \A j \in 1..Len(<<e>>) : j > 1 => Harmless(<<e>>[j], d, n, os)
      BY <2>1, <2>2, <2>3 DEF e
    <3>2. \A news \in heard :
            /\ news \in Seq(Event)
            /\ \E k \in 1..Len(news) :
                 /\ RightAdd(news[k], d, n, os)
                 /\ \A j \in 1..Len(news) : j > k => Harmless(news[j], d, n, os)
      BY <2>2, <3>1
    <3>3. Change(d, n, heard)
      BY <1>2, <2>3 DEF e
    <3>. HIDE DEF heard
    <3>. QED BY <3>2, <3>3, ChangeTells
  <2>4. CASE d # c
    <3>1. e.dev = c
      BY <2>1 DEF e
    <3>2. \A news \in heard : \A j \in 1..Len(news) : news[j].dev = c
      BY <2>2, <3>1
    <3>3. Change(c, n, heard) /\ heard \in SUBSET Seq(Event)
      BY <1>2, <2>2 DEF e
    <3>. HIDE DEF heard
    <3>. QED BY <2>4, <3>2, <3>3, ChangeHeard
  <2>. QED BY <2>3, <2>4
<1>3. CASE TurnOn(c)
  <2>. DEFINE n == [net[c] EXCEPT !.on = TRUE]
  <2>1. n \in Speaker /\ Change(c, n, {<<Add(c, n)>>})
    BY <1>1, <1>3 DEF TurnOn
  <2>. HIDE DEF n
  <2>. QED BY <1>2, <2>1
<1>4. CASE BecomeGroup(c)
  <2>. DEFINE n == [net[c] EXCEPT !.group = TRUE]
  <2>1. n \in Speaker /\ Change(c, n, {<<Add(c, n)>>})
    BY <1>1, <1>4 DEF BecomeGroup
  <2>. HIDE DEF n
  <2>. QED BY <1>2, <2>1
<1>5. CASE TurnOff(c)
  <2>. DEFINE n == [net[c] EXCEPT !.on = FALSE]
  <2>1. n \in Speaker /\ n.on = FALSE /\ Change(c, n, {<<Remove(c, n)>>, <<>>})
    BY <1>1, <1>5 DEF TurnOff
  <2>. DEFINE e == Remove(c, n)
  <2>2. e \in Event /\ e.dev = c
    BY <2>1, EventTypes DEF Remove
  <2>. HIDE DEF n, e
  <2>3. d # c
    BY <2>1 DEF Awaited, Change, TypeOK
  <2>4. \A news \in {<<e>>, <<>>} : \A j \in 1..Len(news) : news[j].dev = c
    BY <2>2
  <2>5. {<<e>>, <<>>} \in SUBSET Seq(Event)
    BY <2>2
  <2>. QED BY <2>1, <2>3, <2>4, <2>5, ChangeHeard DEF e
<1>6. CASE Rename(c)
  <2>. DEFINE n == [net[c] EXCEPT !.ver = @ + 1]
              e == Add(c, n)
              r == Remove(c, net[c])
              heard == {<<e, r>>, <<r, e>>}
  <2>1. n \in Speaker /\ n.ver # net[c].ver /\ Change(c, n, {<<e, r>>, <<r, e>>})
    BY <1>1, <1>6, BoundsAssumption DEF Rename, Versions
  <2>2. e \in Event /\ e.dev = c /\ RightAdd(e, c, n, os)
    BY <2>1, EventTypes DEF Add, RightAdd
  <2>3. r \in Event /\ r.dev = c /\ Harmless(r, c, n, os)
    BY <1>1, <2>1, EventTypes DEF Remove, Harmless
  <2>. HIDE DEF n, e, r
  <2>4. <<e, r>> \in Seq(Event) /\ <<r, e>> \in Seq(Event)
    BY <2>2, <2>3
  <2>5. CASE d = c
    <3>1. /\ 1 \in 1..Len(<<e, r>>) /\ RightAdd(<<e, r>>[1], d, n, os)
          /\ \A j \in 1..Len(<<e, r>>) : j > 1 => Harmless(<<e, r>>[j], d, n, os)
      BY <2>2, <2>3, <2>5
    <3>2. /\ 2 \in 1..Len(<<r, e>>) /\ RightAdd(<<r, e>>[2], d, n, os)
          /\ \A j \in 1..Len(<<r, e>>) : j > 2 => Harmless(<<r, e>>[j], d, n, os)
      BY <2>2, <2>3, <2>5
    <3>3. \A news \in heard :
            /\ news \in Seq(Event)
            /\ \E k \in 1..Len(news) :
                 /\ RightAdd(news[k], d, n, os)
                 /\ \A j \in 1..Len(news) : j > k => Harmless(news[j], d, n, os)
      BY <2>4, <3>1, <3>2
    <3>4. Change(d, n, heard)
      BY <2>1, <2>5
    <3>. HIDE DEF heard
    <3>. QED BY <3>3, <3>4, ChangeTells
  <2>6. CASE d # c
    <3>1. \A news \in heard : \A j \in 1..Len(news) : news[j].dev = c
      BY <2>2, <2>3
    <3>2. Change(c, n, heard) /\ heard \in SUBSET Seq(Event)
      BY <2>1, <2>4
    <3>. HIDE DEF heard
    <3>. QED BY <2>6, <3>1, <3>2, ChangeHeard
  <2>. QED BY <2>5, <2>6
<1>. QED BY <1>3, <1>4, <1>5, <1>6

\* The registry's operations make a speaker known under the given identity, or keep it out.
LEMMA ClassifySettles ==
  ASSUME TypeOK, NEW d \in Devices, net' = net, Classify(d, net[d].ver, net[d].group)
  PROVE  Settled(d)'
BY DEF TypeOK, Classify, Leave, Appear, Settled, Present, Leaving, NoEntry, NoWait

LEMMA ClassifyKeeps ==
  ASSUME TypeOK, NEW d \in Devices, NEW c \in Devices, d # c, net' = net, NEW v, NEW g, Classify(c, v, g)
  PROVE  Settled(d) <=> Settled(d)'
BY DEF TypeOK, Classify, Leave, Appear, Settled, Present, Leaving

LEMMA MarkKeeps ==
  ASSUME TypeOK, NEW d \in Devices, NEW c \in Devices, net' = net, MarkPendingLeave(c),
         d # c \/ ~Present(d), Settled(d)
  PROVE  Settled(d)'
<1>1. entries'[d] = entries[d]
  <2>1. CASE d # c
    BY <2>1 DEF TypeOK, MarkPendingLeave
  <2>2. CASE d = c
    <3>1. entries[d] = NoEntry
      BY <2>2 DEF Present
    <3>2. entries'[d] = [NoEntry EXCEPT !.wait = @]
      BY <2>2, <3>1 DEF TypeOK, MarkPendingLeave, Present
    <3>. QED BY <3>1, <3>2 DEF NoEntry
  <2>. QED BY <2>1, <2>2
<1>. QED BY <1>1 DEF Settled, Present, Leaving

LEMMA BrowseHeard ==
  ASSUME TypeOK, SightingInv, Browse \/ LookupFails \/ BrowserExits, NEW d \in Devices, Awaited(d)'
  PROVE  Heard(d)'
<1>1. Reading => Head(events) \in Event /\ lookup.dev = {} /\ events # <<>>
  BY TailType DEF Reading, TypeOK, NoLookup
<1>2. CASE StartLookup
  <2>1. Heard(d)
    BY <1>2 DEF StartLookup, Awaited, SightingInv, network
  <2>2. net' = net /\ os' = os /\ events' = Tail(events) /\ UNCHANGED entries
    BY <1>2 DEF StartLookup, network, registry
  <2>3. RightAdd(Head(events), d, net[d], os) => Told(d)'
    BY <1>2, <2>2 DEF StartLookup, RightAdd, Told
  <2>4. Harmless(Head(events), d, net[d], os) /\ Told(d) => Told(d)'
    <3>1. Head(events).dev # d \/ ~Harmless(Head(events), d, net[d], os) \/ RightAdd(Head(events), d, net[d], os)
      BY <1>2 DEF StartLookup, Harmless
    <3>2. Head(events).dev # d /\ Told(d) => Told(d)'
      BY <1>1, <1>2, <2>2 DEF StartLookup, Told, Settled, Present, Leaving
    <3>. QED BY <2>3, <3>1, <3>2
  <2>. QED BY <1>1, <1>2, <2>1, <2>2, <2>3, <2>4, ReadHead DEF StartLookup
<1>3. CASE LookupAnswers
  <2>1. PICK c \in lookup.dev : Classify(c, lookup.ver, net[c].group)
    BY <1>3 DEF LookupAnswers
  <2>2. c \in Devices /\ lookup.dev = {c} /\ lookup'.dev = {}
    BY <1>3, <2>1 DEF LookupAnswers, TypeOK, NoLookup
  <2>3. Heard(d) /\ net' = net /\ os' = os /\ events' = events
    BY <1>3, <2>1 DEF LookupAnswers, Classify, Leave, Appear, Awaited, SightingInv, network
  <2>4. Told(d) => Told(d)'
    <3>1. CASE d = c
      BY <2>1, <2>2, <2>3, <3>1, ClassifySettles DEF Told
    <3>2. CASE d # c
      BY <2>1, <2>2, <2>3, <3>2, ClassifyKeeps DEF Told
    <3>. QED BY <3>1, <3>2
  <2>. QED BY <2>3, <2>4 DEF Heard, Announced, Clean
<1>4. CASE ServiceResolved
  <2>. DEFINE e == Head(events)
  <2>1. /\ Heard(d) /\ net' = net /\ os' = os /\ events' = Tail(events) /\ lookup' = lookup
        /\ e.dev \in Devices /\ Classify(e.dev, e.ver, e.group)
    BY <1>1, <1>4 DEF ServiceResolved, Classify, Leave, Appear, Awaited, SightingInv, network, Event
  <2>2. RightAdd(e, d, net[d], os) => Told(d)'
    <3>1. RightAdd(e, d, net[d], os) => Classify(d, net[d].ver, net[d].group)
      BY <1>4, <2>1 DEF RightAdd, ServiceResolved
    <3>. QED BY <1>1, <1>4, <2>1, <3>1, ClassifySettles DEF Told, ServiceResolved
  <2>3. Harmless(e, d, net[d], os) /\ Told(d) => Told(d)'
    <3>1. e.dev # d \/ ~Harmless(e, d, net[d], os) \/ RightAdd(e, d, net[d], os)
      BY <1>4 DEF ServiceResolved, Harmless
    <3>2. e.dev # d /\ Told(d) => Told(d)'
      BY <1>1, <1>4, <2>1, ClassifyKeeps DEF Told, ServiceResolved
    <3>. QED BY <2>2, <3>1, <3>2
  <2>. QED BY <1>1, <1>4, <2>1, <2>2, <2>3, ReadHead DEF ServiceResolved
<1>5. CASE ReadRemove
  <2>. DEFINE e == Head(events)
  <2>1. /\ Heard(d) /\ net' = net /\ os' = os /\ events' = Tail(events) /\ lookup' = lookup
        /\ e.dev \in Devices /\ e.kind = "remove" /\ lookup.dev = {}
    BY <1>1, <1>5 DEF ReadRemove, LeaveByInstance, MarkPendingLeave, Awaited, SightingInv, network, Event, Reading
  <2>2. ~RightAdd(e, d, net[d], os)
    BY <2>1 DEF RightAdd
  <2>3. ASSUME Harmless(e, d, net[d], os), Settled(d)
        PROVE  Settled(d)'
    <3>1. CASE UNCHANGED entries
      BY <2>1, <2>3, <3>1 DEF Settled, Present, Leaving
    <3>2. CASE MarkPendingLeave(e.dev) /\ Matches(e)
      <4>1. e.dev = d => e.ver # net[d].ver
        BY <2>2, <2>3 DEF Harmless
      <4>2. d # e.dev \/ ~Present(d)
        BY <2>3, <3>2, <4>1 DEF Settled, Matches
      <4>. QED BY <2>1, <2>3, <3>2, <4>2, MarkKeeps
    <3>. QED BY <1>5, <3>1, <3>2 DEF ReadRemove, LeaveByInstance, registry
  <2>4. Harmless(e, d, net[d], os) /\ Told(d) => Told(d)'
    BY <2>1, <2>3 DEF Told
  <2>. HIDE DEF e
  <2>. QED BY <1>1, <1>5, <2>1, <2>2, <2>4, ReadHead DEF ReadRemove, e
<1>6. CASE LookupFails
  <2>1. PICK c \in lookup.dev : lookup' = NoLookup /\ lost' = [lost EXCEPT ![c] = TRUE]
    BY <1>6 DEF LookupFails
  <2>2. lookup.dev = {c} /\ d # c /\ Awaited(d)
    BY <1>6, <2>1 DEF LookupFails, TypeOK, NoLookup, Awaited, network
  <2>3. Heard(d) /\ net' = net /\ os' = os /\ events' = events /\ entries' = entries
    BY <1>6, <2>2 DEF LookupFails, SightingInv, network, registry
  <2>4. Told(d) => Told(d)'
    BY <2>1, <2>2, <2>3 DEF Told, Settled, Present, Leaving, NoLookup
  <2>. QED BY <2>3, <2>4 DEF Heard, Announced, Clean
<1>7. CASE BrowserExits
  BY <1>7 DEF BrowserExits, Awaited
<1>8. CASE BrowserRestarts
  <2>1. PICK order \in [1..Cardinality(On) -> On] :
          /\ {order[i] : i \in DOMAIN order} = On
          /\ events' = [i \in DOMAIN order |-> Add(order[i], net[order[i]])]
    BY <1>8 DEF BrowserRestarts
  <2>2. net' = net /\ os' = os /\ d \in On
    BY <1>8 DEF BrowserRestarts, network, Awaited, On
  <2>3. Cardinality(On) \in Nat
    BY DevicesAssumption, FS_Subset, FS_CardinalityType DEF On
  <2>4. /\ Len(events') = Cardinality(On)
        /\ \A i \in 1..Cardinality(On) : events'[i] = Add(order[i], net[order[i]])
    BY <2>1, <2>3
  <2>5. PICK i \in 1..Cardinality(On) : order[i] = d
    BY <2>1, <2>2
  <2>6. \A c \in On : (c = d => RightAdd(Add(c, net[c]), d, net[d], os)) /\ Harmless(Add(c, net[c]), d, net[d], os)
    BY DEF RightAdd, Harmless, Add
  <2>7. i \in 1..Len(events') /\ RightAdd(events'[i], d, net'[d], os')
    BY <2>2, <2>4, <2>5, <2>6
  <2>8. \A j \in 1..Len(events') : Harmless(events'[j], d, net'[d], os')
    BY <2>1, <2>2, <2>4, <2>6
  <2>9. Announced(d)'
    BY <2>7, <2>8 DEF Announced
  <2>. QED BY <2>9 DEF Heard
<1>. QED BY <1>2, <1>3, <1>4, <1>5, <1>6, <1>7, <1>8 DEF Browse

\* The clock and the maintain loop leave a settled entry, or call its sighting lost.
LEMMA MaintainHeard ==
  ASSUME TypeOK, SightingInv, TakeDueLeaves \/ ExpireStale \/ DrainCancellations \/ Tick,
         NEW d \in Devices, Awaited(d)'
  PROVE  Heard(d)'
<1>1. Heard(d) /\ net' = net /\ os' = os /\ events' = events /\ lookup' = lookup
  BY DEF TakeDueLeaves, ExpireStale, DrainCancellations, Tick, network, thread, Awaited, SightingInv, TypeOK
<1>2. Settled(d) => Settled(d)'
  <2>1. CASE TakeDueLeaves
    BY <1>1, <2>1 DEF TakeDueLeaves, Without, DueLeaves, PendingLeaveIsDue, Settled, Present, Leaving, NoWait
  <2>2. CASE ExpireStale
    <3>1. PICK keep : entries' = Without(Stale \ keep) /\ lost' = [c \in Devices |-> lost[c] \/ c \in Stale \ keep]
      BY <2>2 DEF ExpireStale
    <3>2. entries'[d] = entries[d]
      BY <3>1 DEF Without, Awaited
    <3>. QED BY <1>1, <3>2 DEF Settled, Present, Leaving
  <2>3. CASE DrainCancellations
    BY <1>1, <2>3 DEF DrainCancellations, Settled, Present, Leaving
  <2>4. CASE Tick
    <3>1. entries'[d] = IF Present(d) THEN Older(entries[d]) ELSE NoEntry
      BY <2>4 DEF Tick
    <3>2. ~Leaving(d) => Older(entries[d]).wait = NoWait /\ Older(entries[d]).ver = entries[d].ver
      BY DEF Older, Leaving, NoWait
    <3>. QED BY <1>1, <3>1, <3>2 DEF Settled, Present, Leaving
  <2>. QED BY <2>1, <2>2, <2>3, <2>4
<1>. QED BY <1>1, <1>2 DEF Heard, Announced, Clean, Told

\* Whatever order the Add and the Remove of a new instance come in, and whenever a dynamic group
\* shows itself: once all is read and nothing was lost, the registry has every speaker as it is.
THEOREM SettledIsTrueHolds == Spec => []SettledIsTrue
<1>1. Init => SightingInv
  BY DEF Init, SightingInv, Awaited
<1>2. TypeOK /\ SightingInv /\ [Next]_vars => SightingInv'
  <2>. SUFFICES ASSUME TypeOK, SightingInv, [Next]_vars, NEW d \in Devices, Awaited(d)' PROVE Heard(d)'
    BY DEF SightingInv
  <2>1. CASE UNCHANGED vars
    BY <2>1 DEF vars, SightingInv, Awaited, Heard, Announced, Clean, Told, Settled, Present, Leaving
  <2>2. CASE Next
    BY <2>2, NetworkHeard, BrowseHeard, MaintainHeard DEF Next
  <2>. QED BY <2>1, <2>2
<1>3. TypeOK /\ SightingInv => SettledIsTrue
  BY DEF SightingInv, Awaited, Heard, Announced, Told, Settled, SettledIsTrue, NoLookup
<1>. QED BY <1>1, <1>2, <1>3, TypeCorrect, PTL DEF Spec
=============================================================================
