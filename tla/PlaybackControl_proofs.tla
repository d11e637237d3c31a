------------------------- MODULE PlaybackControl_proofs -------------------------
(***************************************************************************)
(* One LOAD at a time, no flush taken for done that the speaker's media    *)
(* does not cover, and at rest a paused session that is silent and a       *)
(* playing one that owes nothing: for every number of tasks and callbacks. *)
(* None is inductive alone.  The first needs that whoever is past the      *)
(* flight lock holds it and that every command in the worker's queue has   *)
(* its own task waiting for it; the second that what a LOAD covers was     *)
(* requested before it was sent, and that as many flushes were requested   *)
(* as cleared the ring and are not on their way any more.  What holds at   *)
(* rest needs to know, of every moment before, who is on the way to it.    *)
(***************************************************************************)
EXTENDS PlaybackControl, FunctionTheorems, FiniteSetTheorems, WellFoundedInduction, TLAPS

-----------------------------------------------------------------------------
(***************************************************************************)
(* Numbers and sequences.                                                  *)
(***************************************************************************)
\* A set of naturals has a least element: the intervals up to its elements have a smallest one.
LEMMA Least ==
  ASSUME NEW S \in SUBSET Nat, S # {}
  PROVE  \E x \in S : \A y \in S : x <= y
<1>. DEFINE Upto == {0..x : x \in S}
            smaller == StrictSubsetOrdering(Nat)
<1>1. Upto \subseteq FiniteSubsetsOf(Nat) /\ Upto # {}
  <2>1. \A x \in S : 0..x \in SUBSET Nat /\ IsFiniteSet(0..x)
    BY FS_Interval
  <2>. QED BY <2>1 DEF FiniteSubsetsOf
<1>2. IsWellFoundedOn(smaller, FiniteSubsetsOf(Nat))
  BY FS_StrictSubsetOrderingWellFounded
<1>3. PICK T \in Upto : \A U \in Upto : <<U, T>> \notin smaller
  <2>. HIDE DEF Upto, smaller
  <2>. QED BY <1>1, <1>2, WFMin
<1>4. PICK x \in S : T = 0..x
  OBVIOUS
<1>5. ASSUME NEW y \in S, y < x PROVE FALSE
  <2>1. 0..y \in Upto /\ 0..y \subseteq 0..x /\ 0..y # 0..x
    BY <1>5
  <2>2. 0..y \in SUBSET Nat /\ 0..x \in SUBSET Nat
    OBVIOUS
  <2>3. <<0..y, T>> \in smaller
    BY <1>4, <2>1, <2>2 DEF StrictSubsetOrdering
  <2>. QED BY <1>3, <2>1, <2>3
<1>. QED BY <1>5

\* Pushing and taking keep a sequence one of the same set.
LEMMA Push ==
  ASSUME NEW S, NEW q \in Seq(S), NEW e \in S
  PROVE  Append(q, e) \in Seq(S)
OBVIOUS

LEMMA HeadTail ==
  ASSUME NEW S, NEW q \in Seq(S), q # <<>>
  PROVE  /\ Head(q) \in S /\ Tail(q) \in Seq(S)
         /\ \E i \in DOMAIN q : Head(q) = q[i]
         /\ \A i \in DOMAIN Tail(q) : \E j \in DOMAIN q : Tail(q)[i] = q[j]
OBVIOUS

\* How often v occurs in q.
Occurrences(q, v) == Cardinality({i \in DOMAIN q : q[i] = v})

LEMMA OccurrencesType ==
  ASSUME NEW S, NEW q \in Seq(S), NEW v
  PROVE  Occurrences(q, v) \in Nat /\ IsFiniteSet({i \in DOMAIN q : q[i] = v})
<1>1. IsFiniteSet(DOMAIN q)
  <2>1. DOMAIN q = 1..Len(q) /\ Len(q) \in Nat
    OBVIOUS
  <2>. QED BY <2>1, FS_Interval
<1>2. {i \in DOMAIN q : q[i] = v} \subseteq DOMAIN q
  OBVIOUS
<1>3. IsFiniteSet({i \in DOMAIN q : q[i] = v})
  BY <1>1, <1>2, FS_Subset
<1>. QED BY <1>3, FS_CardinalityType DEF Occurrences

LEMMA OccurrencesPush ==
  ASSUME NEW S, NEW q \in Seq(S), NEW e \in S, NEW v
  PROVE  Occurrences(Append(q, e), v) = IF e = v THEN Occurrences(q, v) + 1 ELSE Occurrences(q, v)
<1>. DEFINE at == {i \in DOMAIN q : q[i] = v}
            after == {i \in DOMAIN Append(q, e) : Append(q, e)[i] = v}
            n == Len(q) + 1
<1>1. IsFiniteSet(at) /\ n \notin at
  <2>1. n \notin DOMAIN q
    OBVIOUS
  <2>. QED BY <2>1, OccurrencesType
<1>2. DOMAIN Append(q, e) = DOMAIN q \cup {n} /\ Append(q, e)[n] = e
      /\ \A i \in DOMAIN q : Append(q, e)[i] = q[i]
  OBVIOUS
<1>3. after = IF e = v THEN at \cup {n} ELSE at
  <2>1. n \notin DOMAIN q
    OBVIOUS
  <2>. HIDE DEF n
  <2>. QED BY <1>2, <2>1
<1>4. Cardinality(at \cup {n}) = Cardinality(at) + 1
  <2>. HIDE DEF at, n
  <2>. QED BY <1>1, FS_AddElement
<1>. QED BY <1>3, <1>4 DEF Occurrences

LEMMA OccurrencesTake ==
  ASSUME NEW S, NEW q \in Seq(S), q # <<>>, NEW v
  PROVE  Occurrences(q, v) = IF Head(q) = v THEN Occurrences(Tail(q), v) + 1 ELSE Occurrences(Tail(q), v)
<1>. DEFINE at == {i \in DOMAIN Tail(q) : Tail(q)[i] = v}
            rest == {i \in DOMAIN q : i # 1 /\ q[i] = v}
            shift == [i \in at |-> i + 1]
<1>1. /\ Tail(q) \in Seq(S) /\ DOMAIN q = 1..Len(q) /\ DOMAIN Tail(q) = 1..(Len(q) - 1) /\ Len(q) \in Nat \ {0}
      /\ \A i \in 1..(Len(q) - 1) : Tail(q)[i] = q[i + 1]
  OBVIOUS
<1>2. IsFiniteSet(at)
  BY <1>1, OccurrencesType
<1>3. shift \in Bijection(at, rest)
  <2>1. \A i \in at : i \in Nat /\ i + 1 \in rest
    BY <1>1
  <2>2. \A j \in rest : j - 1 \in at /\ j = (j - 1) + 1
    BY <1>1
  <2>3. shift \in [at -> rest] /\ \A i \in at : shift[i] = i + 1
    BY <2>1
  <2>4. \A i, j \in at : shift[i] = shift[j] => i = j
    BY <2>1, <2>3
  <2>5. \A j \in rest : \E i \in at : shift[i] = j
    BY <2>2, <2>3
  <2>. HIDE DEF shift, at, rest
  <2>. QED BY <2>3, <2>4, <2>5, Fun_IsBij
<1>4. IsFiniteSet(rest) /\ Cardinality(rest) = Cardinality(at)
  <2>. HIDE DEF shift, at, rest
  <2>. QED BY <1>2, <1>3, FS_Bijection, Fun_ExistsBij
<1>5. {i \in DOMAIN q : q[i] = v} = IF Head(q) = v THEN rest \cup {1} ELSE rest
  BY <1>1
<1>6. 1 \notin rest
  OBVIOUS
<1>7. Cardinality(rest \cup {1}) = Cardinality(rest) + 1
  <2>. HIDE DEF rest
  <2>. QED BY <1>4, <1>6, FS_AddElement
<1>. QED BY <1>4, <1>5, <1>7 DEF Occurrences

-----------------------------------------------------------------------------
(***************************************************************************)
(* The inductive invariant.                                                *)
(***************************************************************************)
\* The steps of a task that holds reload_flight, and those that wait for the Cast worker.
Holding == {"lead", "publish", "spawned", "load", "loading", "loaded", "stop", "stopping", "accept",
            "discard"}
Awaiting == [LOAD |-> "loading", STOP |-> "stopping", PAUSE |-> "acking", PLAY |-> "acking"]
Waiting == {"loading", "stopping", "acking"}
Ops == {"LOAD", "PAUSE", "PLAY", "STOP"}

IdleInv   == \A t \in Everyone : task[t].kind = "none" => task[t].pc = "off"
FlightInv == \A t \in Everyone : task[t].pc \in Holding => flight = t
QueueInv ==
  /\ \A i \in DOMAIN queue : task[queue[i].by].pc = Awaiting[queue[i].op]
  /\ \A i, j \in DOMAIN queue : queue[i].by = queue[j].by => i = j
PlayInv == TypeOK /\ IdleInv /\ FlightInv /\ QueueInv

\* The LOAD of task k has returned well.
Done(k) == (k.pc = "loaded" /\ k.ok) \/ k.pc = "accept"

\* The tasks of T move, and none of them waits for the Cast worker: what that leaves.
Turn(T) ==
  /\ task' \in [Everyone -> Task]
  /\ \A u \in Everyone \ T : task'[u] = task[u]
  /\ \A t \in T : task[t].pc \notin Waiting
  /\ \A t \in T : task'[t].kind = "none" => task'[t].pc = "off"
  /\ \A t \in T : task'[t].pc \in Holding => flight' = t
  /\ flight' = flight \/ \E t \in T : flight \in {Nobody, t} /\ flight' \in {Nobody, t}
  /\ queue' = queue \/ \E t \in T, op \in Ops : /\ queue' = Append(queue, [op |-> op, by |-> t])
                                                /\ task'[t].pc = Awaiting[op]
  /\ \A t \in T : task'[t].covers \in {0, task[t].covers, flushRequested}
  /\ \A t \in T : Done(task'[t]) => Done(task[t]) /\ task'[t].covers = task[t].covers

LEMMA Names ==
  /\ Tasks \subseteq Everyone /\ Watchdog \in Everyone /\ Rollover \in Everyone
  /\ Watchdog \notin Tasks /\ Rollover \notin Tasks /\ Watchdog # Rollover
  /\ \A t \in Everyone : t \in Nat /\ t # Nobody
BY BoundsAssumption DEF Tasks, Watchdog, Rollover, Everyone, Nobody

LEMMA NewTaskType ==
  ASSUME NEW k \in Kinds, NEW pc \in Steps, NEW r \in Nat
  PROVE  /\ NewTask(k, pc, r) \in Task /\ NewTask(k, pc, r).kind = k /\ NewTask(k, pc, r).pc = pc
         /\ NewTask(k, pc, r).covers = 0
BY DEF NewTask, NoTask, Task, Kinds, Steps

LEMMA NoTaskType == NoTask \in Task /\ NoTask.kind = "none" /\ NoTask.pc = "off" /\ NoTask.covers = 0
BY DEF NoTask, Task, Kinds, Steps

LEMMA GotoIs ==
  ASSUME TypeOK, NEW t \in Everyone, NEW pc \in Steps, Goto(t, pc)
  PROVE  /\ task' \in [Everyone -> Task]
         /\ \A u \in Everyone \ {t} : task'[u] = task[u]
         /\ task'[t].pc = pc /\ task'[t].kind = task[t].kind
         /\ task'[t].covers = task[t].covers /\ task'[t].ok = task[t].ok
<1>1. task \in [Everyone -> Task]
  BY DEF TypeOK
<1>2. task' = [task EXCEPT ![t] = [task[t] EXCEPT !.pc = pc]]
  BY <1>1 DEF Goto
<1>3. task[t] \in Task /\ [task[t] EXCEPT !.pc = pc] \in Task
  BY <1>1 DEF Task
<1>. QED BY <1>1, <1>2, <1>3 DEF Task

LEMMA PutIs ==
  ASSUME TypeOK, NEW t \in Everyone, NEW new \in Task, task' = [task EXCEPT ![t] = new]
  PROVE  /\ task' \in [Everyone -> Task]
         /\ \A u \in Everyone \ {t} : task'[u] = task[u]
         /\ task'[t] = new
BY DEF TypeOK

LEMMA SpawnedIs ==
  ASSUME TypeOK, NEW new, Free # {}
  PROVE  \E t \in Tasks : task[t].kind = "none" /\ Spawned(new) = [task EXCEPT ![t] = new]
<1>. DEFINE t == CHOOSE x \in Free : \A y \in Free : x <= y
<1>1. Free \in SUBSET Nat
  BY BoundsAssumption DEF Free, Tasks
<1>2. \E x \in Free : \A y \in Free : x <= y
  BY <1>1, Least
<1>3. t \in Free
  BY <1>2
<1>4. Spawned(new) = [task EXCEPT ![t] = new]
  BY DEF Spawned
<1>. QED BY <1>3, <1>4 DEF Free

-----------------------------------------------------------------------------
(***************************************************************************)
(* Every step of the tasks is such a turn.                                 *)
(***************************************************************************)
\* A task that moves to its next step.
LEMMA GotoTurns ==
  ASSUME PlayInv, NEW t \in Everyone, NEW pc \in Steps, Goto(t, pc), UNCHANGED <<flight, queue>>,
         task[t].pc # "off", task[t].pc \notin Waiting, pc \in Holding => flight = t,
         pc # "loaded", pc = "accept" => Done(task[t])
  PROVE  Turn({t})
<1>1. /\ task' \in [Everyone -> Task] /\ \A u \in Everyone \ {t} : task'[u] = task[u]
      /\ task'[t].pc = pc /\ task'[t].kind = task[t].kind /\ task'[t].covers = task[t].covers
  BY GotoIs DEF PlayInv
<1>2. task[t].kind # "none"
  BY DEF PlayInv, IdleInv
<1>. QED BY <1>1, <1>2 DEF Turn, Done

\* A task that ends, or becomes another.
LEMMA PutTurns ==
  ASSUME PlayInv, NEW t \in Everyone, NEW new \in Task, task' = [task EXCEPT ![t] = new],
         UNCHANGED queue, task[t].pc \notin Waiting, new.kind = "none" => new.pc = "off", new.covers = 0,
         new.pc \in {"off", "lock", "check", "flight"},
         flight' = flight \/ (flight = t /\ flight' = Nobody)
  PROVE  Turn({t})
<1>1. /\ task' \in [Everyone -> Task] /\ \A u \in Everyone \ {t} : task'[u] = task[u]
      /\ task'[t] = new
  BY PutIs DEF PlayInv
<1>. QED BY <1>1 DEF Turn, Done, Holding

LEMMA SpawnTurns ==
  ASSUME PlayInv, NEW k \in Kinds \ {"none"}, NEW pc \in {"lock", "check"}, NEW r \in Nat, Free # {},
         task' = Spawned(NewTask(k, pc, r)), UNCHANGED <<flight, queue>>
  PROVE  \E t \in Everyone : Turn({t})
<1>1. NewTask(k, pc, r) \in Task /\ NewTask(k, pc, r).kind = k /\ NewTask(k, pc, r).pc = pc
      /\ NewTask(k, pc, r).covers = 0
  BY NewTaskType DEF Steps
<1>2. PICK t \in Tasks : task[t].kind = "none" /\ task' = [task EXCEPT ![t] = NewTask(k, pc, r)]
  BY SpawnedIs DEF PlayInv
<1>3. t \in Everyone /\ task[t].pc = "off"
  BY <1>2, Names DEF PlayInv, IdleInv
<1>. QED BY <1>1, <1>2, <1>3, PutTurns DEF Waiting

LEMMA OutcomeTurns ==
  ASSUME PlayInv, NEW t \in Everyone, Loaded(t) \/ Paused(t) \/ Failed(t), UNCHANGED queue,
         task[t].pc # "off", task[t].pc \notin Waiting
  PROVE  Turn({t})
<1>1. Leave(t)
  BY DEF Loaded, Paused, Failed
<1>2. flight' = flight \/ (flight = t /\ flight' = Nobody)
  BY <1>1 DEF Leave
<1>3. CASE Finish(t)
  BY <1>2, <1>3, PutTurns, NoTaskType DEF Finish
<1>4. CASE Goto(t, "owe")
  <2>1. /\ task' \in [Everyone -> Task] /\ \A u \in Everyone \ {t} : task'[u] = task[u]
        /\ task'[t].pc = "owe" /\ task'[t].kind = task[t].kind /\ task'[t].covers = task[t].covers
    BY <1>4, GotoIs DEF PlayInv, Steps
  <2>2. task[t].kind # "none"
    BY DEF PlayInv, IdleInv
  <2>. QED BY <1>2, <2>1, <2>2 DEF Turn, Done, Holding
<1>. QED BY <1>3, <1>4 DEF Loaded, Paused, Failed

LEMMA GateTurns ==
  ASSUME PlayInv, NEW t \in Everyone, NEW next \in {"lead", "publish"}, ReloadGate(t, next), UNCHANGED queue,
         task[t].pc # "off", task[t].pc \notin Waiting, flight \in {Nobody, t}
  PROVE  Turn({t})
<1>1. CASE Paused(t) \/ Loaded(t)
  BY <1>1, OutcomeTurns
<1>2. CASE /\ flight' = t
           /\ task' = [task EXCEPT ![t].pc = next, ![t].covers = flushRequested]
  <2>1. task \in [Everyone -> Task] /\ flushRequested \in Nat
    BY DEF PlayInv, TypeOK, OwedType
  <2>. DEFINE new == [task[t] EXCEPT !.pc = next, !.covers = flushRequested]
  <2>2. task' = [task EXCEPT ![t] = new]
    BY <1>2, <2>1
  <2>3. new \in Task /\ new.pc = next /\ new.kind = task[t].kind /\ new.covers = flushRequested
    <3>1. task[t] \in Task /\ next \in Steps
      BY <2>1 DEF Steps
    <3>. QED BY <2>1, <3>1 DEF Task
  <2>4. /\ task' \in [Everyone -> Task] /\ \A u \in Everyone \ {t} : task'[u] = task[u]
        /\ task'[t] = new
    <3>. HIDE DEF new
    <3>. QED BY <2>2, <2>3, PutIs DEF PlayInv
  <2>5. task[t].kind # "none"
    BY DEF PlayInv, IdleInv
  <2>. HIDE DEF new
  <2>. QED BY <1>2, <2>3, <2>4, <2>5 DEF Turn, Done
<1>. QED BY <1>1, <1>2 DEF ReloadGate

LEMMA ReloadTurns ==
  ASSUME PlayInv, NEW t \in Everyone, Reload(t)
  PROVE  Turn({t})
<1>. USE DEF Reloading, At, speaker
<1>h. task[t].pc \in Holding => flight = t
  BY DEF PlayInv, FlightInv
<1>1. CASE BeginReload(t)
  <2>1. CASE Paused(t)
    BY <1>1, <2>1, OutcomeTurns DEF BeginReload, Waiting
  <2>2. CASE Goto(t, "flight") /\ UNCHANGED flight
    BY <1>1, <2>2, GotoTurns DEF BeginReload, Waiting, Holding, Steps
  <2>. QED BY <1>1, <2>1, <2>2 DEF BeginReload
<1>2. CASE TakeFlight(t)
  BY <1>2, GateTurns DEF TakeFlight, Waiting
<1>3. CASE LeadQueued(t)
  BY <1>3, <1>h, GateTurns DEF LeadQueued, Waiting, Holding
<1>4. CASE PublishLoad(t)
  <2>1. CASE Paused(t)
    BY <1>4, <2>1, OutcomeTurns DEF PublishLoad, Waiting
  <2>2. CASE Goto(t, IF task[t].pc = "publish" THEN "spawned" ELSE "load") /\ UNCHANGED flight
    <3>1. flight = t
      BY <1>4, <1>h DEF PublishLoad, Holding
    <3>2. \E pc \in {"spawned", "load"} : Goto(t, pc)
      BY <2>2
    <3>. QED BY <1>4, <2>2, <3>1, <3>2, GotoTurns DEF PublishLoad, Waiting, Steps
  <2>. QED BY <1>4, <2>1, <2>2 DEF PublishLoad
<1>5. CASE LoadReturns(t)
  <2>1. flight = t
    BY <1>5, <1>h DEF LoadReturns, Holding
  <2>2. CASE Goto(t, "stop") /\ UNCHANGED flight
    BY <1>5, <2>1, <2>2, GotoTurns DEF LoadReturns, Waiting, Steps
  <2>3. CASE task[t].ok /\ Goto(t, "accept") /\ UNCHANGED flight
    BY <1>5, <2>1, <2>3, GotoTurns DEF LoadReturns, Waiting, Steps, Done
  <2>4. CASE Failed(t)
    BY <1>5, <2>4, OutcomeTurns DEF LoadReturns, Waiting
  <2>. QED BY <1>5, <2>2, <2>3, <2>4 DEF LoadReturns
<1>6. CASE AcceptReload(t)
  <2>1. flight = t
    BY <1>6, <1>h DEF AcceptReload, Holding
  <2>2. CASE Goto(t, "discard") /\ UNCHANGED flight
    BY <1>6, <2>1, <2>2, GotoTurns DEF AcceptReload, Waiting, Steps
  <2>3. CASE Loaded(t)
    BY <1>6, <2>3, OutcomeTurns DEF AcceptReload, Waiting
  <2>. QED BY <1>6, <2>2, <2>3 DEF AcceptReload
<1>7. CASE Discard(t)
  <2>1. flight = t
    BY <1>7, <1>h DEF Discard, Holding
  <2>2. CASE Goto(t, "stop") /\ UNCHANGED flight
    BY <1>7, <2>1, <2>2, GotoTurns DEF Discard, Waiting, Steps
  <2>3. CASE Paused(t)
    BY <1>7, <2>3, OutcomeTurns DEF Discard, Waiting
  <2>. QED BY <1>7, <2>2, <2>3 DEF Discard
<1>. QED BY <1>1, <1>2, <1>3, <1>4, <1>5, <1>6, <1>7 DEF Reload

LEMMA TransportTurns ==
  ASSUME PlayInv, NEW t \in Everyone, Transport(t)
  PROVE  Turn({t})
<1>. USE DEF At, speaker
<1>1. CASE TakeTransport(t)
  BY <1>1, GotoTurns DEF TakeTransport, Waiting, Holding, Steps
<1>2. CASE CheckTransport(t)
  <2>1. CASE Goto(t, "command")
    BY <1>2, <2>1, GotoTurns DEF CheckTransport, Waiting, Holding, Steps
  <2>2. CASE Finish(t)
    BY <1>2, <2>2, PutTurns, NoTaskType DEF CheckTransport, Finish, Waiting
  <2>. QED BY <1>2, <2>1, <2>2 DEF CheckTransport
<1>3. CASE CommandTransport(t)
  <2>1. task[t].pc = "command" /\ Goto(t, "acking") /\ flight' = flight
    BY <1>3 DEF CommandTransport, locks
  <2>2. \E op \in {"PAUSE", "PLAY"} : queue' = Append(queue, [op |-> op, by |-> t])
    BY <1>3 DEF CommandTransport, Send
  <2>3. /\ task' \in [Everyone -> Task] /\ \A u \in Everyone \ {t} : task'[u] = task[u]
        /\ task'[t].pc = "acking" /\ task'[t].kind = task[t].kind /\ task'[t].covers = task[t].covers
    BY <2>1, GotoIs DEF PlayInv, Steps
  <2>4. task[t].kind # "none"
    BY <2>1 DEF PlayInv, IdleInv
  <2>. QED BY <2>1, <2>2, <2>3, <2>4 DEF Turn, Done, Holding, Waiting, Awaiting, Ops
<1>. QED BY <1>1, <1>2, <1>3 DEF Transport

LEMMA CommandsTurn ==
  ASSUME PlayInv, NEW t \in Everyone, Commands(t)
  PROVE  Turn({t})
<1>. USE DEF At, locks
<1>1. PICK op \in {"LOAD", "STOP"} : /\ task[t].pc = (IF op = "LOAD" THEN "load" ELSE "stop")
                                     /\ Goto(t, Awaiting[op]) /\ queue' = Append(queue, [op |-> op, by |-> t])
  BY DEF Commands, SendLoad, SendStop, Send, Awaiting
<1>2. flight' = flight /\ flight = t
  BY <1>1 DEF Commands, SendLoad, SendStop, PlayInv, FlightInv, Holding
<1>3. /\ task' \in [Everyone -> Task] /\ \A u \in Everyone \ {t} : task'[u] = task[u]
      /\ task'[t].pc = Awaiting[op] /\ task'[t].kind = task[t].kind /\ task'[t].covers = task[t].covers
  <2>1. Awaiting[op] \in Steps
    BY DEF Awaiting, Steps
  <2>. QED BY <1>1, <2>1, GotoIs DEF PlayInv
<1>4. task[t].kind # "none"
  BY <1>1 DEF PlayInv, IdleInv
<1>. QED BY <1>1, <1>2, <1>3, <1>4 DEF Turn, Done, Waiting, Awaiting, Ops

LEMMA HandleTurns ==
  ASSUME PlayInv, Handle, task' # task
  PROVE  \E t \in Everyone : Turn({t})
<1>. USE DEF locks, speaker
<1>1. flushRequested \in Nat
  BY DEF PlayInv, TypeOK, OwedType
<1>2. UNCHANGED <<flight, queue>>
  BY DEF Handle, HandlePause, HandleResume, HandleFlush
<1>3. \E k \in Kinds \ {"none"}, pc \in {"lock", "check"}, r \in Nat :
         Free # {} /\ task' = Spawned(NewTask(k, pc, r))
  <2>1. CASE HandlePause
    <3>1. Free # {} /\ task' = Spawned(NewTask("pause", "lock", 0))
      BY <2>1 DEF HandlePause
    <3>. QED BY <3>1 DEF Kinds
  <2>2. CASE HandleResume
    <3>1. CASE Free # {} /\ task' = Spawned(NewTask("play", "lock", 0))
      BY <3>1 DEF Kinds
    <3>2. CASE /\ Free # {}
               /\ task' = Spawned(NewTask("reload", "check", IF FlushReloadOwed THEN flushRequested ELSE 0))
      BY <1>1, <3>2 DEF Kinds
    <3>. QED BY <2>2, <3>1, <3>2 DEF HandleResume, ResumeDecision
  <2>3. CASE HandleFlush
    BY <2>3 DEF HandleFlush
  <2>. QED BY <2>1, <2>2, <2>3 DEF Handle
<1>. QED BY <1>2, <1>3, SpawnTurns

LEMMA WatchdogTurns ==
  ASSUME PlayInv, Tick, task' # task
  PROVE  Turn({Watchdog})
<1>1. /\ task[Watchdog].kind = "none" /\ UNCHANGED <<flight, queue>>
      /\ task' = [task EXCEPT ![Watchdog] = NewTask("stall", "check", 0)]
  BY DEF Tick, locks, speaker
<1>2. /\ NewTask("stall", "check", 0) \in Task /\ NewTask("stall", "check", 0).kind = "stall"
      /\ NewTask("stall", "check", 0).pc = "check" /\ NewTask("stall", "check", 0).covers = 0
  BY NewTaskType DEF Kinds, Steps
<1>3. task[Watchdog].pc = "off"
  BY <1>1, Names DEF PlayInv, IdleInv
<1>. QED BY <1>1, <1>2, <1>3, Names, PutTurns DEF Waiting

LEMMA RolloverTurns ==
  ASSUME PlayInv, RolloverDue \/ RolloverStep
  PROVE  Turn({Rollover})
<1>. USE DEF At, speaker, locks
<1>1. CASE RolloverDue
  <2>1. /\ task[Rollover].kind = "none" /\ UNCHANGED <<flight, queue>>
        /\ task' = [task EXCEPT ![Rollover] = NewTask("roll", "flight", 0)]
    BY <1>1 DEF RolloverDue
  <2>2. /\ NewTask("roll", "flight", 0) \in Task /\ NewTask("roll", "flight", 0).kind = "roll"
        /\ NewTask("roll", "flight", 0).pc = "flight" /\ NewTask("roll", "flight", 0).covers = 0
    BY NewTaskType DEF Kinds, Steps
  <2>3. task[Rollover].pc = "off"
    BY <2>1, Names DEF PlayInv, IdleInv
  <2>. QED BY <2>1, <2>2, <2>3, Names, PutTurns DEF Waiting
<1>2. CASE RolloverTakesFlight
  <2>1. /\ task[Rollover].pc = "flight" /\ Goto(Rollover, "load") /\ flight = Nobody /\ flight' = Rollover
        /\ queue' = queue
    BY <1>2 DEF RolloverTakesFlight, MayLoad
  <2>2. /\ task' \in [Everyone -> Task] /\ \A u \in Everyone \ {Rollover} : task'[u] = task[u]
        /\ task'[Rollover].pc = "load" /\ task'[Rollover].kind = task[Rollover].kind
        /\ task'[Rollover].covers = task[Rollover].covers
    BY <2>1, Names, GotoIs DEF PlayInv, Steps
  <2>3. task[Rollover].kind # "none"
    BY <2>1, Names DEF PlayInv, IdleInv
  <2>. QED BY <2>1, <2>2, <2>3 DEF Turn, Done, Waiting
<1>3. CASE RolloverDone
  <2>1. flight = Rollover
    BY <1>3, Names DEF RolloverDone, PlayInv, FlightInv, Holding
  <2>. QED BY <1>3, <2>1, Names, PutTurns, NoTaskType DEF RolloverDone, Finish, Waiting
<1>. QED BY <1>1, <1>2, <1>3 DEF RolloverStep

\* The watchdog's re-LOAD that a pause abandoned becomes a task of its own, if it is due now.
LEMMA OweTurns ==
  ASSUME PlayInv, OweStallReload
  PROVE  \E T \in SUBSET Everyone : Turn(T)
<1>1. task[Watchdog].pc = "owe" /\ UNCHANGED <<flight, queue>>
  BY DEF OweStallReload, At, locks, speaker
<1>2. CASE Finish(Watchdog)
  <2>1. Turn({Watchdog})
    BY <1>1, <1>2, Names, PutTurns, NoTaskType DEF Finish, Waiting
  <2>. QED BY <2>1, Names
<1>3. CASE Free # {} /\ task' = [Spawned(NewTask("reload", "check", 0)) EXCEPT ![Watchdog] = NoTask]
  <2>. DEFINE new == NewTask("reload", "check", 0)
  <2>1. new \in Task /\ new.kind = "reload" /\ new.pc = "check" /\ new.covers = 0
    BY NewTaskType DEF Kinds, Steps
  <2>2. PICK t \in Tasks : task[t].kind = "none" /\ Spawned(new) = [task EXCEPT ![t] = new]
    BY <1>3, SpawnedIs DEF PlayInv
  <2>3. t \in Everyone /\ Watchdog \in Everyone /\ t # Watchdog /\ task[t].pc = "off"
    BY <2>2, Names DEF PlayInv, IdleInv
  <2>4. task \in [Everyone -> Task] /\ task' = [[task EXCEPT ![t] = new] EXCEPT ![Watchdog] = NoTask]
    BY <1>3, <2>2 DEF PlayInv, TypeOK
  <2>5. /\ task' \in [Everyone -> Task] /\ \A u \in Everyone \ {t, Watchdog} : task'[u] = task[u]
        /\ task'[t] = new /\ task'[Watchdog] = NoTask
    <3>. HIDE DEF new
    <3>. QED BY <2>1, <2>3, <2>4, NoTaskType
  <2>6. Turn({t, Watchdog})
    <3>. HIDE DEF new
    <3>. QED BY <1>1, <2>1, <2>3, <2>5, NoTaskType DEF Turn, Done, Holding, Waiting
  <2>. QED BY <2>3, <2>6
<1>. QED BY <1>2, <1>3 DEF OweStallReload

\* Every command in the queue has a task that waits for it.
LEMMA QueueIs ==
  ASSUME PlayInv
  PROVE  \A i \in DOMAIN queue : /\ queue[i].by \in Everyone /\ queue[i].op \in Ops
                                 /\ task[queue[i].by].pc \in Waiting
<1>1. \A i \in DOMAIN queue : queue[i] \in [op : Ops, by : Everyone]
  <2>1. queue \in Seq([op : Ops, by : Everyone])
    BY DEF PlayInv, TypeOK, SpeakerType, Ops
  <2>2. \A S : \A q \in Seq(S) : \A i \in DOMAIN q : q[i] \in S
    OBVIOUS
  <2>. QED BY <2>1, <2>2
<1>2. \A op \in Ops : Awaiting[op] \in Waiting
  BY DEF Ops, Awaiting, Waiting
<1>. QED BY <1>1, <1>2 DEF PlayInv, QueueInv

\* What a turn keeps.
LEMMA TurnKeeps ==
  ASSUME PlayInv, NEW T \in SUBSET Everyone, Turn(T)
  PROVE  task' \in [Everyone -> Task] /\ IdleInv' /\ FlightInv' /\ QueueInv'
<1>1. task' \in [Everyone -> Task] /\ IdleInv'
  BY DEF Turn, PlayInv, IdleInv
<1>2. FlightInv'
  <2>. SUFFICES ASSUME NEW u \in Everyone, task'[u].pc \in Holding PROVE flight' = u
    BY DEF FlightInv
  <2>1. CASE u \in T
    BY <2>1 DEF Turn
  <2>2. CASE u \notin T
    <3>1. flight = u /\ u # Nobody
      BY <2>2, Names DEF Turn, PlayInv, FlightInv
    <3>. QED BY <2>2, <3>1 DEF Turn
  <2>. QED BY <2>1, <2>2
<1>3. QueueInv'
  <2>1. queue \in Seq([op : Ops, by : Everyone])
    BY DEF PlayInv, TypeOK, SpeakerType, Ops
  <2>2. \A i \in DOMAIN queue : /\ queue[i].by \in Everyone \ T
                                /\ task'[queue[i].by].pc = Awaiting[queue[i].op]
    <3>1. \A i \in DOMAIN queue : queue[i].by \in Everyone /\ task[queue[i].by].pc \in Waiting
      BY QueueIs
    <3>2. \A i \in DOMAIN queue : queue[i].by \in Everyone \ T
      BY <3>1 DEF Turn
    <3>3. \A i \in DOMAIN queue : task'[queue[i].by] = task[queue[i].by]
      BY <3>2 DEF Turn
    <3>4. \A i \in DOMAIN queue : task[queue[i].by].pc = Awaiting[queue[i].op]
      BY DEF PlayInv, QueueInv
    <3>. QED BY <3>2, <3>3, <3>4
  <2>3. CASE queue' = queue
    BY <2>2, <2>3 DEF PlayInv, QueueInv
  <2>4. ASSUME NEW t \in T, NEW op \in Ops, queue' = Append(queue, [op |-> op, by |-> t]),
               task'[t].pc = Awaiting[op]
        PROVE  QueueInv'
    <3>1. \A i \in DOMAIN queue' : \/ i \in DOMAIN queue /\ queue'[i] = queue[i]
                                   \/ i = Len(queue) + 1 /\ queue'[i] = [op |-> op, by |-> t]
      BY <2>1, <2>4
    <3>. QED BY <2>2, <2>4, <3>1 DEF PlayInv, QueueInv
  <2>. QED BY <2>3, <2>4 DEF Turn
<1>. QED BY <1>1, <1>2, <1>3

-----------------------------------------------------------------------------
(***************************************************************************)
(* The Cast worker answers the task whose command is next.                 *)
(***************************************************************************)
\* The answer to task t.
Answered(t) ==
  /\ queue # <<>> /\ t = Head(queue).by /\ queue' = Tail(queue)
  /\ task' \in [Everyone -> Task]
  /\ \A u \in Everyone \ {t} : task'[u] = task[u]
  /\ task'[t].kind = "none" => task'[t].pc = "off"
  /\ task'[t].pc \in Holding => flight' = t
  /\ flight' = flight \/ (flight = t /\ flight' = Nobody)
  /\ task'[t].covers \in {0, task[t].covers}

LEMMA NextIssuer ==
  ASSUME PlayInv, queue # <<>>
  PROVE  /\ Issuer \in Everyone /\ task[Issuer].pc = Awaiting[Head(queue).op] /\ task[Issuer].kind # "none"
         /\ Head(queue).op \in Ops
<1>1. queue \in Seq([op : Ops, by : Everyone])
  BY DEF PlayInv, TypeOK, SpeakerType, Ops
<1>2. Issuer \in Everyone /\ Head(queue).op \in Ops /\ task[Issuer].pc = Awaiting[Head(queue).op]
  <2>1. 1 \in DOMAIN queue /\ Head(queue) = queue[1] /\ queue[1] \in [op : Ops, by : Everyone]
    <3>1. \A S : \A q \in Seq(S) : q # <<>> => 1 \in DOMAIN q /\ Head(q) = q[1] /\ q[1] \in S
      OBVIOUS
    <3>. QED BY <1>1, <3>1
  <2>2. task[queue[1].by].pc = Awaiting[queue[1].op]
    BY <2>1 DEF PlayInv, QueueInv
  <2>. QED BY <2>1, <2>2 DEF Issuer
<1>. QED BY <1>2 DEF PlayInv, IdleInv, Awaiting, Ops

LEMMA LoadAnswers ==
  ASSUME PlayInv, NEW ok \in BOOLEAN, Serve("LOAD"), flight' = flight,
         task' = [task EXCEPT ![Issuer].pc = "loaded", ![Issuer].ok = ok]
  PROVE  Answered(Issuer) /\ task'[Issuer].covers = task[Issuer].covers
<1>. DEFINE t == Issuer
            new == [task[t] EXCEPT !.pc = "loaded", !.ok = ok]
<1>1. t \in Everyone /\ task[t].pc = "loading" /\ task[t].kind # "none"
  BY NextIssuer DEF Serve, Awaiting
<1>2. task \in [Everyone -> Task]
  BY DEF PlayInv, TypeOK
<1>3. new \in Task /\ new.pc = "loaded" /\ new.kind = task[t].kind /\ new.covers = task[t].covers
  <2>1. task[t] \in Task
    BY <1>1, <1>2
  <2>. QED BY <2>1 DEF Task, Steps
<1>4. task' = [task EXCEPT ![t] = new]
  BY <1>1, <1>2
<1>5. /\ task' \in [Everyone -> Task] /\ \A u \in Everyone \ {t} : task'[u] = task[u] /\ task'[t] = new
  <2>. HIDE DEF new, t
  <2>. QED BY <1>1, <1>3, <1>4, PutIs DEF PlayInv
<1>6. flight = t
  BY <1>1 DEF PlayInv, FlightInv, Holding
<1>7. queue # <<>> /\ queue' = Tail(queue)
  BY DEF Serve
<1>8. task'[t].pc = "loaded" /\ task'[t].kind # "none" /\ task'[t].covers = task[t].covers
  <2>. HIDE DEF new, t
  <2>. QED BY <1>1, <1>3, <1>5
<1>9. flight' = t
  BY <1>6
<1>. HIDE DEF new
<1>. QED BY <1>5, <1>6, <1>7, <1>8, <1>9 DEF Answered, Issuer

LEMMA OthersAnswer ==
  ASSUME PlayInv, ServeStop \/ ServePause \/ ServePlay
  PROVE  Answered(Issuer) /\ ~Done(task'[Issuer])
<1>. DEFINE t == Issuer
<1>1. t \in Everyone /\ task[t].pc \in {"stopping", "acking"} /\ task[t].kind # "none" /\ queue # <<>>
      /\ queue' = Tail(queue)
  <2>1. queue # <<>> /\ queue' = Tail(queue) /\ Head(queue).op \in {"STOP", "PAUSE", "PLAY"}
    BY DEF ServeStop, ServePause, ServePlay, ServeTransport, Serve
  <2>2. Issuer \in Everyone /\ task[Issuer].pc = Awaiting[Head(queue).op] /\ task[Issuer].kind # "none"
    BY <2>1, NextIssuer
  <2>. QED BY <2>1, <2>2 DEF Awaiting
<1>2. flight' = flight \/ (flight = t /\ flight' = Nobody)
  BY DEF ServeStop, Leave, ServePause, ServePlay, ServeTransport
<1>3. /\ NewTask("reload", "check", 0) \in Task /\ NewTask("reload", "check", 0).kind = "reload"
      /\ NewTask("reload", "check", 0).pc = "check" /\ NewTask("reload", "check", 0).covers = 0
  BY NewTaskType DEF Kinds, Steps
<1>4. Goto(t, "owe") \/ \E new \in {NoTask, NewTask("reload", "check", 0)} : task' = [task EXCEPT ![t] = new]
  BY DEF ServeStop, Finish, ServePause, ServePlay, ServeTransport, TransportDone
<1>. DEFINE left == /\ task' \in [Everyone -> Task] /\ \A u \in Everyone \ {t} : task'[u] = task[u]
                    /\ task'[t].kind = "none" => task'[t].pc = "off"
                    /\ task'[t].pc \in {"owe", "off", "check"} /\ task'[t].covers \in {0, task[t].covers}
<1>5. left
  <2>1. CASE Goto(t, "owe")
    BY <1>1, <2>1, GotoIs DEF PlayInv, Steps
  <2>2. ASSUME NEW new \in {NoTask, NewTask("reload", "check", 0)}, task' = [task EXCEPT ![t] = new]
        PROVE  left
    <3>1. new \in Task /\ (new.kind = "none" => new.pc = "off") /\ new.pc \in {"off", "check"} /\ new.covers = 0
      BY <1>3, NoTaskType
    <3>. QED BY <1>1, <2>2, <3>1, PutIs DEF PlayInv
  <2>. QED BY <1>4, <2>1, <2>2
<1>. QED BY <1>1, <1>2, <1>5 DEF Answered, Done, Holding, Issuer

LEMMA AnswerKeeps ==
  ASSUME PlayInv, NEW t \in Everyone, Answered(t)
  PROVE  task' \in [Everyone -> Task] /\ IdleInv' /\ FlightInv' /\ QueueInv'
<1>1. task' \in [Everyone -> Task] /\ IdleInv'
  BY DEF Answered, PlayInv, IdleInv
<1>2. FlightInv'
  <2>. SUFFICES ASSUME NEW u \in Everyone, task'[u].pc \in Holding PROVE flight' = u
    BY DEF FlightInv
  <2>1. CASE u = t
    BY <2>1 DEF Answered
  <2>2. CASE u # t
    BY <2>2 DEF Answered, PlayInv, FlightInv
  <2>. QED BY <2>1, <2>2
<1>3. QueueInv'
  <2>1. queue \in Seq([op : Ops, by : Everyone]) /\ queue # <<>> /\ queue' = Tail(queue) /\ t = queue[1].by
    BY DEF PlayInv, TypeOK, SpeakerType, Answered, Ops
  <2>2. \A i \in DOMAIN queue' : i + 1 \in DOMAIN queue /\ queue'[i] = queue[i + 1] /\ i \in Nat /\ i + 1 # 1
    BY <2>1
  <2>3. \A i \in DOMAIN queue : queue[i].by \in Everyone /\ (i # 1 => queue[i].by # t)
    <3>1. 1 \in DOMAIN queue
      BY <2>1
    <3>2. \A i \in DOMAIN queue : queue[i].by = t => i = 1
      BY <2>1, <3>1 DEF PlayInv, QueueInv
    <3>. QED BY <3>2, QueueIs
  <2>4. \A i \in DOMAIN queue' : /\ task'[queue'[i].by] = task[queue'[i].by]
                                 /\ task[queue'[i].by].pc = Awaiting[queue'[i].op]
    BY <2>2, <2>3 DEF Answered, PlayInv, QueueInv
  <2>5. ASSUME NEW i \in DOMAIN queue', NEW j \in DOMAIN queue', queue'[i].by = queue'[j].by PROVE i = j
    <3>1. i + 1 = j + 1
      BY <2>2, <2>5 DEF PlayInv, QueueInv
    <3>. QED BY <2>2, <3>1
  <2>. QED BY <2>2, <2>4, <2>5 DEF QueueInv
<1>. QED BY <1>1, <1>2, <1>3

LEMMA LoadServed ==
  ASSUME PlayInv, ServeLoad
  PROVE  Answered(Issuer) /\ task'[Issuer].covers = task[Issuer].covers
<1>1. PICK ok \in BOOLEAN : task' = [task EXCEPT ![Issuer].pc = "loaded", ![Issuer].ok = ok]
  BY DEF ServeLoad
<1>2. Serve("LOAD") /\ flight' = flight
  BY DEF ServeLoad, locks
<1>. QED BY <1>1, <1>2, LoadAnswers

\* Every step leaves the tasks alone, is a turn of some, or an answer to one.
LEMMA StepIs ==
  ASSUME PlayInv, [Next]_vars
  PROVE  \/ UNCHANGED <<task, flight, queue>>
         \/ \E T \in SUBSET Everyone : Turn(T)
         \/ CastStep /\ Answered(Issuer)
<1>1. CASE UNCHANGED vars \/ Sender \/ StallWindowElapses \/ LongPauseElapses \/ SpeakerStalls
  BY <1>1 DEF vars, Sender, RateZero, PlayoutResumes, Flush, StallWindowElapses, LongPauseElapses,
              SpeakerStalls, locks, speaker
<1>2. CASE Handle
  <2>1. CASE task' = task
    BY <1>2, <2>1 DEF Handle, HandlePause, HandleResume, HandleFlush, locks, speaker
  <2>2. CASE task' # task
    <3>1. PICK t \in Everyone : Turn({t})
      BY <1>2, <2>2, HandleTurns
    <3>. QED BY <3>1
  <2>. QED BY <2>1, <2>2
<1>3. CASE Tick
  <2>1. CASE task' = task
    BY <1>3, <2>1 DEF Tick, locks, speaker
  <2>. QED BY <1>3, <2>1, WatchdogTurns, Names
<1>4. CASE OweStallReload
  BY <1>4, OweTurns
<1>5. CASE RolloverStep \/ RolloverDue
  <2>1. Turn({Rollover})
    BY <1>5, RolloverTurns
  <2>. QED BY <2>1, Names
<1>6. CASE CastStep
  BY <1>6, LoadServed, OthersAnswer DEF CastStep
<1>7. ASSUME NEW t \in Everyone, Transport(t) \/ Reload(t) \/ Commands(t)
      PROVE  \E T \in SUBSET Everyone : Turn(T)
  <2>1. Turn({t})
    BY <1>7, TransportTurns, ReloadTurns, CommandsTurn
  <2>. QED BY <2>1
<1>. QED BY <1>1, <1>2, <1>3, <1>4, <1>5, <1>6, <1>7 DEF Next, Environment

-----------------------------------------------------------------------------
(***************************************************************************)
(* Types.                                                                  *)
(***************************************************************************)
LEMMA TypeInit == Init => TypeOK
<1>. SUFFICES ASSUME Init PROVE TypeOK
  OBVIOUS
<1>. USE BoundsAssumption
<1>0. /\ paused = FALSE /\ long = FALSE /\ longs = 0 /\ flushRequested = 0 /\ flushDone = 0
      /\ stallOwed = FALSE /\ stallRecent = FALSE /\ ticks = 0 /\ ended = FALSE
      /\ transport = Nobody /\ flight = Nobody /\ callbacks = Len(events) /\ callbacks <= MaxCallbacks
  BY DEF Init
<1>1. events \in Seq({"Paused", "Resumed", "Flushed"}) /\ Len(events) \in Nat
  <2>1. CASE events = <<>>
    BY <2>1
  <2>2. CASE events = <<"Paused">>
    BY <2>2
  <2>3. CASE events = <<"Flushed", "Paused">>
    BY <2>3
  <2>. QED BY <2>1, <2>2, <2>3 DEF Init
<1>2. ReceiverType
  <2>1. castPaused \in BOOLEAN
    BY DEF Init
  <2>2. cleared \in Nat
    BY DEF Init
  <2>3. callbacks \in 0..MaxCallbacks
    BY <1>0, <1>1
  <2>. QED BY <1>1, <2>1, <2>2, <2>3 DEF ReceiverType
<1>3. PausingType /\ OwedType /\ WatchdogType /\ LocksType
  <2>1. PausingType
    <3>1. longs \in 0..MaxLongs
      BY <1>0
    <3>2. paused \in BOOLEAN /\ long \in BOOLEAN
      BY <1>0
    <3>. QED BY <3>1, <3>2 DEF PausingType
  <2>2. OwedType
    BY <1>0 DEF OwedType
  <2>3. WatchdogType
    <3>1. ticks \in 0..MaxTicks
      BY <1>0
    <3>2. stallRecent \in BOOLEAN /\ ended \in BOOLEAN
      BY <1>0
    <3>. QED BY <3>1, <3>2 DEF WatchdogType
  <2>4. LocksType
    BY <1>0 DEF LocksType
  <2>. QED BY <2>1, <2>2, <2>3, <2>4
<1>4. task \in [Everyone -> Task]
  BY NoTaskType DEF Init
<1>5. SpeakerType
  <2>1. queue = <<>> /\ media = LoadedNow /\ stalls = 0 /\ rolls = 0 /\ fails = 0
    BY DEF Init
  <2>2. LoadedNow \in Media
    BY <1>2 DEF ReceiverType, Media, LoadedNow
  <2>3. \A S : <<>> \in Seq(S)
    OBVIOUS
  <2>. QED BY <2>1, <2>2, <2>3 DEF SpeakerType
<1>. QED BY <1>2, <1>3, <1>4, <1>5 DEF TypeOK

LEMMA ReceiverKept ==
  ASSUME TypeOK, [Next]_vars
  PROVE  ReceiverType'
<1>. DEFINE Es == {"Paused", "Resumed", "Flushed"}
<1>0. events \in Seq(Es) /\ callbacks \in 0..MaxCallbacks
  BY DEF TypeOK, ReceiverType
<1>1. CASE UNCHANGED receiver
  BY <1>1 DEF receiver, TypeOK, ReceiverType
<1>2. CASE Sender
  <2>1. \E e, f \in Es : events' = Append(events, e) \/ events' = Append(Append(events, e), f)
    <3>0. "Paused" \in Es /\ "Resumed" \in Es /\ "Flushed" \in Es
      OBVIOUS
    <3>1. CASE RateZero
      <4>1. events' = Append(events, "Paused")
        BY <3>1 DEF RateZero
      <4>. QED BY <3>0, <4>1
    <3>2. CASE PlayoutResumes
      <4>1. events' = Append(events, "Resumed")
        BY <3>2 DEF PlayoutResumes
      <4>. QED BY <3>0, <4>1
    <3>3. CASE Flush
      <4>1. events \o <<"Flushed">> = Append(events, "Flushed")
            /\ events \o <<"Flushed", "Paused">> = Append(Append(events, "Flushed"), "Paused")
        BY <1>0
      <4>2. \/ events' = Append(events, "Flushed")
            \/ events' = Append(Append(events, "Flushed"), "Paused")
        BY <3>3, <4>1 DEF Flush
      <4>. QED BY <3>0, <4>2
    <3>. QED BY <1>2, <3>1, <3>2, <3>3 DEF Sender
  <2>2. events' \in Seq(Es)
    <3>1. PICK e \in Es, f \in Es : events' = Append(events, e) \/ events' = Append(Append(events, e), f)
      BY <2>1
    <3>. HIDE DEF Es
    <3>2. Append(events, e) \in Seq(Es)
      BY <1>0, Push
    <3>3. Append(Append(events, e), f) \in Seq(Es)
      BY <3>2, Push
    <3>. QED BY <3>1, <3>2, <3>3
  <2>3. callbacks' \in 0..MaxCallbacks
    BY <1>0, <1>2, BoundsAssumption DEF Sender, RateZero, PlayoutResumes, Flush, Callback
  <2>4. cleared' = cleared \/ cleared' = cleared + 1
    BY <1>2 DEF Sender, RateZero, PlayoutResumes, Flush
  <2>5. castPaused' \in BOOLEAN
    BY <1>2 DEF Sender, RateZero, PlayoutResumes, Flush
  <2>6. cleared' \in Nat
    BY <2>4 DEF TypeOK, ReceiverType
  <2>. QED BY <2>2, <2>3, <2>5, <2>6 DEF ReceiverType
<1>3. CASE Handle
  <2>1. events # <<>> /\ events' = Tail(events) /\ UNCHANGED <<castPaused, callbacks, cleared>>
    BY <1>3 DEF Handle, HandlePause, HandleResume, HandleFlush, Event
  <2>. QED BY <1>0, <2>1, HeadTail DEF TypeOK, ReceiverType
<1>4. UNCHANGED receiver \/ Sender \/ Handle
  BY DEF Next, vars, Tick, OweStallReload, RolloverStep, RolloverTakesFlight, RolloverDone, CastStep, ServeLoad,
         ServeStop, ServePause, ServePlay, ServeTransport, Environment, StallWindowElapses, LongPauseElapses,
         SpeakerStalls, RolloverDue, Transport, TakeTransport, CheckTransport, CommandTransport, Reload,
         BeginReload, TakeFlight, LeadQueued, PublishLoad, LoadReturns, AcceptReload, Discard, Commands, SendLoad,
         SendStop
<1>. QED BY <1>1, <1>2, <1>3, <1>4

LEMMA PausingKept ==
  ASSUME TypeOK, [Next]_vars
  PROVE  PausingType'
<1>1. \/ UNCHANGED pausing \/ HandlePause \/ HandleResume \/ LongPauseElapses
  BY DEF Next, vars, Sender, RateZero, PlayoutResumes, Flush, Handle, HandleFlush, Tick, OweStallReload,
         RolloverStep, RolloverTakesFlight, RolloverDone, CastStep, ServeLoad,
         ServeStop, ServePause, ServePlay, ServeTransport, Environment, StallWindowElapses,
         SpeakerStalls, RolloverDue, Transport, TakeTransport, CheckTransport, CommandTransport, Reload,
         BeginReload, TakeFlight, LeadQueued, PublishLoad, LoadReturns, AcceptReload, Discard, Commands, SendLoad,
         SendStop
<1>2. longs' = longs \/ (longs < MaxLongs /\ longs' = longs + 1)
  BY <1>1 DEF pausing, HandlePause, HandleResume, LongPauseElapses
<1>3. longs' \in 0..MaxLongs
  BY <1>2, BoundsAssumption DEF TypeOK, PausingType
<1>4. paused' \in BOOLEAN /\ long' \in BOOLEAN
  BY <1>1 DEF pausing, HandlePause, HandleResume, LongPauseElapses, TypeOK, PausingType
<1>. QED BY <1>3, <1>4 DEF PausingType

LEMMA OwedKept ==
  ASSUME TypeOK, [Next]_vars
  PROVE  OwedType'
<1>1. \/ UNCHANGED owed \/ HandleFlush \/ OweStallReload \/ \E t \in Everyone : AcceptReload(t)
  BY DEF Next, vars, Sender, RateZero, PlayoutResumes, Flush, Handle, HandlePause, HandleResume, Tick,
         RolloverStep, RolloverTakesFlight, RolloverDone, CastStep, ServeLoad,
         ServeStop, ServePause, ServePlay, ServeTransport, Environment, StallWindowElapses, LongPauseElapses,
         SpeakerStalls, RolloverDue, Transport, TakeTransport, CheckTransport, CommandTransport, Reload,
         BeginReload, TakeFlight, LeadQueued, PublishLoad, LoadReturns, Discard, Commands, SendLoad,
         SendStop
<1>2. ASSUME NEW t \in Everyone, AcceptReload(t) PROVE OwedType'
  <2>1. task[t].covers \in Nat
    BY DEF TypeOK, Task
  <2>2. /\ flushRequested' = flushRequested /\ stallOwed' \in {stallOwed, FALSE}
        /\ flushDone' \in {flushDone, Larger(flushDone, task[t].covers)}
    BY <1>2 DEF AcceptReload, Covers, owed
  <2>3. flushDone' \in Nat
    BY <2>1, <2>2 DEF Larger, TypeOK, OwedType
  <2>. QED BY <2>2, <2>3 DEF TypeOK, OwedType
<1>3. CASE UNCHANGED owed
  BY <1>3 DEF owed, TypeOK, OwedType
<1>4. CASE HandleFlush
  <2>1. flushRequested' = flushRequested + 1 /\ UNCHANGED <<flushDone, stallOwed>>
    BY <1>4 DEF HandleFlush
  <2>. QED BY <2>1 DEF TypeOK, OwedType
<1>5. CASE OweStallReload
  <2>1. stallOwed' = TRUE /\ UNCHANGED <<flushRequested, flushDone>>
    BY <1>5 DEF OweStallReload
  <2>. QED BY <2>1 DEF TypeOK, OwedType
<1>. QED BY <1>1, <1>2, <1>3, <1>4, <1>5

LEMMA WatchdogKept ==
  ASSUME TypeOK, [Next]_vars
  PROVE  WatchdogType'
<1>1. \/ ticks' = ticks \/ (ticks < MaxTicks /\ ticks' = ticks + 1)
  BY DEF Next, vars, Sender, RateZero, PlayoutResumes, Flush, Handle, HandlePause, HandleResume, HandleFlush,
         Tick, OweStallReload, RolloverStep, RolloverTakesFlight, RolloverDone, CastStep, ServeLoad,
         ServeStop, ServePause, ServePlay, ServeTransport, Environment, StallWindowElapses, LongPauseElapses,
         SpeakerStalls, RolloverDue, Transport, TakeTransport, CheckTransport, CommandTransport, Reload,
         BeginReload, TakeFlight, LeadQueued, PublishLoad, LoadReturns, AcceptReload, Discard, Commands, SendLoad,
         SendStop, watchdog
<1>2. stallRecent' \in BOOLEAN
  BY DEF Next, vars, Sender, RateZero, PlayoutResumes, Flush, Handle, HandlePause, HandleResume, HandleFlush,
         Tick, OweStallReload, RolloverStep, RolloverTakesFlight, RolloverDone, CastStep, ServeLoad,
         ServeStop, ServePause, ServePlay, ServeTransport, Environment, StallWindowElapses, LongPauseElapses,
         SpeakerStalls, RolloverDue, Transport, TakeTransport, CheckTransport, CommandTransport, Reload,
         BeginReload, TakeFlight, LeadQueued, PublishLoad, LoadReturns, AcceptReload, Discard, Commands, SendLoad,
         SendStop, watchdog, TypeOK, WatchdogType
<1>3. ended' = ended \/ ended' = TRUE
  <2>1. ASSUME NEW t \in Everyone, Paused(t) \/ Loaded(t) \/ Failed(t) PROVE ended' = ended \/ ended' = TRUE
    BY <2>1 DEF Paused, Loaded, Failed
  <2>2. ASSUME NEW t \in Everyone, Reload(t) PROVE ended' = ended \/ ended' = TRUE
    BY <2>1, <2>2 DEF Reload, BeginReload, TakeFlight, LeadQueued, ReloadGate, PublishLoad, LoadReturns,
                      AcceptReload, Discard
  <2>3. ended' = ended \/ Tick \/ \E t \in Everyone : Reload(t)
    BY DEF Next, vars, Sender, RateZero, PlayoutResumes, Flush, Handle, HandlePause, HandleResume, HandleFlush,
           OweStallReload, RolloverStep, RolloverTakesFlight, RolloverDone, CastStep, ServeLoad, ServeStop,
           ServePause, ServePlay, ServeTransport, Environment, StallWindowElapses, LongPauseElapses,
           SpeakerStalls, RolloverDue, Transport, TakeTransport, CheckTransport, CommandTransport,
           Commands, SendLoad, SendStop, watchdog
  <2>. QED BY <2>2, <2>3 DEF Tick
<1>4. ticks' \in 0..MaxTicks
  BY <1>1, BoundsAssumption DEF TypeOK, WatchdogType
<1>5. ended' \in BOOLEAN
  BY <1>3 DEF TypeOK, WatchdogType
<1>. QED BY <1>2, <1>4, <1>5 DEF WatchdogType

LEMMA LocksKept ==
  ASSUME PlayInv, [Next]_vars
  PROVE  LocksType'
<1>1. flight' \in {Nobody} \cup Everyone
  <2>1. flight \in {Nobody} \cup Everyone
    BY DEF PlayInv, TypeOK, LocksType
  <2>. QED BY <2>1, StepIs DEF Turn, Answered
<1>2. transport' = transport \/ transport' = Nobody \/ \E t \in Everyone : transport' = t
  BY DEF Next, vars, Sender, RateZero, PlayoutResumes, Flush, Handle, HandlePause, HandleResume, HandleFlush,
         Tick, OweStallReload, RolloverStep, RolloverTakesFlight, RolloverDone, CastStep, ServeLoad,
         ServeStop, ServePause, ServePlay, ServeTransport, TransportDone, Environment, StallWindowElapses,
         LongPauseElapses, SpeakerStalls, RolloverDue, Transport, TakeTransport, CheckTransport, CommandTransport,
         Reload, BeginReload, TakeFlight, LeadQueued, PublishLoad, LoadReturns, AcceptReload, Discard, Commands,
         SendLoad, SendStop, locks
<1>. QED BY <1>1, <1>2 DEF PlayInv, TypeOK, LocksType

-----------------------------------------------------------------------------
(***************************************************************************)
(* The speaker's media.                                                    *)
(***************************************************************************)
\* It keeps the flushes it covers, goes, or is loaded now.
MediaStep ==
  \/ media'.state = "none"
  \/ media.state # "none" /\ media'.cover = media.cover
  \/ ServeLoad /\ media'.cover = cleared

LEMMA EndedMedia ==
  ASSUME TypeOK, BodyEnds
  PROVE  media' \in Media /\ media'.state = media.state /\ media'.cover = media.cover
<1>1. media \in Media
  BY DEF TypeOK, SpeakerType
<1>. QED BY <1>1 DEF BodyEnds, Media

LEMMA MediaKept ==
  ASSUME TypeOK, [Next]_vars
  PROVE  media' \in Media /\ MediaStep
<1>0. media \in Media /\ cleared \in Nat
  BY DEF TypeOK, SpeakerType, ReceiverType
<1>1. CASE UNCHANGED media
  BY <1>0, <1>1 DEF MediaStep
<1>2. CASE BodyEnds
  BY <1>2, EndedMedia DEF MediaStep
<1>3. CASE LongPauseElapses
  BY <1>0, <1>3 DEF LongPauseElapses, Media, MediaStep
<1>4. CASE ServeLoad
  <2>1. media' \in {LoadedNow, media, NoMedia}
    BY <1>4 DEF ServeLoad
  <2>2. LoadedNow \in Media /\ LoadedNow.cover = cleared /\ NoMedia \in Media /\ NoMedia.state = "none"
    BY <1>0 DEF LoadedNow, NoMedia, Media
  <2>. QED BY <1>0, <1>4, <2>1, <2>2 DEF MediaStep
<1>5. CASE ServeStop
  BY <1>5 DEF ServeStop, NoMedia, Media, MediaStep
<1>6. CASE ServePause \/ ServePlay
  <2>1. \/ media' = media
        \/ media.state # "none" /\ \E to \in {"paused", "playing"} : media' = [media EXCEPT !.state = to]
    BY <1>6 DEF ServePause, ServePlay, ServeTransport
  <2>. QED BY <1>0, <2>1 DEF Media, MediaStep
<1>7. \/ UNCHANGED media \/ BodyEnds \/ LongPauseElapses \/ ServeLoad \/ ServeStop \/ ServePause \/ ServePlay
  BY DEF Next, vars, Sender, RateZero, PlayoutResumes, Flush, Handle, HandlePause, HandleResume, HandleFlush,
         Tick, OweStallReload, RolloverStep, RolloverTakesFlight, RolloverDone, CastStep,
         Environment, StallWindowElapses, SpeakerStalls, RolloverDue, Transport, TakeTransport, CheckTransport,
         CommandTransport, Reload, BeginReload, TakeFlight, LeadQueued, PublishLoad, LoadReturns, AcceptReload,
         Discard, Commands, SendLoad, SendStop, speaker
<1>. QED BY <1>1, <1>2, <1>3, <1>4, <1>5, <1>6, <1>7

LEMMA SpeakerKept ==
  ASSUME PlayInv, [Next]_vars
  PROVE  SpeakerType'
<1>1. media' \in Media
  BY MediaKept DEF PlayInv
<1>2. queue' \in Seq([op : Ops, by : Everyone])
  <2>1. queue \in Seq([op : Ops, by : Everyone])
    BY DEF PlayInv, TypeOK, SpeakerType, Ops
  <2>2. CASE queue' = queue
    BY <2>1, <2>2
  <2>3. ASSUME NEW t \in Everyone, NEW op \in Ops, queue' = Append(queue, [op |-> op, by |-> t])
        PROVE  queue' \in Seq([op : Ops, by : Everyone])
    BY <2>1, <2>3, Push
  <2>4. CASE queue # <<>> /\ queue' = Tail(queue)
    BY <2>1, <2>4, HeadTail
  <2>. QED BY <2>2, <2>3, <2>4, StepIs DEF Turn, Answered
<1>3. /\ stalls' = stalls \/ (stalls < MaxStalls /\ stalls' = stalls + 1)
      /\ rolls' = rolls \/ (rolls < MaxRolls /\ rolls' = rolls + 1)
  BY DEF Next, vars, Sender, RateZero, PlayoutResumes, Flush, Handle, HandlePause, HandleResume, HandleFlush,
         Tick, OweStallReload, RolloverStep, RolloverTakesFlight, RolloverDone, CastStep, ServeLoad,
         ServeStop, ServePause, ServePlay, ServeTransport, Environment, StallWindowElapses, LongPauseElapses,
         SpeakerStalls, RolloverDue, Transport, TakeTransport, CheckTransport, CommandTransport, Reload,
         BeginReload, TakeFlight, LeadQueued, PublishLoad, LoadReturns, AcceptReload, Discard, Commands, SendLoad,
         SendStop, speaker
<1>4. fails' = fails \/ (fails < MaxFails /\ fails' = fails + 1)
  BY DEF Next, vars, Sender, RateZero, PlayoutResumes, Flush, Handle, HandlePause, HandleResume, HandleFlush,
         Tick, OweStallReload, RolloverStep, RolloverTakesFlight, RolloverDone, CastStep, ServeLoad,
         ServeStop, ServePause, ServePlay, ServeTransport, MayFail, Environment, StallWindowElapses,
         LongPauseElapses, SpeakerStalls, RolloverDue, Transport, TakeTransport, CheckTransport, CommandTransport,
         Reload, BeginReload, TakeFlight, LeadQueued, PublishLoad, LoadReturns, AcceptReload, Discard, Commands,
         SendLoad, SendStop, speaker
<1>5. /\ stalls' \in 0..MaxStalls /\ rolls' \in 0..MaxRolls /\ fails' \in 0..MaxFails
  BY <1>3, <1>4, BoundsAssumption DEF PlayInv, TypeOK, SpeakerType
<1>. QED BY <1>1, <1>2, <1>5 DEF SpeakerType, Ops

LEMMA PlayInit == Init => PlayInv
<1>. SUFFICES ASSUME Init PROVE PlayInv
  OBVIOUS
<1>1. /\ \A t \in Everyone : task[t] = NoTask
      /\ queue = <<>>
  BY DEF Init
<1>. QED BY <1>1, TypeInit, NoTaskType DEF PlayInv, IdleInv, FlightInv, QueueInv, Holding

LEMMA PlayStep ==
  ASSUME PlayInv, [Next]_vars
  PROVE  PlayInv'
<1>1. task' \in [Everyone -> Task] /\ IdleInv' /\ FlightInv' /\ QueueInv'
  <2>1. CASE UNCHANGED <<task, flight, queue>>
    BY <2>1 DEF PlayInv, TypeOK, IdleInv, FlightInv, QueueInv
  <2>2. CASE Answered(Issuer)
    BY <2>2, NextIssuer, AnswerKeeps DEF Answered
  <2>. QED BY <2>1, <2>2, StepIs, TurnKeeps
<1>2. TypeOK
  BY DEF PlayInv
<1>3. TypeOK'
  BY <1>1, <1>2, ReceiverKept, PausingKept, OwedKept, WatchdogKept, LocksKept, SpeakerKept DEF TypeOK
<1>. QED BY <1>1, <1>3 DEF PlayInv

\* The locks and the Cast worker's queue: who is past the flight lock holds it, and every command
\* has the task that waits for it.
THEOREM PlaybackInvariant == Spec => []PlayInv
BY PlayInit, PlayStep, PTL DEF Spec

\* Every variable keeps its type.
THEOREM TypeCorrect == Spec => []TypeOK
<1>1. PlayInv => TypeOK
  BY DEF PlayInv
<1>. QED BY <1>1, PlaybackInvariant, PTL

\* For every number of tasks: from the published LOAD to its return a task holds reload_flight, so
\* re-LOADs, the watchdog's and the rollover loop's never overlap.
THEOREM LoadsAreExclusive == Spec => []OneLoadAtATime
<1>1. PlayInv => OneLoadAtATime
  BY DEF PlayInv, FlightInv, Holding, OneLoadAtATime
<1>. QED BY <1>1, PlaybackInvariant, PTL

-----------------------------------------------------------------------------
(***************************************************************************)
(* Flushes.                                                                *)
(***************************************************************************)
\* Every flush that cleared the ring is requested or its event is on its way.
RequestsInv == flushRequested + Occurrences(events, "Flushed") = cleared

\* A LOAD covers what was requested before it was sent.
CoversInv ==
  /\ \A t \in Everyone : task[t].covers <= flushRequested
  /\ flushDone <= flushRequested
  /\ \A t \in Everyone : Done(task[t]) /\ media.state # "none" => task[t].covers <= media.cover
  /\ FlushDoneIsCovered

LEMMA FlushCount ==
  ASSUME NEW q \in Seq({"Paused", "Resumed", "Flushed"})
  PROVE  /\ Occurrences(Append(q, "Flushed"), "Flushed") = Occurrences(q, "Flushed") + 1
         /\ Occurrences(Append(q, "Paused"), "Flushed") = Occurrences(q, "Flushed")
         /\ Occurrences(Append(q, "Resumed"), "Flushed") = Occurrences(q, "Flushed")
<1>. DEFINE Es == {"Paused", "Resumed", "Flushed"}
<1>1. "Paused" \in Es /\ "Resumed" \in Es /\ "Flushed" \in Es /\ q \in Seq(Es)
  OBVIOUS
<1>2. \A e \in Es : Occurrences(Append(q, e), "Flushed") = IF e = "Flushed" THEN Occurrences(q, "Flushed") + 1
                                                          ELSE Occurrences(q, "Flushed")
  <2>. HIDE DEF Es
  <2>. QED BY <1>1, OccurrencesPush
<1>. QED BY <1>1, <1>2

LEMMA RequestsInit == Init => RequestsInv
<1>. SUFFICES ASSUME Init PROVE RequestsInv
  OBVIOUS
<1>. DEFINE Es == {"Paused", "Resumed", "Flushed"}
<1>1. Occurrences(<<>>, "Flushed") = 0
  <2>1. {i \in DOMAIN <<>> : <<>>[i] = "Flushed"} = {}
    OBVIOUS
  <2>. QED BY <2>1, FS_EmptySet DEF Occurrences
<1>3. <<>> \in Seq(Es) /\ <<"Flushed">> \in Seq(Es) /\ <<"Paused">> = Append(<<>>, "Paused")
      /\ <<"Flushed">> = Append(<<>>, "Flushed") /\ <<"Flushed", "Paused">> = Append(<<"Flushed">>, "Paused")
  OBVIOUS
<1>4. Occurrences(<<"Paused">>, "Flushed") = 0 /\ Occurrences(<<"Flushed">>, "Flushed") = 1
  <2>. DEFINE empty == <<>>
  <2>1. empty \in Seq(Es) /\ Occurrences(empty, "Flushed") = 0
    BY <1>1
  <2>2. /\ Occurrences(Append(empty, "Flushed"), "Flushed") = Occurrences(empty, "Flushed") + 1
        /\ Occurrences(Append(empty, "Paused"), "Flushed") = Occurrences(empty, "Flushed")
    <3>. HIDE DEF empty
    <3>. QED BY <2>1, FlushCount
  <2>. QED BY <1>3, <2>1, <2>2
<1>5. Occurrences(<<"Flushed", "Paused">>, "Flushed") = 1
  <2>. DEFINE one == <<"Flushed">>
  <2>1. one \in Seq(Es) /\ Occurrences(one, "Flushed") = 1
    BY <1>3, <1>4
  <2>2. Occurrences(Append(one, "Paused"), "Flushed") = Occurrences(one, "Flushed")
    <3>. HIDE DEF one
    <3>. QED BY <2>1, FlushCount
  <2>. QED BY <1>3, <2>1, <2>2
<1>6. flushRequested = 0 /\ cleared = IF Len(events) = 2 THEN 1 ELSE 0
  BY DEF Init
<1>7. events \in {<<>>, <<"Paused">>, <<"Flushed", "Paused">>}
  BY DEF Init
<1>. QED BY <1>1, <1>4, <1>5, <1>6, <1>7 DEF RequestsInv

LEMMA RequestsStep ==
  ASSUME TypeOK, RequestsInv, [Next]_vars
  PROVE  RequestsInv'
<1>. DEFINE Es == {"Paused", "Resumed", "Flushed"}
<1>0. /\ events \in Seq(Es) /\ flushRequested \in Nat /\ cleared \in Nat
      /\ Occurrences(events, "Flushed") \in Nat
  BY OccurrencesType DEF TypeOK, ReceiverType, OwedType
<1>1. CASE UNCHANGED <<events, cleared, flushRequested>>
  BY <1>1 DEF RequestsInv
<1>2. CASE RateZero \/ PlayoutResumes
  <2>1. PICK e \in {"Paused", "Resumed"} : events' = Append(events, e)
    BY <1>2 DEF RateZero, PlayoutResumes
  <2>2. Occurrences(events', "Flushed") = Occurrences(events, "Flushed")
    BY <1>0, <2>1, FlushCount
  <2>3. UNCHANGED <<cleared, flushRequested>>
    BY <1>2 DEF RateZero, PlayoutResumes, owed
  <2>. QED BY <2>2, <2>3 DEF RequestsInv
<1>3. CASE Flush
  <2>1. cleared' = cleared + 1 /\ flushRequested' = flushRequested
    BY <1>3 DEF Flush, owed
  <2>2. /\ events \o <<"Flushed">> = Append(events, "Flushed")
        /\ events \o <<"Flushed", "Paused">> = Append(Append(events, "Flushed"), "Paused")
        /\ Append(events, "Flushed") \in Seq(Es)
    BY <1>0
  <2>3. \/ events' = Append(events, "Flushed")
        \/ events' = Append(Append(events, "Flushed"), "Paused")
    BY <1>3, <2>2 DEF Flush
  <2>4. Occurrences(Append(events, "Flushed"), "Flushed") = Occurrences(events, "Flushed") + 1
    BY <1>0, FlushCount
  <2>5. Occurrences(Append(Append(events, "Flushed"), "Paused"), "Flushed")
          = Occurrences(Append(events, "Flushed"), "Flushed")
    BY <2>2, FlushCount
  <2>6. Occurrences(events', "Flushed") = Occurrences(events, "Flushed") + 1
    BY <2>3, <2>4, <2>5
  <2>. QED BY <1>0, <2>1, <2>6 DEF RequestsInv
<1>4. CASE Handle
  <2>1. /\ events # <<>> /\ events' = Tail(events) /\ cleared' = cleared
        /\ flushRequested' = IF Head(events) = "Flushed" THEN flushRequested + 1 ELSE flushRequested
    BY <1>4 DEF Handle, HandlePause, HandleResume, HandleFlush, Event, owed
  <2>2. Occurrences(events, "Flushed") = IF Head(events) = "Flushed" THEN Occurrences(events', "Flushed") + 1
                                         ELSE Occurrences(events', "Flushed")
    BY <1>0, <2>1, OccurrencesTake
  <2>3. Occurrences(events', "Flushed") \in Nat
    <3>1. events' \in Seq(Es)
      BY <1>0, <2>1, HeadTail
    <3>. QED BY <3>1, OccurrencesType
  <2>. QED BY <1>0, <2>1, <2>2, <2>3 DEF RequestsInv
<1>5. \/ UNCHANGED <<events, cleared, flushRequested>> \/ RateZero \/ PlayoutResumes \/ Flush \/ Handle
  BY DEF Next, vars, receiver, owed, Sender, Tick, OweStallReload, RolloverStep, RolloverTakesFlight, RolloverDone,
         CastStep, ServeLoad, ServeStop, ServePause, ServePlay, ServeTransport, Environment, StallWindowElapses,
         LongPauseElapses, SpeakerStalls, RolloverDue, Transport, TakeTransport, CheckTransport, CommandTransport,
         Reload, BeginReload, TakeFlight, LeadQueued, PublishLoad, LoadReturns, AcceptReload, Discard, Commands,
         SendLoad, SendStop
<1>. QED BY <1>1, <1>2, <1>3, <1>4, <1>5

LEMMA CoversInit == Init => CoversInv
<1>. SUFFICES ASSUME Init PROVE CoversInv
  OBVIOUS
<1>1. /\ \A t \in Everyone : task[t] = NoTask
      /\ flushRequested = 0 /\ flushDone = 0 /\ media = LoadedNow
  BY DEF Init
<1>2. cleared \in Nat /\ media.cover = cleared
  BY <1>1, TypeInit DEF TypeOK, ReceiverType, LoadedNow
<1>. QED BY <1>1, <1>2, NoTaskType DEF CoversInv, Done, FlushDoneIsCovered

\* A task's covers never run ahead, and a returned LOAD keeps them.
LEMMA CoversOfTasks ==
  ASSUME PlayInv, CoversInv, [Next]_vars, NEW u \in Everyone
  PROVE  /\ task'[u].covers <= flushRequested
         /\ ServeLoad \/ (Done(task'[u]) => Done(task[u]) /\ task'[u].covers = task[u].covers)
         /\ ServeLoad => task'[u].covers = task[u].covers
<1>0. /\ task[u].covers \in Nat /\ flushRequested \in Nat /\ task[u].covers <= flushRequested
  BY DEF PlayInv, TypeOK, Task, OwedType, CoversInv
<1>1. CASE UNCHANGED <<task, flight, queue>> /\ ~ServeLoad
  BY <1>0, <1>1
<1>2. ASSUME NEW T \in SUBSET Everyone, Turn(T), ~ServeLoad
      PROVE  /\ task'[u].covers <= flushRequested
             /\ Done(task'[u]) => Done(task[u]) /\ task'[u].covers = task[u].covers
  BY <1>0, <1>2 DEF Turn
<1>3. CASE ServeLoad
  <2>1. Answered(Issuer) /\ task'[Issuer].covers = task[Issuer].covers
    BY <1>3, LoadServed
  <2>2. task'[u].covers = task[u].covers
    BY <2>1 DEF Answered
  <2>. QED BY <1>0, <1>3, <2>2
<1>4. CASE ServeStop \/ ServePause \/ ServePlay
  <2>1. Answered(Issuer) /\ ~Done(task'[Issuer])
    BY <1>4, OthersAnswer
  <2>2. u # Issuer => task'[u] = task[u]
    BY <2>1 DEF Answered
  <2>3. task'[Issuer].covers \in {0, task[Issuer].covers}
    BY <2>1 DEF Answered
  <2>4. Done(task'[u]) => Done(task[u]) /\ task'[u].covers = task[u].covers
    BY <2>1, <2>2
  <2>5. task'[u].covers <= flushRequested
    BY <1>0, <2>2, <2>3
  <2>6. ~ServeLoad
    BY <1>4 DEF ServeLoad, ServeStop, ServePause, ServePlay, ServeTransport, Serve
  <2>. QED BY <2>4, <2>5, <2>6
<1>. QED BY <1>1, <1>2, <1>3, <1>4, StepIs DEF CastStep

LEMMA CoversStep ==
  ASSUME PlayInv, RequestsInv, CoversInv, [Next]_vars
  PROVE  CoversInv'
<1>0. /\ flushRequested \in Nat /\ flushDone \in Nat /\ cleared \in Nat /\ media \in Media
      /\ \A u \in Everyone : task[u].covers \in Nat
      /\ Occurrences(events, "Flushed") \in Nat
  BY OccurrencesType DEF PlayInv, TypeOK, OwedType, ReceiverType, SpeakerType, Task
<1>1. flushRequested <= cleared
  BY <1>0 DEF RequestsInv
<1>2. /\ task' \in [Everyone -> Task] /\ flushRequested' \in Nat /\ flushDone' \in Nat /\ media' \in Media
      /\ \A u \in Everyone : task'[u].covers \in Nat
  BY PlayStep DEF PlayInv, TypeOK, OwedType, SpeakerType, Task
<1>3. MediaStep
  BY MediaKept DEF PlayInv
<1>4. flushRequested' = flushRequested \/ flushRequested' = flushRequested + 1
  BY DEF Next, vars, Sender, RateZero, PlayoutResumes, Flush, Handle, HandlePause, HandleResume, HandleFlush, Tick,
         OweStallReload, RolloverStep, RolloverTakesFlight, RolloverDone, CastStep, ServeLoad, ServeStop,
         ServePause, ServePlay, ServeTransport, Environment, StallWindowElapses, LongPauseElapses,
         SpeakerStalls, RolloverDue, Transport, TakeTransport, CheckTransport, CommandTransport, Reload,
         BeginReload, TakeFlight, LeadQueued, PublishLoad, LoadReturns, AcceptReload, Discard, Commands, SendLoad,
         SendStop, owed
<1>5. flushDone' = flushDone
      \/ \E t \in Everyone : AcceptReload(t) /\ ~paused /\ flushDone' = Larger(flushDone, task[t].covers)
  BY DEF Next, vars, Sender, RateZero, PlayoutResumes, Flush, Handle, HandlePause, HandleResume, HandleFlush, Tick,
         OweStallReload, RolloverStep, RolloverTakesFlight, RolloverDone, CastStep, ServeLoad, ServeStop,
         ServePause, ServePlay, ServeTransport, Environment, StallWindowElapses, LongPauseElapses,
         SpeakerStalls, RolloverDue, Transport, TakeTransport, CheckTransport, CommandTransport, Reload,
         BeginReload, TakeFlight, LeadQueued, PublishLoad, LoadReturns, AcceptReload, Covers, Discard, Commands,
         SendLoad, SendStop, owed
<1>6. \A t \in Everyone : task'[t].covers <= flushRequested'
  <2>. SUFFICES ASSUME NEW t \in Everyone PROVE task'[t].covers <= flushRequested'
    OBVIOUS
  <2>1. task'[t].covers <= flushRequested
    BY CoversOfTasks
  <2>. QED BY <1>0, <1>2, <1>4, <2>1
\* What the speaker held covers what it covered, unless it was loaded anew.
<1>7. ASSUME NEW n \in Nat, n <= flushRequested, media.state # "none" => n <= media.cover
      PROVE  media'.state # "none" => n <= media'.cover
  <2>1. media.cover \in Nat
    BY <1>0 DEF Media
  <2>. QED BY <1>0, <1>1, <1>3, <1>7, <2>1 DEF MediaStep
<1>8. \A t \in Everyone : Done(task'[t]) /\ media'.state # "none" => task'[t].covers <= media'.cover
  <2>. SUFFICES ASSUME NEW t \in Everyone, Done(task'[t]), media'.state # "none"
                PROVE  task'[t].covers <= media'.cover
    OBVIOUS
  <2>1. CASE Done(task[t]) /\ task'[t].covers = task[t].covers
    <3>1. task[t].covers \in Nat /\ task[t].covers <= flushRequested
          /\ (media.state # "none" => task[t].covers <= media.cover)
      BY <1>0, <2>1 DEF CoversInv
    <3>. QED BY <1>7, <2>1, <3>1
  <2>2. CASE ServeLoad /\ ~(Done(task[t]) /\ task'[t].covers = task[t].covers)
    <3>1. task'[t].covers = task[t].covers
      BY <2>2, CoversOfTasks
    <3>2. t = Issuer
      <4>1. Answered(Issuer)
        BY <2>2, LoadServed
      <4>. QED BY <2>2, <3>1, <4>1 DEF Answered
    <3>3. task'[t].ok = TRUE /\ task[t].covers <= flushRequested
      <4>1. PICK ok \in BOOLEAN : task' = [task EXCEPT ![Issuer].pc = "loaded", ![Issuer].ok = ok]
        BY <2>2 DEF ServeLoad
      <4>2. task \in [Everyone -> Task] /\ task[t] \in Task
        BY DEF PlayInv, TypeOK
      <4>3. task'[t] = [task[t] EXCEPT !.pc = "loaded", !.ok = ok]
        BY <3>2, <4>1, <4>2
      <4>4. task'[t].pc = "loaded"
        BY <4>2, <4>3 DEF Task
      <4>5. task'[t].ok
        BY <4>4 DEF Done
      <4>6. task'[t].ok = ok
        BY <4>2, <4>3 DEF Task
      <4>. QED BY <4>5, <4>6 DEF CoversInv
    <3>4. media' = LoadedNow
      <4>1. PICK ok \in BOOLEAN : /\ media' \in (IF ok THEN {LoadedNow} ELSE {media, NoMedia})
                                  /\ task' = [task EXCEPT ![Issuer].pc = "loaded", ![Issuer].ok = ok]
        BY <2>2 DEF ServeLoad
      <4>2. task \in [Everyone -> Task] /\ task[t] \in Task
        BY DEF PlayInv, TypeOK
      <4>3. task'[t] = [task[t] EXCEPT !.pc = "loaded", !.ok = ok]
        BY <3>2, <4>1, <4>2
      <4>4. task'[t].ok = ok
        BY <4>2, <4>3 DEF Task
      <4>. QED BY <3>3, <4>1, <4>4
    <3>5. media'.cover = cleared
      BY <3>4 DEF LoadedNow
    <3>. QED BY <1>0, <1>1, <3>1, <3>3, <3>5
  <2>. QED BY <2>1, <2>2, CoversOfTasks
<1>9. flushDone' <= flushRequested' /\ FlushDoneIsCovered'
  <2>1. CASE flushDone' = flushDone
    <3>1. flushDone \in Nat /\ flushDone <= flushRequested /\ (media.state # "none" => flushDone <= media.cover)
      BY <1>0 DEF CoversInv, FlushDoneIsCovered
    <3>2. media'.state # "none" => flushDone <= media'.cover
      BY <1>7, <3>1
    <3>3. flushDone <= flushRequested'
      BY <1>0, <1>4, <3>1
    <3>. QED BY <2>1, <3>2, <3>3 DEF FlushDoneIsCovered
  <2>2. ASSUME NEW t \in Everyone, AcceptReload(t), flushDone' = Larger(flushDone, task[t].covers)
        PROVE  flushDone' <= flushRequested' /\ FlushDoneIsCovered'
    <3>1. Done(task[t]) /\ media' = media
      BY <2>2 DEF AcceptReload, Reloading, At, Done, speaker
    <3>2. /\ task[t].covers <= flushRequested /\ flushDone <= flushRequested
          /\ media.state # "none" => task[t].covers <= media.cover /\ flushDone <= media.cover
      BY <3>1 DEF CoversInv, FlushDoneIsCovered
    <3>3. flushDone' \in {flushDone, task[t].covers}
      BY <2>2 DEF Larger
    <3>4. flushDone' <= flushRequested'
      BY <1>0, <1>4, <3>2, <3>3
    <3>5. media'.state # "none" => flushDone' <= media'.cover
      BY <3>1, <3>2, <3>3
    <3>. QED BY <3>4, <3>5 DEF FlushDoneIsCovered
  <2>. QED BY <1>5, <2>1, <2>2
<1>. QED BY <1>6, <1>8, <1>9 DEF CoversInv

\* For every number of tasks, callbacks and failures: a flush is taken for done only if what the
\* speaker holds was loaded after the flush cleared the ring.
THEOREM FlushesAreCovered == Spec => []FlushDoneIsCovered
<1>1. CoversInv => FlushDoneIsCovered
  BY DEF CoversInv
<1>2. PlayInv => TypeOK
  BY DEF PlayInv
<1>. QED BY <1>1, <1>2, RequestsInit, RequestsStep, CoversInit, CoversStep, PlaybackInvariant, PTL DEF Spec

-----------------------------------------------------------------------------
(***************************************************************************)
(* At rest.  What holds once nothing is on its way needs an invariant of   *)
(* every moment before: while a flush or a stall is owed somebody is on    *)
(* the way to make it good, and while a paused session is heard somebody   *)
(* is on the way to silence it.  First, what one step does to one task.    *)
(***************************************************************************)
\* Task u is at its next step, and what it carries is what it carried.
Carries(u) == task'[u].kind = task[u].kind /\ task'[u].request = task[u].request /\ task'[u].ok = task[u].ok
Moves(u, pc) == Carries(u) /\ task'[u].covers = task[u].covers /\ task'[u].pc = pc
Ends(u) == task'[u] = NoTask
Abandons(u) == Ends(u) \/ (task[u].kind = "stall" /\ Moves(u, "owe"))

TransportFate(u) ==
  \/ task[u].pc = "lock" /\ Moves(u, "check") /\ transport = Nobody /\ transport' = u
  \/ /\ task[u].pc = "check" /\ task[u].kind \in {"pause", "play"}
     /\ \/ Wanted(u) /\ Moves(u, "command") /\ transport' = transport
        \/ ~Wanted(u) /\ Ends(u) /\ transport' = Nobody
  \/ /\ task[u].pc = "command" /\ Moves(u, "acking") /\ transport' = transport
     /\ queue' = Append(queue, [op |-> IF task[u].kind = "pause" THEN "PAUSE" ELSE "PLAY", by |-> u])

ReloadFate(u) ==
  /\ task[u].kind \in {"reload", "stall"}
  /\ \/ paused /\ task[u].pc \in {"check", "flight", "lead", "publish", "spawned"} /\ Abandons(u)
     \/ ~paused /\ task[u].pc = "check" /\ Moves(u, "flight")
     \/ ~paused /\ task[u].pc \in {"flight", "lead"} /\ AlreadySatisfied(u) /\ Ends(u)
     \/ /\ ~paused /\ task[u].pc \in {"flight", "lead"} /\ Carries(u) /\ task'[u].covers = flushRequested
        /\ task'[u].pc = IF task[u].pc = "flight" THEN "lead" ELSE "publish"
     \/ ~paused /\ task[u].pc = "publish" /\ Moves(u, "spawned")
     \/ ~paused /\ task[u].pc = "spawned" /\ Moves(u, "load")
     \/ /\ task[u].pc = "loaded"
        /\ \/ paused /\ Moves(u, "stop")
           \/ ~paused /\ task[u].ok /\ Moves(u, "accept")
           \/ ~paused /\ ~task[u].ok /\ Ends(u)
     \/ task[u].pc \in {"accept", "discard"} /\ paused
        /\ Moves(u, IF task[u].pc = "accept" THEN "discard" ELSE "stop")
     \/ /\ ~paused /\ task[u].pc = "accept" /\ Ends(u)
        /\ flushDone' = Larger(flushDone, task[u].covers) /\ stallOwed' = FALSE
     \/ ~paused /\ task[u].pc = "discard" /\ Abandons(u)

CommandFate(u) ==
  \/ task[u].pc = "load" /\ Moves(u, "loading") /\ queue' = Append(queue, [op |-> "LOAD", by |-> u])
  \/ task[u].pc = "stop" /\ Moves(u, "stopping") /\ queue' = Append(queue, [op |-> "STOP", by |-> u])

Born(u) ==
  /\ task[u].kind = "none"
  /\ \/ /\ u # Rollover
        /\ \/ task'[u] = NewTask("pause", "lock", 0)
           \/ task'[u] = NewTask("play", "lock", 0)
           \/ \E r \in Nat : task'[u] = NewTask("reload", "check", r)
           \/ task'[u] = NewTask("stall", "check", 0)
     \/ RolloverDue /\ task'[u] = NewTask("roll", "flight", 0)

LEMMA GotoMoves ==
  ASSUME PlayInv, NEW t \in Everyone, NEW pc \in Steps, Goto(t, pc)
  PROVE  Moves(t, pc)
<1>1. task \in [Everyone -> Task]
  BY DEF PlayInv, TypeOK
<1>2. task'[t] = [task[t] EXCEPT !.pc = pc] /\ task[t] \in Task
  BY <1>1 DEF Goto
<1>. QED BY <1>2 DEF Moves, Carries, Task

LEMMA FinishEnds ==
  ASSUME PlayInv, NEW t \in Everyone, Finish(t)
  PROVE  Ends(t)
BY DEF PlayInv, TypeOK, Finish, Ends

LEMMA PausedAbandons ==
  ASSUME PlayInv, NEW t \in Everyone, Paused(t)
  PROVE  Abandons(t)
BY GotoMoves, FinishEnds DEF Paused, Abandons, Steps

LEMMA TransportFates ==
  ASSUME PlayInv, NEW t \in Everyone, Transport(t)
  PROVE  TransportFate(t)
<1>. USE DEF At
<1>1. CASE TakeTransport(t)
  BY <1>1, GotoMoves DEF TakeTransport, TransportFate, Steps
<1>2. CASE CheckTransport(t)
  <2>1. CASE StillWanted(t)
    BY <1>2, <2>1, GotoMoves DEF CheckTransport, StillWanted, TransportFate, Steps
  <2>2. CASE ~StillWanted(t)
    BY <1>2, <2>2, FinishEnds DEF CheckTransport, StillWanted, TransportFate
  <2>. QED BY <2>1, <2>2
<1>3. CASE CommandTransport(t)
  BY <1>3, GotoMoves DEF CommandTransport, TransportFate, Steps, Send, locks
<1>. QED BY <1>1, <1>2, <1>3 DEF Transport

LEMMA GateFates ==
  ASSUME PlayInv, NEW t \in Everyone, NEW next \in {"lead", "publish"}, ReloadGate(t, next)
  PROVE  \/ paused /\ Abandons(t)
         \/ ~paused /\ AlreadySatisfied(t) /\ Ends(t)
         \/ ~paused /\ Carries(t) /\ task'[t].covers = flushRequested /\ task'[t].pc = next
<1>1. CASE paused
  BY <1>1, PausedAbandons DEF ReloadGate
<1>2. CASE ~paused /\ AlreadySatisfied(t)
  BY <1>2, FinishEnds DEF ReloadGate, Loaded
<1>3. CASE ~paused /\ ~AlreadySatisfied(t)
  <2>. DEFINE new == [task[t] EXCEPT !.pc = next, !.covers = flushRequested]
  <2>1. task \in [Everyone -> Task] /\ task[t] \in Task
    BY DEF PlayInv, TypeOK
  <2>2. task'[t] = new
    BY <1>3, <2>1 DEF ReloadGate
  <2>3. /\ new.kind = task[t].kind /\ new.request = task[t].request /\ new.ok = task[t].ok
        /\ new.pc = next /\ new.covers = flushRequested
    BY <2>1 DEF Task
  <2>. HIDE DEF new
  <2>. QED BY <1>3, <2>2, <2>3 DEF Carries
<1>. QED BY <1>1, <1>2, <1>3

LEMMA ReloadFates ==
  ASSUME PlayInv, NEW t \in Everyone, Reload(t)
  PROVE  ReloadFate(t)
<1>. USE DEF Reloading, At
<1>0. task[t].kind \in {"reload", "stall"}
  BY DEF Reload, BeginReload, TakeFlight, LeadQueued, PublishLoad, LoadReturns, AcceptReload, Discard
<1>1. CASE BeginReload(t)
  BY <1>0, <1>1, PausedAbandons, GotoMoves DEF BeginReload, ReloadFate, Steps
<1>2. CASE TakeFlight(t)
  <2>1. task[t].pc = "flight" /\ ReloadGate(t, "lead")
    BY <1>2 DEF TakeFlight
  <2>. QED BY <1>0, <2>1, GateFates DEF ReloadFate
<1>3. CASE LeadQueued(t)
  <2>1. task[t].pc = "lead" /\ ReloadGate(t, "publish")
    BY <1>3 DEF LeadQueued
  <2>. QED BY <1>0, <2>1, GateFates DEF ReloadFate
<1>4. CASE PublishLoad(t)
  <2>1. CASE paused
    BY <1>0, <1>4, <2>1, PausedAbandons DEF PublishLoad, ReloadFate
  <2>2. CASE ~paused
    BY <1>0, <1>4, <2>2, GotoMoves DEF PublishLoad, ReloadFate, Steps
  <2>. QED BY <2>1, <2>2
<1>5. CASE LoadReturns(t)
  BY <1>0, <1>5, GotoMoves, FinishEnds DEF LoadReturns, Failed, ReloadFate, Steps
<1>6. CASE AcceptReload(t)
  <2>1. CASE paused
    BY <1>0, <1>6, <2>1, GotoMoves DEF AcceptReload, ReloadFate, Steps
  <2>2. CASE ~paused
    BY <1>0, <1>6, <2>2, FinishEnds DEF AcceptReload, Loaded, Covers, ReloadFate
  <2>. QED BY <2>1, <2>2
<1>7. CASE Discard(t)
  BY <1>0, <1>7, GotoMoves, PausedAbandons DEF Discard, ReloadFate, Steps
<1>. QED BY <1>1, <1>2, <1>3, <1>4, <1>5, <1>6, <1>7 DEF Reload

LEMMA CommandFates ==
  ASSUME PlayInv, NEW t \in Everyone, Commands(t)
  PROVE  CommandFate(t)
BY GotoMoves DEF Commands, SendLoad, SendStop, CommandFate, At, Send, Steps

\* The Cast worker's answers, as the task and the speaker get them.
LoadFate(u) ==
  /\ ServeLoad /\ task[u].pc = "loading" /\ task'[u].pc = "loaded" /\ task'[u].covers = task[u].covers
  /\ task'[u].kind = task[u].kind /\ task'[u].request = task[u].request
  /\ task'[u].ok \/ fails' = fails + 1
StopFate(u) == ServeStop /\ task[u].pc = "stopping" /\ media' = NoMedia /\ Abandons(u)
AckFate(u, op) ==
  /\ task[u].pc = "acking" /\ queue # <<>> /\ Head(queue) = [op |-> op, by |-> u]
  /\ transport' = Nobody
  /\ Ends(u) \/ (task[u].kind # "pause" /\ task'[u] = NewTask("reload", "check", 0))
CastFate(u) ==
  \/ LoadFate(u) \/ StopFate(u)
  \/ ServePause /\ AckFate(u, "PAUSE")
  \/ ServePlay /\ AckFate(u, "PLAY")

LEMMA CastFates ==
  ASSUME PlayInv, CastStep
  PROVE  CastFate(Issuer)
<1>. DEFINE u == Issuer
<1>1. CASE ServeLoad
  <2>1. u \in Everyone /\ task[u].pc = "loading"
    BY <1>1, NextIssuer DEF ServeLoad, Serve, Awaiting
  <2>2. PICK ok \in BOOLEAN : MayFail(ok) /\ task' = [task EXCEPT ![u].pc = "loaded", ![u].ok = ok]
    BY <1>1 DEF ServeLoad
  <2>. DEFINE new == [task[u] EXCEPT !.pc = "loaded", !.ok = ok]
  <2>3. task \in [Everyone -> Task] /\ task[u] \in Task
    BY <2>1 DEF PlayInv, TypeOK
  <2>4. task'[u] = new
    BY <2>1, <2>2, <2>3
  <2>5. /\ new.kind = task[u].kind /\ new.request = task[u].request /\ new.ok = ok
        /\ new.pc = "loaded" /\ new.covers = task[u].covers
    BY <2>3 DEF Task
  <2>6. ok \/ fails' = fails + 1
    BY <2>2 DEF MayFail
  <2>. HIDE DEF new, u
  <2>7. LoadFate(u)
    BY <1>1, <2>1, <2>4, <2>5, <2>6 DEF LoadFate
  <2>. QED BY <2>7 DEF CastFate, u
<1>2. CASE ServeStop
  <2>1. u \in Everyone /\ task[u].pc = "stopping"
    BY <1>2, NextIssuer DEF ServeStop, Serve, Awaiting
  <2>2. Abandons(u)
    BY <1>2, <2>1, GotoMoves, FinishEnds DEF ServeStop, Abandons, Steps
  <2>. QED BY <1>2, <2>1, <2>2 DEF ServeStop, CastFate, StopFate
<1>3. ASSUME NEW op \in {"PAUSE", "PLAY"}, Serve(op), NEW ok, TransportDone(u, ok)
      PROVE  AckFate(u, op)
  <2>1. u \in Everyone /\ task[u].pc = "acking"
    BY <1>3, NextIssuer DEF Serve, Awaiting
  <2>2. Head(queue) = [op |-> op, by |-> u]
    <3>1. queue \in Seq([op : Ops, by : Everyone]) /\ queue # <<>>
      BY <1>3 DEF PlayInv, TypeOK, SpeakerType, Ops, Serve
    <3>2. \A S : \A q \in Seq(S) : q # <<>> => Head(q) \in S
      OBVIOUS
    <3>3. Head(queue) \in [op : Ops, by : Everyone]
      BY <3>1, <3>2
    <3>. QED BY <1>3, <3>3 DEF Serve, Issuer
  <2>3. Ends(u) \/ (task[u].kind # "pause" /\ task'[u] = NewTask("reload", "check", 0))
    BY <1>3, <2>1 DEF TransportDone, PlayInv, TypeOK, Ends
  <2>. QED BY <1>3, <2>1, <2>2, <2>3 DEF AckFate, TransportDone, Serve
<1>4. CASE ServePause
  <2>1. Serve("PAUSE") /\ \E ok : TransportDone(u, ok)
    BY <1>4 DEF ServePause, ServeTransport
  <2>. QED BY <1>3, <1>4, <2>1 DEF CastFate
<1>5. CASE ServePlay
  <2>1. Serve("PLAY") /\ \E ok : TransportDone(u, ok)
    BY <1>5 DEF ServePlay, ServeTransport
  <2>. QED BY <1>3, <1>5, <2>1 DEF CastFate
<1>. QED BY <1>1, <1>2, <1>4, <1>5 DEF CastStep

\* Every way a step can change one task.
LEMMA Fates ==
  ASSUME PlayInv, [Next]_vars, NEW u \in Everyone
  PROVE  \/ task'[u] = task[u]
         \/ Born(u) \/ TransportFate(u) \/ ReloadFate(u) \/ CommandFate(u)
         \/ CastStep /\ u = Issuer /\ CastFate(u)
         \/ u = Watchdog /\ OweStallReload /\ task[u].pc = "owe" /\ Ends(u)
         \/ u = Rollover /\ RolloverTakesFlight /\ task[u].pc = "flight" /\ Moves(u, "load")
         \/ u = Rollover /\ RolloverDone /\ task[u].pc = "loaded" /\ Ends(u)
<1>1. CASE task' = task
  BY <1>1
<1>2. CASE Handle /\ task' # task
  <2>1. CASE HandlePause
    <3>1. ~paused /\ Free # {} /\ task' = Spawned(NewTask("pause", "lock", 0))
      BY <1>2, <2>1 DEF HandlePause
    <3>2. PICK t \in Tasks : task[t].kind = "none" /\ task' = [task EXCEPT ![t] = NewTask("pause", "lock", 0)]
      BY <3>1, SpawnedIs DEF PlayInv
    <3>. QED BY <2>1, <3>1, <3>2, Names DEF Born, PlayInv, TypeOK
  <2>2. CASE HandleResume
    <3>1. CASE Free # {} /\ task' = Spawned(NewTask("play", "lock", 0))
      <4>1. PICK t \in Tasks : task[t].kind = "none" /\ task' = [task EXCEPT ![t] = NewTask("play", "lock", 0)]
        BY <3>1, SpawnedIs DEF PlayInv
      <4>. QED BY <2>2, <4>1, Names DEF Born, PlayInv, TypeOK
    <3>2. CASE \E r \in Nat : Free # {} /\ task' = Spawned(NewTask("reload", "check", r))
      <4>1. PICK r \in Nat : Free # {} /\ task' = Spawned(NewTask("reload", "check", r))
        BY <3>2
      <4>2. PICK t \in Tasks : task[t].kind = "none" /\ task' = [task EXCEPT ![t] = NewTask("reload", "check", r)]
        BY <4>1, SpawnedIs DEF PlayInv
      <4>. QED BY <4>2, Names DEF Born, PlayInv, TypeOK
    <3>3. flushRequested \in Nat
      BY DEF PlayInv, TypeOK, OwedType
    <3>. QED BY <1>2, <2>2, <3>1, <3>2, <3>3 DEF HandleResume, ResumeDecision
  <2>. QED BY <1>2, <2>1, <2>2 DEF Handle, HandleFlush
<1>3. CASE Tick /\ task' # task
  <2>1. task[Watchdog].kind = "none" /\ task' = [task EXCEPT ![Watchdog] = NewTask("stall", "check", 0)]
    BY <1>3 DEF Tick
  <2>. QED BY <2>1, Names DEF Born, PlayInv, TypeOK
<1>4. CASE OweStallReload
  <2>1. task[Watchdog].pc = "owe" /\ Watchdog \in Everyone
    BY <1>4, Names DEF OweStallReload, At
  <2>2. CASE Finish(Watchdog)
    BY <1>4, <2>1, <2>2 DEF Finish, PlayInv, TypeOK, Ends
  <2>3. CASE Free # {} /\ task' = [Spawned(NewTask("reload", "check", 0)) EXCEPT ![Watchdog] = NoTask]
    <3>1. PICK t \in Tasks : /\ task[t].kind = "none"
                             /\ Spawned(NewTask("reload", "check", 0)) = [task EXCEPT ![t] = NewTask("reload", "check", 0)]
      BY <2>3, SpawnedIs DEF PlayInv
    <3>2. task \in [Everyone -> Task]
      BY DEF PlayInv, TypeOK
    <3>3. task' = [[task EXCEPT ![t] = NewTask("reload", "check", 0)] EXCEPT ![Watchdog] = NoTask]
      BY <2>3, <3>1, <3>2
    <3>4. CASE u = Watchdog
      BY <1>4, <2>1, <3>2, <3>3, <3>4 DEF Ends
    <3>5. CASE u # Watchdog
      BY <3>1, <3>2, <3>3, <3>5, Names DEF Born
    <3>. QED BY <3>4, <3>5
  <2>. QED BY <1>4, <2>2, <2>3 DEF OweStallReload
<1>5. CASE RolloverStep \/ RolloverDue
  <2>0. Rollover \in Everyone
    BY Names
  <2>1. CASE RolloverTakesFlight
    <3>1. task[Rollover].pc = "flight" /\ Goto(Rollover, "load")
      BY <2>1 DEF RolloverTakesFlight, At
    <3>. QED BY <2>0, <2>1, <3>1, GotoMoves DEF Goto, PlayInv, TypeOK, Steps
  <2>2. CASE RolloverDone
    BY <2>0, <2>2, FinishEnds DEF RolloverDone, At, Finish, PlayInv, TypeOK
  <2>3. CASE RolloverDue
    <3>1. task[Rollover].kind = "none" /\ task' = [task EXCEPT ![Rollover] = NewTask("roll", "flight", 0)]
      BY <2>3 DEF RolloverDue
    <3>. QED BY <2>0, <2>3, <3>1 DEF Born, PlayInv, TypeOK
  <2>. QED BY <1>5, <2>1, <2>2, <2>3 DEF RolloverStep
<1>6. CASE CastStep
  <2>1. Answered(Issuer)
    BY <1>6, LoadServed, OthersAnswer DEF CastStep
  <2>. QED BY <1>6, <2>1, CastFates DEF Answered
<1>7. ASSUME NEW t \in Everyone, Transport(t) \/ Reload(t) \/ Commands(t)
      PROVE  task'[u] = task[u] \/ TransportFate(u) \/ ReloadFate(u) \/ CommandFate(u)
  <2>1. Turn({t})
    BY <1>7, TransportTurns, ReloadTurns, CommandsTurn
  <2>2. CASE u # t
    BY <2>1, <2>2 DEF Turn
  <2>3. CASE u = t
    BY <1>7, <2>3, TransportFates, ReloadFates, CommandFates
  <2>. QED BY <2>2, <2>3
<1>8. UNCHANGED vars \/ Sender \/ StallWindowElapses \/ LongPauseElapses \/ SpeakerStalls => task' = task
  BY DEF vars, Sender, RateZero, PlayoutResumes, Flush, StallWindowElapses, LongPauseElapses, SpeakerStalls
<1>. QED BY <1>1, <1>2, <1>3, <1>4, <1>5, <1>6, <1>7, <1>8 DEF Next, Environment

\* The steps of each kind of task.
TransportSteps == {"lock", "check", "command", "acking"}
ReloadSteps == {"check", "flight", "lead", "publish", "spawned", "load", "loading", "loaded", "stop",
                "stopping", "accept", "discard", "owe"}
RollSteps == {"flight", "load", "loading", "loaded"}
KindOf(k) ==
  /\ k.kind \in {"pause", "play"} => k.pc \in TransportSteps
  /\ k.kind \in {"reload", "stall"} => k.pc \in ReloadSteps
  /\ k.kind = "roll" => k.pc \in RollSteps
KindInv ==
  /\ \A t \in Everyone : KindOf(task[t])
  /\ \A t \in Everyone : task[t].kind = "roll" => rolls > 0
  /\ task[Rollover].kind \in {"none", "roll"}
  /\ \A i \in DOMAIN queue :
       /\ queue[i].op = "PAUSE" => task[queue[i].by].kind = "pause"
       /\ queue[i].op = "PLAY" => task[queue[i].by].kind = "play"

\* Failures, rollovers and the end of the session are for good.
LEMMA Counts ==
  ASSUME PlayInv, [Next]_vars
  PROVE  /\ fails \in Nat /\ rolls \in Nat
         /\ fails' = fails \/ fails' = fails + 1
         /\ rolls' = rolls \/ rolls' = rolls + 1
         /\ RolloverDue => rolls' = rolls + 1
         /\ ended => ended'
<1>1. fails \in Nat /\ rolls \in Nat
  BY BoundsAssumption DEF PlayInv, TypeOK, SpeakerType
<1>2. fails' = fails \/ fails' = fails + 1
  BY DEF Next, vars, Sender, RateZero, PlayoutResumes, Flush, Handle, HandlePause, HandleResume, HandleFlush, Tick,
         OweStallReload, RolloverStep, RolloverTakesFlight, RolloverDone, CastStep, ServeLoad, ServeStop,
         ServePause, ServePlay, ServeTransport, MayFail, Environment, StallWindowElapses, LongPauseElapses,
         SpeakerStalls, RolloverDue, Transport, TakeTransport, CheckTransport, CommandTransport, Reload,
         BeginReload, TakeFlight, LeadQueued, PublishLoad, LoadReturns, AcceptReload, Discard, Commands, SendLoad,
         SendStop, speaker
<1>3. /\ rolls' = rolls \/ rolls' = rolls + 1
      /\ RolloverDue => rolls' = rolls + 1
  BY DEF Next, vars, Sender, RateZero, PlayoutResumes, Flush, Handle, HandlePause, HandleResume, HandleFlush, Tick,
         OweStallReload, RolloverStep, RolloverTakesFlight, RolloverDone, CastStep, ServeLoad, ServeStop,
         ServePause, ServePlay, ServeTransport, Environment, StallWindowElapses, LongPauseElapses,
         SpeakerStalls, RolloverDue, Transport, TakeTransport, CheckTransport, CommandTransport, Reload,
         BeginReload, TakeFlight, LeadQueued, PublishLoad, LoadReturns, AcceptReload, Discard, Commands, SendLoad,
         SendStop, speaker
<1>4. ended => ended'
  BY DEF Next, vars, Sender, RateZero, PlayoutResumes, Flush, Handle, HandlePause, HandleResume, HandleFlush, Tick,
         OweStallReload, RolloverStep, RolloverTakesFlight, RolloverDone, CastStep, ServeLoad, ServeStop,
         ServePause, ServePlay, ServeTransport, Environment, StallWindowElapses, LongPauseElapses,
         SpeakerStalls, RolloverDue, Transport, TakeTransport, CheckTransport, CommandTransport, Reload,
         BeginReload, TakeFlight, LeadQueued, PublishLoad, LoadReturns, AcceptReload, Discard, Commands, SendLoad,
         SendStop, watchdog, Loaded, Paused, Failed, ReloadGate, At
<1>. QED BY <1>1, <1>2, <1>3, <1>4

\* A task's step tells its kind.
LEMMA KindTells ==
  ASSUME PlayInv, KindInv, NEW t \in Everyone
  PROVE  /\ task[t].pc \in {"lock", "command", "acking"} => task[t].kind \in {"pause", "play"}
         /\ task[t].pc \in {"load", "loading", "loaded"} => task[t].kind \in {"reload", "stall", "roll"}
         /\ task[t].pc \in {"stop", "stopping"} => task[t].kind \in {"reload", "stall"}
<1>1. task[t].kind \in Kinds /\ (task[t].kind = "none" => task[t].pc = "off") /\ KindOf(task[t])
  BY DEF PlayInv, TypeOK, Task, IdleInv, KindInv
<1>. QED BY <1>1 DEF Kinds, KindOf, TransportSteps, ReloadSteps, RollSteps

LEMMA NewFields ==
  /\ NewTask("pause", "lock", 0).kind = "pause" /\ NewTask("pause", "lock", 0).pc = "lock"
  /\ NewTask("play", "lock", 0).kind = "play" /\ NewTask("play", "lock", 0).pc = "lock"
  /\ NewTask("stall", "check", 0).kind = "stall" /\ NewTask("stall", "check", 0).pc = "check"
  /\ NewTask("roll", "flight", 0).kind = "roll" /\ NewTask("roll", "flight", 0).pc = "flight"
  /\ \A r \in Nat : /\ NewTask("reload", "check", r).kind = "reload" /\ NewTask("reload", "check", r).pc = "check"
                    /\ NewTask("reload", "check", r).request = r
BY DEF NewTask, NoTask

LEMMA KindInit == Init => KindInv
<1>. SUFFICES ASSUME Init PROVE KindInv
  OBVIOUS
<1>1. /\ \A t \in Everyone : task[t] = NoTask
      /\ queue = <<>>
  BY DEF Init
<1>. QED BY <1>1, NoTaskType, Names DEF KindInv, KindOf

\* What becomes of one task keeps to its kind.
LEMMA KindOfTask ==
  ASSUME PlayInv, KindInv, [Next]_vars, NEW u \in Everyone
  PROVE  KindOf(task'[u]) /\ (task'[u].kind = "roll" => rolls' > 0)
<1>1. /\ task[u].kind \in Kinds /\ (task[u].kind = "none" => task[u].pc = "off") /\ KindOf(task[u])
      /\ task[u].kind = "roll" => rolls > 0
  BY DEF PlayInv, TypeOK, Task, IdleInv, KindInv
<1>2. rolls > 0 => rolls' > 0
  BY Counts
<1>3. CASE task'[u] = task[u]
  BY <1>1, <1>2, <1>3
<1>4. CASE Ends(u)
  BY <1>4, NoTaskType DEF Ends, KindOf
<1>5. CASE Born(u)
  <2>1. task'[u].kind = "roll" => rolls' > 0
    BY <1>5, Counts, NewFields DEF Born
  <2>2. KindOf(task'[u])
    BY <1>5, NewFields DEF Born, KindOf, TransportSteps, ReloadSteps, RollSteps
  <2>. QED BY <2>1, <2>2
<1>6. CASE TransportFate(u)
  BY <1>1, <1>4, <1>6, KindTells DEF TransportFate, Moves, Carries, KindOf, TransportSteps
<1>7. CASE ReloadFate(u)
  BY <1>4, <1>7 DEF ReloadFate, Abandons, Moves, Carries, KindOf, ReloadSteps
<1>8. CASE CommandFate(u)
  <2>1. task'[u].kind = task[u].kind
    BY <1>8 DEF CommandFate, Moves, Carries
  <2>2. KindOf(task'[u])
    BY <1>8, <2>1, KindTells DEF CommandFate, Moves, KindOf, ReloadSteps, RollSteps
  <2>. QED BY <1>1, <1>2, <2>1, <2>2
<1>9. CASE CastFate(u)
  <2>1. CASE LoadFate(u)
    <3>1. task'[u].kind = task[u].kind /\ task'[u].pc = "loaded" /\ task[u].kind \in {"reload", "stall", "roll"}
      BY <2>1, KindTells DEF LoadFate
    <3>. QED BY <1>1, <1>2, <3>1 DEF KindOf, ReloadSteps, RollSteps
  <2>2. CASE StopFate(u)
    BY <1>4, <2>2 DEF StopFate, Abandons, Moves, Carries, KindOf, ReloadSteps
  <2>3. CASE task'[u] = NewTask("reload", "check", 0)
    BY <2>3, NewFields DEF KindOf, ReloadSteps
  <2>. QED BY <1>4, <1>9, <2>1, <2>2, <2>3 DEF CastFate, AckFate
<1>10. CASE u = Rollover /\ RolloverTakesFlight /\ task[u].pc = "flight" /\ Moves(u, "load")
  BY <1>1, <1>2, <1>10 DEF Moves, Carries, Kinds, KindOf, TransportSteps, ReloadSteps, RollSteps
<1>. QED BY <1>3, <1>4, <1>5, <1>6, <1>7, <1>8, <1>9, <1>10, Fates

LEMMA KindStep ==
  ASSUME PlayInv, KindInv, [Next]_vars
  PROVE  KindInv'
<1>. DEFINE Fits(i) == /\ queue'[i].op = "PAUSE" => task'[queue'[i].by].kind = "pause"
                       /\ queue'[i].op = "PLAY" => task'[queue'[i].by].kind = "play"
<1>0. queue \in Seq([op : Ops, by : Everyone])
  BY DEF PlayInv, TypeOK, SpeakerType, Ops
<1>1. \A i \in DOMAIN queue' : Fits(i)
  <2>1. CASE UNCHANGED <<task, flight, queue>>
    BY <2>1 DEF KindInv
  <2>2. ASSUME NEW T \in SUBSET Everyone, Turn(T)
        PROVE  \A i \in DOMAIN queue' : Fits(i)
    <3>1. \A i \in DOMAIN queue : queue[i].by \in Everyone \ T
      BY <2>2, QueueIs DEF Turn
    <3>2. \A i \in DOMAIN queue : task'[queue[i].by] = task[queue[i].by]
      BY <2>2, <3>1 DEF Turn
    <3>3. CASE queue' = queue
      BY <3>2, <3>3 DEF KindInv
    <3>4. ASSUME NEW t \in T, NEW op \in Ops, queue' = Append(queue, [op |-> op, by |-> t]),
                 task'[t].pc = Awaiting[op]
          PROVE  \A i \in DOMAIN queue' : Fits(i)
      <4>1. \A i \in DOMAIN queue' : \/ i \in DOMAIN queue /\ queue'[i] = queue[i]
                                     \/ queue'[i] = [op |-> op, by |-> t]
        BY <1>0, <3>4
      <4>2. op \in {"PAUSE", "PLAY"} => task'[t].kind = IF op = "PAUSE" THEN "pause" ELSE "play"
        <5>. SUFFICES ASSUME op \in {"PAUSE", "PLAY"} PROVE task'[t].kind = IF op = "PAUSE" THEN "pause" ELSE "play"
          OBVIOUS
        <5>1. task'[t].pc = "acking" /\ task[t].pc # "acking"
          BY <2>2, <3>4 DEF Awaiting, Turn, Waiting
        <5>2. TransportFate(t)
          BY <2>2, <3>4, <5>1, Fates, NewFields, NoTaskType
             DEF Born, ReloadFate, CommandFate, CastFate, LoadFate, StopFate, AckFate, Abandons, Ends, Moves
        <5>3. /\ task[t].pc = "command" /\ Moves(t, "acking")
              /\ queue' = Append(queue, [op |-> IF task[t].kind = "pause" THEN "PAUSE" ELSE "PLAY", by |-> t])
          BY <5>1, <5>2, NoTaskType DEF TransportFate, Moves, Ends
        <5>4. op = IF task[t].kind = "pause" THEN "PAUSE" ELSE "PLAY"
          <6>1. \A x, y : Append(queue, x) = Append(queue, y) => x = y
            BY <1>0
          <6>2. [op |-> op, by |-> t] = [op |-> IF task[t].kind = "pause" THEN "PAUSE" ELSE "PLAY", by |-> t]
            BY <3>4, <5>3, <6>1
          <6>. QED BY <6>2
        <5>5. task[t].kind \in {"pause", "play"}
          BY <5>3, KindTells
        <5>. QED BY <5>3, <5>4, <5>5 DEF Moves, Carries
      <4>. QED BY <3>2, <4>1, <4>2 DEF KindInv
    <3>. QED BY <2>2, <3>3, <3>4 DEF Turn
  <2>3. CASE Answered(Issuer)
    <3>1. queue # <<>> /\ queue' = Tail(queue) /\ Issuer = queue[1].by /\ 1 \in DOMAIN queue
      BY <1>0, <2>3 DEF Answered, Issuer
    <3>2. \A i \in DOMAIN queue' : i + 1 \in DOMAIN queue /\ queue'[i] = queue[i + 1] /\ i + 1 # 1
      BY <1>0, <3>1
    <3>3. \A i \in DOMAIN queue' : queue'[i].by # Issuer /\ queue'[i].by \in Everyone
      BY <3>1, <3>2, QueueIs DEF PlayInv, QueueInv
    <3>4. \A i \in DOMAIN queue' : task'[queue'[i].by] = task[queue'[i].by]
      BY <2>3, <3>3 DEF Answered
    <3>. QED BY <3>2, <3>4 DEF KindInv
  <2>. QED BY <2>1, <2>2, <2>3, StepIs
<1>2. \A t \in Everyone : KindOf(task'[t]) /\ (task'[t].kind = "roll" => rolls' > 0)
  BY KindOfTask
<1>3. task'[Rollover].kind \in {"none", "roll"}
  <2>1. task[Rollover].kind \in {"none", "roll"} /\ Rollover \in Everyone
    BY Names DEF KindInv
  <2>2. CASE TransportFate(Rollover) \/ CommandFate(Rollover)
    BY <2>1, <2>2, NoTaskType DEF TransportFate, CommandFate, Moves, Carries, Ends
  <2>3. CASE Born(Rollover)
    BY <2>3, NewFields DEF Born
  <2>4. CASE CastFate(Rollover)
    BY <2>1, <2>4, KindTells, NoTaskType DEF CastFate, LoadFate, StopFate, AckFate, Abandons, Moves, Carries, Ends
  <2>. QED BY <2>1, <2>2, <2>3, <2>4, Fates, NoTaskType DEF ReloadFate, Moves, Carries, Ends
<1>. QED BY <1>1, <1>2, <1>3 DEF KindInv, KindOf

-----------------------------------------------------------------------------
(***************************************************************************)
(* A paused session falls silent.                                          *)
(***************************************************************************)
\* Who is past the lock with a PAUSE or a PLAY holds transport_flight.
TransportInv ==
  \A t \in Everyone : task[t].kind \in {"pause", "play"} /\ task[t].pc # "lock" => transport = t

\* A PLAY that a pause overtook has that pause's PAUSE waiting behind it.
PlayPassed   == \E t \in Everyone : task[t].kind = "play" /\ task[t].pc \in {"command", "acking"}
PauseWaits   == \E t \in Everyone : task[t].kind = "pause" /\ task[t].pc = "lock"
OvertakenInv == paused /\ PlayPassed => PauseWaits

\* The tasks that silence a paused session: a PAUSE, or a re-LOAD that finds the pause on its return.
Silences(k) == \/ k.kind = "pause"
               \/ k.kind \in {"reload", "stall"} /\ k.pc \in {"loaded", "accept", "discard", "stop", "stopping"}
SilentInv ==
  paused /\ fails = 0 /\ rolls = 0 /\ ~ended /\ media.state = "playing"
    => \E t \in Everyone : Silences(task[t])

RestInv == KindInv /\ TransportInv /\ OvertakenInv /\ SilentInv

LEMMA RestInit == Init => RestInv
<1>. SUFFICES ASSUME Init PROVE RestInv
  OBVIOUS
<1>1. (\A t \in Everyone : task[t] = NoTask) /\ paused = FALSE
  BY DEF Init
<1>. QED BY <1>1, KindInit, NoTaskType DEF RestInv, TransportInv, OvertakenInv, SilentInv

\* The lock changes hands through nobody's.
LEMMA TransportKept ==
  ASSUME PlayInv, RestInv, [Next]_vars
  PROVE  \/ transport' = transport
         \/ transport = Nobody
         \/ \E t \in Everyone : transport = t /\ (Ends(t) \/ task'[t] = NewTask("reload", "check", 0))
<1>1. CASE \E t \in Everyone : Transport(t)
  <2>1. PICK t \in Everyone : Transport(t)
    BY <1>1
  <2>2. TransportFate(t)
    BY <2>1, TransportFates
  <2>3. task[t].pc = "check" /\ task[t].kind \in {"pause", "play"} => transport = t
    BY DEF RestInv, TransportInv
  <2>. QED BY <2>2, <2>3 DEF TransportFate
<1>2. CASE CastStep
  <2>1. CastFate(Issuer) /\ Issuer \in Everyone
    BY <1>2, CastFates, NextIssuer DEF CastStep, ServeLoad, ServeStop, ServePause, ServePlay, ServeTransport, Serve
  <2>2. CASE ServeLoad \/ ServeStop
    BY <2>2 DEF ServeLoad, ServeStop, locks
  <2>3. CASE AckFate(Issuer, "PAUSE") \/ AckFate(Issuer, "PLAY")
    <3>1. task[Issuer].pc = "acking"
      BY <2>3 DEF AckFate
    <3>2. transport = Issuer
      BY <2>1, <3>1, KindTells DEF RestInv, TransportInv
    <3>. QED BY <2>1, <2>3, <3>2 DEF AckFate
  <2>. QED BY <2>1, <2>2, <2>3 DEF CastFate, LoadFate, StopFate
<1>3. \/ transport' = transport \/ CastStep \/ \E t \in Everyone : Transport(t)
  BY DEF Next, vars, locks, Sender, RateZero, PlayoutResumes, Flush, Handle, HandlePause, HandleResume, HandleFlush,
         Tick, OweStallReload, RolloverStep, RolloverTakesFlight, RolloverDone, Environment, StallWindowElapses,
         LongPauseElapses, SpeakerStalls, RolloverDue, Reload, BeginReload, TakeFlight, LeadQueued, PublishLoad,
         LoadReturns, AcceptReload, Discard, Commands, SendLoad, SendStop
<1>. QED BY <1>1, <1>2, <1>3

LEMMA TransportStep ==
  ASSUME PlayInv, RestInv, [Next]_vars
  PROVE  TransportInv'
<1>. SUFFICES ASSUME NEW u \in Everyone, task'[u].kind \in {"pause", "play"}, task'[u].pc # "lock"
              PROVE  transport' = u
  BY DEF TransportInv
<1>1. ~Ends(u) /\ task'[u] # NewTask("reload", "check", 0) /\ ~Born(u)
  BY NoTaskType, NewFields DEF Ends, Born
<1>2. ASSUME task[u].kind \in {"pause", "play"}, task[u].pc # "lock" PROVE transport' = transport /\ transport = u
  <2>1. transport = u /\ u # Nobody
    BY <1>2, Names DEF RestInv, TransportInv
  <2>. QED BY <1>1, <2>1, TransportKept
<1>3. CASE TransportFate(u)
  <2>1. task[u].pc \in {"lock", "command"} => task[u].kind \in {"pause", "play"}
    BY KindTells DEF RestInv
  <2>. QED BY <1>1, <1>2, <1>3, <2>1 DEF TransportFate
<1>4. CASE task'[u] = task[u]
  BY <1>2, <1>4
<1>5. CASE ReloadFate(u) \/ CommandFate(u) \/ CastFate(u)
  BY <1>1, <1>2, <1>5, KindTells
     DEF RestInv, ReloadFate, CommandFate, CastFate, LoadFate, StopFate, AckFate, Abandons, Moves, Carries
<1>6. CASE u = Rollover /\ RolloverTakesFlight /\ task[u].pc = "flight" /\ Moves(u, "load")
  BY <1>2, <1>6 DEF Moves, Carries
<1>. QED BY <1>1, <1>3, <1>4, <1>5, <1>6, Fates

\* A session is paused by the event of a pause, which sends a task to say so.
LEMMA PausedBy ==
  ASSUME PlayInv, [Next]_vars, paused', ~paused
  PROVE  \E t \in Everyone : task'[t].kind = "pause" /\ task'[t].pc = "lock"
<1>1. HandlePause
  BY DEF Next, vars, pausing, Sender, RateZero, PlayoutResumes, Flush, Handle, HandleResume, HandleFlush,
         Tick, OweStallReload, RolloverStep, RolloverTakesFlight, RolloverDone, Environment, StallWindowElapses,
         LongPauseElapses, SpeakerStalls, RolloverDue, Reload, BeginReload, TakeFlight, LeadQueued, PublishLoad,
         LoadReturns, AcceptReload, Discard, Commands, SendLoad, SendStop, Transport, TakeTransport, CheckTransport,
         CommandTransport, CastStep, ServeLoad, ServeStop, ServePause, ServePlay, ServeTransport
<1>2. Free # {} /\ task' = Spawned(NewTask("pause", "lock", 0))
  BY <1>1 DEF HandlePause
<1>3. PICK t \in Tasks : task[t].kind = "none" /\ task' = [task EXCEPT ![t] = NewTask("pause", "lock", 0)]
  BY <1>2, SpawnedIs DEF PlayInv
<1>4. t \in Everyone /\ task'[t] = NewTask("pause", "lock", 0)
  BY <1>3, Names DEF PlayInv, TypeOK
<1>. QED BY <1>4, NewFields

LEMMA OvertakenStep ==
  ASSUME PlayInv, RestInv, [Next]_vars
  PROVE  OvertakenInv'
<1>. SUFFICES ASSUME paused', paused, NEW p \in Everyone, task'[p].kind = "play", task'[p].pc \in {"command", "acking"}
              PROVE  \E t \in Everyone : task'[t].kind = "pause" /\ task'[t].pc = "lock"
  BY PausedBy DEF OvertakenInv, PlayPassed, PauseWaits
<1>1. task[p].kind = "play" /\ task[p].pc \in {"command", "acking"}
  <2>1. ~Ends(p) /\ task'[p] # NewTask("reload", "check", 0) /\ ~Born(p)
    BY NoTaskType, NewFields DEF Ends, Born
  <2>2. CASE TransportFate(p)
    BY <2>1, <2>2 DEF TransportFate, Moves, Carries, Wanted
  <2>. QED BY <2>1, <2>2, Fates, KindTells
       DEF RestInv, ReloadFate, CommandFate, CastFate, LoadFate, StopFate, AckFate, Abandons, Moves, Carries
<1>2. PICK w \in Everyone : task[w].kind = "pause" /\ task[w].pc = "lock"
  BY <1>1 DEF RestInv, OvertakenInv, PlayPassed, PauseWaits
<1>3. transport # Nobody
  BY <1>1, Names DEF RestInv, TransportInv
<1>4. task'[w] = task[w]
  BY <1>2, <1>3, Fates
     DEF Born, TransportFate, ReloadFate, CommandFate, CastFate, LoadFate, StopFate, AckFate
<1>. QED BY <1>2, <1>4

\* What is playing was, or a LOAD or a PLAY made it play.
LEMMA PlayingBy ==
  ASSUME PlayInv, [Next]_vars, media'.state = "playing"
  PROVE  media.state = "playing" \/ ServeLoad \/ ServePlay
<1>1. media \in Media
  BY DEF PlayInv, TypeOK, SpeakerType
<1>2. media' = media \/ BodyEnds \/ LongPauseElapses \/ ServeLoad \/ ServePlay \/ ServeStop \/ ServePause
  BY DEF Next, vars, Sender, RateZero, PlayoutResumes, Flush, Handle, HandlePause, HandleResume, HandleFlush,
         Tick, OweStallReload, RolloverStep, RolloverTakesFlight, RolloverDone, CastStep, Environment,
         StallWindowElapses, SpeakerStalls, RolloverDue, Reload, BeginReload, TakeFlight, LeadQueued,
         PublishLoad, LoadReturns, AcceptReload, Discard, Commands, SendLoad, SendStop, Transport, TakeTransport,
         CheckTransport, CommandTransport, speaker
<1>3. CASE BodyEnds
  BY <1>1, <1>3 DEF BodyEnds, Media
<1>4. CASE LongPauseElapses
  BY <1>1, <1>4 DEF LongPauseElapses, Media
<1>5. CASE ServeStop
  BY <1>5 DEF ServeStop, NoMedia
<1>6. CASE ServePause
  BY <1>1, <1>6 DEF ServePause, ServeTransport, Media
<1>. QED BY <1>2, <1>3, <1>4, <1>5, <1>6

LEMMA SilentStep ==
  ASSUME PlayInv, RestInv, [Next]_vars
  PROVE  SilentInv'
<1>. SUFFICES ASSUME paused', paused, fails' = 0, rolls' = 0, ~ended', media'.state = "playing"
              PROVE  \E t \in Everyone : Silences(task'[t])
  BY PausedBy DEF SilentInv, Silences
<1>1. fails = 0 /\ rolls = 0 /\ ~ended
  BY Counts
<1>2. CASE ServeLoad
  <2>1. Issuer \in Everyone /\ LoadFate(Issuer)
    BY <1>2, CastFates, NextIssuer
       DEF CastStep, CastFate, StopFate, AckFate, ServeLoad, ServeStop, ServePause, ServePlay, ServeTransport, Serve
  <2>2. task'[Issuer].pc = "loaded" /\ task'[Issuer].kind = task[Issuer].kind
        /\ task[Issuer].kind \in {"reload", "stall", "roll"}
    BY <2>1, KindTells DEF LoadFate, RestInv
  <2>3. task[Issuer].kind # "roll"
    BY <1>1, <2>1 DEF RestInv, KindInv
  <2>. QED BY <2>1, <2>2, <2>3 DEF Silences
<1>3. CASE ServePlay
  <2>1. Issuer \in Everyone /\ task[Issuer].pc = "acking" /\ queue # <<>> /\ Head(queue).op = "PLAY"
    BY <1>3, NextIssuer DEF ServePlay, ServeTransport, Serve, Awaiting
  <2>2. task[Issuer].kind = "play"
    <3>1. 1 \in DOMAIN queue /\ Head(queue) = queue[1]
      <4>1. queue \in Seq([op : Ops, by : Everyone])
        BY DEF PlayInv, TypeOK, SpeakerType, Ops
      <4>2. \A S : \A q \in Seq(S) : q # <<>> => 1 \in DOMAIN q /\ Head(q) = q[1]
        OBVIOUS
      <4>. QED BY <2>1, <4>1, <4>2
    <3>. QED BY <2>1, <3>1 DEF RestInv, KindInv, Issuer
  <2>3. PICK w \in Everyone : task[w].kind = "pause" /\ task[w].pc = "lock"
    BY <2>1, <2>2 DEF RestInv, OvertakenInv, PlayPassed, PauseWaits
  <2>4. Answered(Issuer)
    BY <1>3, OthersAnswer
  <2>5. task'[w] = task[w]
    BY <2>2, <2>3, <2>4 DEF Answered
  <2>. QED BY <2>3, <2>5 DEF Silences
<1>4. CASE media.state = "playing" /\ ~ServeLoad /\ ~ServePlay
  <2>1. PICK w \in Everyone : Silences(task[w])
    BY <1>1, <1>4 DEF RestInv, SilentInv
  <2>2. CASE TransportFate(w) \/ ReloadFate(w) \/ CommandFate(w)
    BY <2>1, <2>2 DEF Silences, TransportFate, ReloadFate, CommandFate, Wanted, Moves, Carries
  <2>3. ~StopFate(w) /\ ~LoadFate(w) /\ ~Born(w)
    BY <1>4, <2>1 DEF StopFate, NoMedia, LoadFate, Born, Silences
  <2>4. ~ServePause
    <3>1. ASSUME ServePause PROVE FALSE
      <4>1. PICK ok \in BOOLEAN : /\ MayFail(ok)
                                  /\ media' = IF ok /\ media.state = "playing"
                                              THEN [media EXCEPT !.state = "paused"] ELSE media
        BY <1>4, <3>1 DEF ServePause, ServeTransport
      <4>2. ok
        BY <1>1, <4>1 DEF MayFail
      <4>3. media \in Media
        BY DEF PlayInv, TypeOK, SpeakerType
      <4>. QED BY <1>4, <4>1, <4>2, <4>3 DEF Media
    <3>. QED BY <3>1
  <2>5. ~(w = Watchdog /\ OweStallReload /\ task[w].pc = "owe" /\ Ends(w))
    BY <2>1, KindTells DEF Silences, RestInv, KindInv, KindOf, TransportSteps
  <2>6. w # Rollover
    BY <2>1 DEF Silences, RestInv, KindInv
  <2>. QED BY <1>4, <2>1, <2>2, <2>3, <2>4, <2>5, <2>6, Fates DEF CastFate
<1>. QED BY <1>2, <1>3, <1>4, PlayingBy

LEMMA RestStep ==
  ASSUME PlayInv, RestInv, [Next]_vars
  PROVE  RestInv'
BY KindStep, TransportStep, OvertakenStep, SilentStep DEF RestInv

\* For every number of tasks, callbacks and re-LOADs: a paused session at rest is silent, unless a
\* command failed or the body rolled over.
THEOREM PausedFallsSilent == Spec => []PausedIsSilent
<1>1. RestInv => PausedIsSilent
  BY DEF RestInv, SilentInv, PausedIsSilent, Quiet, Silences
<1>. QED BY <1>1, RestInit, RestStep, PlaybackInvariant, PTL DEF Spec

-----------------------------------------------------------------------------
(***************************************************************************)
(* A playing session owes nothing.                                         *)
(***************************************************************************)
\* The session is paused when it reads event i of q, if it is paused = p now.
ReadsPaused(q, p, i) ==
  \/ p /\ \A j \in 1..Len(q) : j < i => q[j] # "Resumed"
  \/ \E k \in 1..Len(q) : /\ k < i /\ q[k] = "Paused"
                          /\ \A j \in 1..Len(q) : k < j /\ j < i => q[j] # "Resumed"

\* A flush is read by a paused session, or by one that is paused next.
FlushPauses(q, p) ==
  \A i \in 1..Len(q) :
    q[i] = "Flushed" => ReadsPaused(q, p, i) \/ (i + 1 \in 1..Len(q) /\ q[i + 1] = "Paused")
EventsInv ==
  /\ castPaused => ReadsPaused(events, paused, Len(events) + 1)
  /\ FlushPauses(events, paused)

\* What was read of q is read of an extension.
LEMMA ExtendReads ==
  ASSUME NEW S, NEW q \in Seq(S), NEW r \in Seq(S), NEW p, NEW i \in 1..(Len(q) + 1), ReadsPaused(q, p, i)
  PROVE  ReadsPaused(q \o r, p, i)
<1>1. /\ Len(q) \in Nat /\ Len(r) \in Nat /\ Len(q \o r) = Len(q) + Len(r)
      /\ \A j \in 1..Len(q) : j \in 1..Len(q \o r) /\ (q \o r)[j] = q[j]
      /\ \A j \in 1..Len(q \o r) : j < i => j \in 1..Len(q)
  OBVIOUS
<1>2. CASE p /\ \A j \in 1..Len(q) : j < i => q[j] # "Resumed"
  BY <1>1, <1>2 DEF ReadsPaused
<1>3. ASSUME NEW k \in 1..Len(q), k < i, q[k] = "Paused",
             \A j \in 1..Len(q) : k < j /\ j < i => q[j] # "Resumed"
      PROVE  ReadsPaused(q \o r, p, i)
  <2>. DEFINE z == q \o r
  <2>1. k \in 1..Len(z) /\ z[k] = "Paused"
    BY <1>1, <1>3
  <2>2. \A j \in 1..Len(z) : k < j /\ j < i => z[j] # "Resumed"
    BY <1>1, <1>3
  <2>. HIDE DEF z
  <2>3. ReadsPaused(z, p, i)
    BY <1>3, <2>1, <2>2 DEF ReadsPaused
  <2>. QED BY <2>3 DEF z
<1>. QED BY <1>2, <1>3 DEF ReadsPaused

LEMMA ExtendFlushPauses ==
  ASSUME NEW S, NEW q \in Seq(S), NEW r \in Seq(S), NEW p, FlushPauses(q, p),
         \A i \in 1..Len(r) : r[i] = "Flushed" =>
            \/ i = 1 /\ ReadsPaused(q, p, Len(q) + 1)
            \/ i + 1 \in 1..Len(r) /\ r[i + 1] = "Paused"
  PROVE  FlushPauses(q \o r, p)
<1>. DEFINE z == q \o r
<1>1. /\ Len(q) \in Nat /\ Len(r) \in Nat /\ Len(z) = Len(q) + Len(r)
      /\ \A j \in 1..Len(q) : j \in 1..Len(z) /\ z[j] = q[j]
      /\ \A j \in 1..Len(r) : Len(q) + j \in 1..Len(z) /\ z[Len(q) + j] = r[j]
      /\ \A j \in 1..Len(z) : j \in 1..Len(q) \/ j - Len(q) \in 1..Len(r)
  OBVIOUS
<1>2. ASSUME NEW i \in 1..Len(z), z[i] = "Flushed"
      PROVE  ReadsPaused(z, p, i) \/ (i + 1 \in 1..Len(z) /\ z[i + 1] = "Paused")
  <2>1. CASE i \in 1..Len(q)
    <3>1. q[i] = "Flushed"
      BY <1>1, <1>2, <2>1
    <3>2. ReadsPaused(q, p, i) \/ (i + 1 \in 1..Len(q) /\ q[i + 1] = "Paused")
      BY <2>1, <3>1 DEF FlushPauses
    <3>3. CASE ReadsPaused(q, p, i)
      <4>1. i \in 1..(Len(q) + 1)
        BY <1>1, <2>1
      <4>. QED BY <3>3, <4>1, ExtendReads
    <3>4. CASE i + 1 \in 1..Len(q) /\ q[i + 1] = "Paused"
      BY <1>1, <3>4
    <3>. QED BY <3>2, <3>3, <3>4
  <2>2. CASE i - Len(q) \in 1..Len(r)
    <3>. DEFINE j == i - Len(q)
    <3>1. i = Len(q) + j /\ r[j] = "Flushed"
      BY <1>1, <1>2, <2>2
    <3>2. CASE j = 1 /\ ReadsPaused(q, p, Len(q) + 1)
      <4>1. i = Len(q) + 1 /\ i \in 1..(Len(q) + 1)
        BY <1>1, <3>1, <3>2
      <4>2. ReadsPaused(q, p, i)
        BY <3>2, <4>1
      <4>3. ReadsPaused(q \o r, p, i)
        BY <4>1, <4>2, ExtendReads
      <4>. QED BY <4>3
    <3>3. CASE j + 1 \in 1..Len(r) /\ r[j + 1] = "Paused"
      <4>1. i + 1 = Len(q) + (j + 1)
        BY <1>1, <3>1
      <4>. QED BY <1>1, <3>3, <4>1
    <3>. QED BY <2>2, <3>1, <3>2, <3>3
  <2>. QED BY <1>1, <1>2, <2>1, <2>2
<1>. HIDE DEF z
<1>3. FlushPauses(z, p)
  BY <1>2 DEF FlushPauses
<1>. QED BY <1>3 DEF z

\* Reading the head, which pauses the session if it is a pause and leaves it so if it is a flush.
LEMMA TailReads ==
  ASSUME NEW S, NEW q \in Seq(S), q # <<>>, NEW p, NEW p2, NEW i \in 1..Len(q), ReadsPaused(q, p, i + 1),
         q[1] = "Paused" \/ (p /\ q[1] # "Resumed") => p2
  PROVE  ReadsPaused(Tail(q), p2, i)
<1>. DEFINE z == Tail(q)
<1>1. /\ Len(q) \in Nat \ {0} /\ Len(z) = Len(q) - 1
      /\ \A j \in 1..Len(z) : j + 1 \in 1..Len(q) /\ z[j] = q[j + 1]
      /\ \A j \in 1..Len(q) : j # 1 => j - 1 \in 1..Len(z) /\ z[j - 1] = q[j]
      /\ 1 \in 1..Len(q)
  OBVIOUS
<1>. HIDE DEF z
<1>2. CASE p /\ \A j \in 1..Len(q) : j < i + 1 => q[j] # "Resumed"
  <2>1. p2
    BY <1>1, <1>2
  <2>2. \A j \in 1..Len(z) : j < i => z[j] # "Resumed"
    BY <1>1, <1>2
  <2>. QED BY <2>1, <2>2 DEF ReadsPaused, z
<1>3. ASSUME NEW k \in 1..Len(q), k < i + 1, q[k] = "Paused",
             \A j \in 1..Len(q) : k < j /\ j < i + 1 => q[j] # "Resumed"
      PROVE  ReadsPaused(z, p2, i)
  <2>1. CASE k = 1
    <3>1. p2
      BY <1>3, <2>1
    <3>2. \A j \in 1..Len(z) : j < i => z[j] # "Resumed"
      BY <1>1, <1>3, <2>1
    <3>. QED BY <3>1, <3>2 DEF ReadsPaused
  <2>2. CASE k # 1
    <3>1. k - 1 \in 1..Len(z) /\ k - 1 < i /\ z[k - 1] = "Paused"
      BY <1>1, <1>3, <2>2
    <3>2. \A j \in 1..Len(z) : k - 1 < j /\ j < i => z[j] # "Resumed"
      BY <1>1, <1>3, <2>2
    <3>. QED BY <3>1, <3>2 DEF ReadsPaused
  <2>. QED BY <2>1, <2>2
<1>. QED BY <1>2, <1>3 DEF ReadsPaused, z

LEMMA TailFlushPauses ==
  ASSUME NEW S, NEW q \in Seq(S), q # <<>>, NEW p, NEW p2, FlushPauses(q, p),
         q[1] = "Paused" \/ (p /\ q[1] # "Resumed") => p2
  PROVE  FlushPauses(Tail(q), p2)
<1>. DEFINE z == Tail(q)
<1>1. /\ Len(q) \in Nat \ {0} /\ Len(z) = Len(q) - 1
      /\ \A j \in 1..Len(z) : j + 1 \in 1..Len(q) /\ z[j] = q[j + 1] /\ j \in 1..Len(q)
      /\ \A j \in 1..Len(z) : j + 1 + 1 \in 1..Len(q) => j + 1 \in 1..Len(z) /\ z[j + 1] = q[j + 1 + 1]
  OBVIOUS
<1>2. ASSUME NEW i \in 1..Len(z), z[i] = "Flushed"
      PROVE  ReadsPaused(z, p2, i) \/ (i + 1 \in 1..Len(z) /\ z[i + 1] = "Paused")
  <2>1. q[i + 1] = "Flushed" /\ i + 1 \in 1..Len(q) /\ i \in 1..Len(q)
    BY <1>1, <1>2
  <2>2. ReadsPaused(q, p, i + 1) \/ (i + 1 + 1 \in 1..Len(q) /\ q[i + 1 + 1] = "Paused")
    BY <2>1 DEF FlushPauses
  <2>3. CASE ReadsPaused(q, p, i + 1)
    BY <2>1, <2>3, TailReads
  <2>4. CASE i + 1 + 1 \in 1..Len(q) /\ q[i + 1 + 1] = "Paused"
    BY <1>1, <2>4
  <2>. QED BY <2>2, <2>3, <2>4
<1>. HIDE DEF z
<1>3. FlushPauses(z, p2)
  BY <1>2 DEF FlushPauses
<1>. QED BY <1>3 DEF z

LEMMA EventsInit == Init => EventsInv
<1>. SUFFICES ASSUME Init PROVE EventsInv
  OBVIOUS
<1>1. events \in {<<>>, <<"Paused">>, <<"Flushed", "Paused">>} /\ castPaused = (events # <<>>)
  BY DEF Init
<1>2. CASE events = <<>>
  <2>1. ~castPaused
    BY <1>1, <1>2, Zenon
  <2>2. Len(events) = 0
    BY <1>2
  <2>. QED BY <2>1, <2>2 DEF EventsInv, FlushPauses
<1>3. CASE events = <<"Paused">>
  BY <1>1, <1>3 DEF EventsInv, FlushPauses, ReadsPaused
<1>4. CASE events = <<"Flushed", "Paused">>
  <2>. DEFINE q == <<"Flushed", "Paused">>
  <2>1. Len(q) = 2 /\ q[1] = "Flushed" /\ q[2] = "Paused" /\ 1..Len(q) = {1, 2}
    OBVIOUS
  <2>. HIDE DEF q
  <2>2. ReadsPaused(q, paused, Len(q) + 1)
    BY <2>1 DEF ReadsPaused
  <2>3. FlushPauses(q, paused)
    BY <2>1 DEF FlushPauses
  <2>. QED BY <1>4, <2>2, <2>3 DEF EventsInv, q
<1>. QED BY <1>1, <1>2, <1>3, <1>4

LEMMA EventsStep ==
  ASSUME TypeOK, EventsInv, [Next]_vars
  PROVE  EventsInv'
<1>. DEFINE Es == {"Paused", "Resumed", "Flushed"}
            p == paused
            q == events
<1>0. q \in Seq(Es) /\ Len(q) \in Nat
  BY DEF TypeOK, ReceiverType
<1>1. CASE UNCHANGED <<events, castPaused, paused>>
  BY <1>1 DEF EventsInv
<1>2. ASSUME NEW r \in Seq(Es), events' = q \o r, paused' = p,
             \A i \in 1..Len(r) : r[i] = "Flushed" =>
                \/ i = 1 /\ ReadsPaused(q, p, Len(q) + 1)
                \/ i + 1 \in 1..Len(r) /\ r[i + 1] = "Paused"
      PROVE  FlushPauses(events', paused')
  <2>1. FlushPauses(q, p)
    BY DEF EventsInv
  <2>. HIDE DEF q, p, Es
  <2>. QED BY <1>0, <1>2, <2>1, ExtendFlushPauses
\* An appended pause, or nothing but flushes after one.
<1>3. ASSUME NEW r \in Seq(Es), events' = q \o r, Len(r) \in Nat \ {0}, r[Len(r)] = "Paused"
      PROVE  ReadsPaused(events', paused', Len(events') + 1)
  <2>. DEFINE z == q \o r
  <2>1. Len(z) \in Nat \ {0} /\ z[Len(z)] = "Paused"
    BY <1>0, <1>3
  <2>. HIDE DEF z
  <2>2. ReadsPaused(z, paused', Len(z) + 1)
    <3>1. Len(z) \in 1..Len(z) /\ Len(z) < Len(z) + 1
      BY <2>1
    <3>2. \A j \in 1..Len(z) : ~(Len(z) < j)
      BY <2>1
    <3>. QED BY <2>1, <3>1, <3>2 DEF ReadsPaused
  <2>. QED BY <1>3, <2>2 DEF z
<1>4. CASE RateZero
  <2>. DEFINE r == <<"Paused">>
  <2>1. r \in Seq(Es) /\ Len(r) = 1 /\ r[1] = "Paused" /\ events' = q \o r /\ paused' = p
    BY <1>0, <1>4 DEF RateZero, pausing
  <2>2. Len(r) \in Nat \ {0} /\ r[Len(r)] = "Paused" /\ \A i \in 1..Len(r) : r[i] # "Flushed"
    BY <2>1
  <2>. HIDE DEF r, Es, p, q
  <2>3. FlushPauses(events', paused')
    BY <1>2, <2>1, <2>2
  <2>4. ReadsPaused(events', paused', Len(events') + 1)
    BY <1>3, <2>1, <2>2
  <2>. QED BY <2>3, <2>4 DEF EventsInv
<1>5. CASE PlayoutResumes
  <2>. DEFINE r == <<"Resumed">>
  <2>1. r \in Seq(Es) /\ Len(r) = 1 /\ r[1] = "Resumed" /\ events' = q \o r /\ paused' = p /\ castPaused' = FALSE
    BY <1>0, <1>5 DEF PlayoutResumes, pausing
  <2>2. \A i \in 1..Len(r) : r[i] # "Flushed"
    BY <2>1
  <2>. HIDE DEF r, Es, p, q
  <2>3. FlushPauses(events', paused')
    BY <1>2, <2>1, <2>2
  <2>. QED BY <2>1, <2>3 DEF EventsInv
<1>6. CASE Flush /\ castPaused
  <2>. DEFINE r == <<"Flushed">>
  <2>1. r \in Seq(Es) /\ Len(r) = 1 /\ r[1] = "Flushed" /\ events' = q \o r /\ paused' = p
    BY <1>6 DEF Flush, pausing
  <2>2. ReadsPaused(q, p, Len(q) + 1)
    BY <1>6 DEF EventsInv
  <2>3. ReadsPaused(events', paused', Len(events') + 1)
    <3>0. Len(q \o r) = Len(q) + 1
      BY <1>0, <2>1
    <3>p. (q \o r)[Len(q) + 1] = "Flushed"
      BY <1>0, <2>1
    <3>q. \A j \in 1..Len(q) : (q \o r)[j] = q[j]
      BY <1>0, <2>1
    <3>1. /\ Len(q \o r) = Len(q) + 1 /\ (q \o r)[Len(q) + 1] = "Flushed"
          /\ \A j \in 1..Len(q) : (q \o r)[j] = q[j]
      BY <3>0, <3>p, <3>q
    <3>. HIDE DEF r, Es, p, q
    <3>2. CASE p /\ \A j \in 1..Len(q) : j < Len(q) + 1 => q[j] # "Resumed"
      <4>1. \A j \in 1..Len(events') : events'[j] # "Resumed"
        BY <1>0, <2>1, <3>1, <3>2
      <4>. QED BY <2>1, <3>2, <4>1 DEF ReadsPaused
    <3>3. ASSUME NEW k \in 1..Len(q), q[k] = "Paused", \A j \in 1..Len(q) : k < j => q[j] # "Resumed"
          PROVE  ReadsPaused(events', paused', Len(events') + 1)
      <4>1. k \in 1..Len(events') /\ k < Len(events') + 1 /\ events'[k] = "Paused"
        BY <1>0, <2>1, <3>1, <3>3
      <4>2. \A j \in 1..Len(events') : k < j => events'[j] # "Resumed"
        BY <1>0, <2>1, <3>1, <3>3
      <4>. QED BY <4>1, <4>2 DEF ReadsPaused
    <3>. QED BY <1>0, <2>2, <3>2, <3>3 DEF ReadsPaused
  <2>4. \A i \in 1..Len(r) : i = 1
    BY <2>1
  <2>. HIDE DEF r, Es, p, q
  <2>5. FlushPauses(events', paused')
    BY <1>2, <2>1, <2>2, <2>4
  <2>. QED BY <2>3, <2>5 DEF EventsInv
<1>7. CASE Flush /\ ~castPaused
  <2>. DEFINE r == <<"Flushed", "Paused">>
  <2>1. r \in Seq(Es) /\ Len(r) = 2 /\ r[1] = "Flushed" /\ r[2] = "Paused" /\ events' = q \o r /\ paused' = p
    BY <1>7 DEF Flush, pausing
  <2>2. /\ Len(r) \in Nat \ {0} /\ r[Len(r)] = "Paused"
        /\ \A i \in 1..Len(r) : r[i] = "Flushed" => i + 1 \in 1..Len(r) /\ r[i + 1] = "Paused"
    BY <2>1
  <2>. HIDE DEF r, Es, p, q
  <2>3. FlushPauses(events', paused')
    BY <1>2, <2>1, <2>2
  <2>4. ReadsPaused(events', paused', Len(events') + 1)
    BY <1>3, <2>1, <2>2
  <2>. QED BY <2>3, <2>4 DEF EventsInv
<1>8. CASE Handle
  <2>0. q # <<>> /\ events' = Tail(q) /\ castPaused' = castPaused
    BY <1>8 DEF Handle, HandlePause, HandleResume, HandleFlush, Event
  <2>1. /\ q # <<>> /\ events' = Tail(q) /\ castPaused' = castPaused /\ Head(q) = q[1]
        /\ Len(q) \in 1..Len(q) /\ Len(events') + 1 = Len(q)
    BY <1>0, <2>0
  <2>2. q[1] = "Paused" \/ (p /\ q[1] # "Resumed") => paused'
    <3>1. CASE HandlePause
      BY <2>1, <3>1 DEF HandlePause
    <3>2. CASE HandleResume
      BY <2>1, <3>2 DEF HandleResume, Event
    <3>3. CASE HandleFlush
      BY <2>1, <3>3 DEF HandleFlush, Event, pausing
    <3>. QED BY <1>8, <3>1, <3>2, <3>3 DEF Handle
  <2>3. castPaused => ReadsPaused(q, p, Len(q) + 1)
    BY DEF EventsInv
  <2>4. FlushPauses(q, p)
    BY DEF EventsInv
  <2>. HIDE DEF Es, p, q
  <2>5. castPaused => ReadsPaused(events', paused', Len(q))
    BY <1>0, <2>1, <2>2, <2>3, TailReads
  <2>6. FlushPauses(events', paused')
    BY <1>0, <2>1, <2>2, <2>4, TailFlushPauses
  <2>. QED BY <2>1, <2>5, <2>6 DEF EventsInv
<1>9. UNCHANGED <<events, castPaused, paused>> \/ RateZero \/ PlayoutResumes \/ Flush \/ Handle
  BY DEF Next, vars, receiver, pausing, Sender, Tick, OweStallReload, RolloverStep, RolloverTakesFlight,
         RolloverDone, CastStep, ServeLoad, ServeStop, ServePause, ServePlay, ServeTransport, Environment,
         StallWindowElapses, LongPauseElapses, SpeakerStalls, RolloverDue, Transport, TakeTransport,
         CheckTransport, CommandTransport, Reload, BeginReload, TakeFlight, LeadQueued, PublishLoad, LoadReturns,
         AcceptReload, Discard, Commands, SendLoad, SendStop
<1>. QED BY <1>1, <1>4, <1>5, <1>6, <1>7, <1>8, <1>9

\* A re-LOAD task on its way to be accepted; what it will cover is read while it is early.
Early == {"check", "flight", "lead"}
Late  == {"publish", "spawned", "load", "loading", "loaded", "accept"}
Making(k) == k.kind = "reload" /\ k.pc \in Early \cup Late /\ (k.pc = "loaded" => k.ok)

\* A playing session that owes a flush is about to be paused again, or such a task covers it.
PausePending == \E i \in 1..Len(events) : events[i] = "Paused"
MakesFlush(k) ==
  /\ Making(k)
  /\ k.pc \in Early => k.request \in {0, flushRequested}
  /\ k.pc \in Late => k.covers = flushRequested
FlushOwedInv ==
  ~paused /\ FlushReloadOwed /\ fails = 0 /\ ~ended
    => PausePending \/ \E t \in Everyone : MakesFlush(task[t])

\* One that owes a stall re-LOAD has such a task that does not think it is done.
MakesStall(k) == Making(k) /\ (k.request = 0 \/ k.request > flushDone)
StallOwedInv ==
  ~paused /\ stallOwed /\ fails = 0 /\ ~ended => \E t \in Everyone : MakesStall(task[t])

\* Such a task gets on unless it finds its request done, or is accepted.
LEMMA MakingGoesOn ==
  ASSUME PlayInv, RestInv, [Next]_vars, NEW w \in Everyone, Making(task[w]), ~paused, fails' = 0
  PROVE  \/ /\ Making(task'[w]) /\ task'[w].request = task[w].request
            /\ task[w].pc \in Late => task'[w].pc \in Late /\ task'[w].covers = task[w].covers
            /\ task[w].pc \in Early /\ task'[w].pc \in Late => task'[w].covers = flushRequested
         \/ task[w].pc \in Early /\ AlreadySatisfied(w)
         \/ /\ task[w].pc = "accept"
            /\ flushDone' = Larger(flushDone, task[w].covers) /\ stallOwed' = FALSE
<1>1. fails \in Nat
  BY Counts
<1>2. ~Born(w) /\ ~TransportFate(w)
  BY KindTells DEF Making, Born, TransportFate, RestInv
<1>3. w # Rollover /\ task[w].pc # "owe"
  BY DEF Making, RestInv, KindInv, Early, Late
<1>4. CASE task'[w] = task[w]
  BY <1>4 DEF Making, Early, Late
<1>5. CASE ReloadFate(w)
  BY <1>5 DEF ReloadFate, Making, Early, Late, Moves, Carries
<1>6. CASE CommandFate(w)
  BY <1>6 DEF CommandFate, Making, Early, Late, Moves, Carries
<1>7. CASE CastFate(w)
  <2>1. LoadFate(w)
    BY <1>7 DEF CastFate, StopFate, AckFate, Making, Early, Late
  <2>. QED BY <1>1, <2>1 DEF LoadFate, Making, Early, Late
<1>. QED BY <1>2, <1>3, <1>4, <1>5, <1>6, <1>7, Fates

\* Apart from the handlers of events, nothing unpauses a session or takes an event away, what is
\* requested stays, what is done grows, and a stall is owed only by its watchdog.
LEMMA DebtKept ==
  ASSUME PlayInv, [Next]_vars, ~Handle
  PROVE  /\ paused' = paused /\ flushRequested' = flushRequested
         /\ flushDone' = flushDone \/ (flushDone' \in Nat /\ flushDone' > flushDone /\ stallOwed' = FALSE)
         /\ stallOwed' => stallOwed \/ OweStallReload
         /\ PausePending => PausePending'
<1>1. paused' = paused
  BY DEF Next, vars, pausing, Sender, RateZero, PlayoutResumes, Flush, Tick, OweStallReload, RolloverStep,
         RolloverTakesFlight, RolloverDone, CastStep, ServeLoad, ServeStop, ServePause, ServePlay, ServeTransport,
         Environment, StallWindowElapses, LongPauseElapses, SpeakerStalls, RolloverDue, Transport, TakeTransport,
         CheckTransport, CommandTransport, Reload, BeginReload, TakeFlight, LeadQueued, PublishLoad, LoadReturns,
         AcceptReload, Discard, Commands, SendLoad, SendStop
<1>7. flushRequested' = flushRequested
  BY DEF Next, vars, owed, Sender, RateZero, PlayoutResumes, Flush, Tick, OweStallReload, RolloverStep,
         RolloverTakesFlight, RolloverDone, CastStep, ServeLoad, ServeStop, ServePause, ServePlay, ServeTransport,
         Environment, StallWindowElapses, LongPauseElapses, SpeakerStalls, RolloverDue, Transport, TakeTransport,
         CheckTransport, CommandTransport, Reload, BeginReload, TakeFlight, LeadQueued, PublishLoad, LoadReturns,
         AcceptReload, Discard, Commands, SendLoad, SendStop
<1>2. \/ flushDone' = flushDone /\ (stallOwed' = stallOwed \/ OweStallReload)
      \/ \E t \in Everyone : flushDone' = Larger(flushDone, task[t].covers) /\ stallOwed' = FALSE
  BY DEF Next, vars, pausing, owed, Sender, RateZero, PlayoutResumes, Flush, Tick, RolloverStep,
         RolloverTakesFlight, RolloverDone, CastStep, ServeLoad, ServeStop, ServePause, ServePlay, ServeTransport,
         Environment, StallWindowElapses, LongPauseElapses, SpeakerStalls, RolloverDue, Transport, TakeTransport,
         CheckTransport, CommandTransport, Reload, BeginReload, TakeFlight, LeadQueued, PublishLoad, LoadReturns,
         AcceptReload, Covers, Discard, Commands, SendLoad, SendStop, OweStallReload
<1>3. flushDone \in Nat /\ \A t \in Everyone : task[t].covers \in Nat
  BY DEF PlayInv, TypeOK, OwedType, Task
<1>4. flushDone' = flushDone \/ (flushDone' \in Nat /\ flushDone' > flushDone /\ stallOwed' = FALSE)
  BY <1>2, <1>3 DEF Larger
<1>5. \/ events' = events \/ RateZero \/ PlayoutResumes \/ Flush
  BY DEF Next, vars, receiver, Sender, Tick, OweStallReload, RolloverStep,
         RolloverTakesFlight, RolloverDone, CastStep, ServeLoad, ServeStop, ServePause, ServePlay, ServeTransport,
         Environment, StallWindowElapses, LongPauseElapses, SpeakerStalls, RolloverDue, Transport, TakeTransport,
         CheckTransport, CommandTransport, Reload, BeginReload, TakeFlight, LeadQueued, PublishLoad, LoadReturns,
         AcceptReload, Discard, Commands, SendLoad, SendStop
<1>6. \E r \in Seq({"Paused", "Resumed", "Flushed"}) : events' = events \o r
  <2>1. /\ <<>> \in Seq({"Paused", "Resumed", "Flushed"}) /\ <<"Paused">> \in Seq({"Paused", "Resumed", "Flushed"})
        /\ <<"Resumed">> \in Seq({"Paused", "Resumed", "Flushed"})
        /\ <<"Flushed">> \in Seq({"Paused", "Resumed", "Flushed"})
        /\ <<"Flushed", "Paused">> \in Seq({"Paused", "Resumed", "Flushed"})
    OBVIOUS
  <2>2. events \in Seq({"Paused", "Resumed", "Flushed"})
    BY DEF PlayInv, TypeOK, ReceiverType
  <2>3. /\ events = events \o <<>> /\ \A e : Append(events, e) = events \o <<e>>
    BY <2>2
  <2>4. \/ events' = events \o <<>> \/ events' = events \o <<"Paused">> \/ events' = events \o <<"Resumed">>
        \/ events' = events \o <<"Flushed">> \/ events' = events \o <<"Flushed", "Paused">>
    BY <1>5, <2>3 DEF RateZero, PlayoutResumes, Flush
  <2>. QED BY <2>1, <2>4
<1>8. PausePending => PausePending'
  <2>1. PICK r \in Seq({"Paused", "Resumed", "Flushed"}) : events' = events \o r
    BY <1>6
  <2>2. events \in Seq({"Paused", "Resumed", "Flushed"})
    BY DEF PlayInv, TypeOK, ReceiverType
  <2>3. \A i \in 1..Len(events) : i \in 1..Len(events') /\ events'[i] = events[i]
    BY <2>1, <2>2
  <2>. QED BY <2>3 DEF PausePending
<1>. QED BY <1>1, <1>2, <1>4, <1>7, <1>8

\* The task a resume spawns if something is owed.
LEMMA ResumeMakes ==
  ASSUME PlayInv, RestInv, HandleResume, FlushReloadOwed \/ stallOwed
  PROVE  \E t \in Everyone : /\ Making(task'[t]) /\ task'[t].pc = "check"
                             /\ task'[t].request = IF FlushReloadOwed THEN flushRequested ELSE 0
<1>. DEFINE r == IF FlushReloadOwed THEN flushRequested ELSE 0
            new == NewTask("reload", "check", r)
<1>1. r \in Nat
  BY DEF PlayInv, TypeOK, OwedType
<1>2. ResumeDecision = "reload"
  BY DEF ResumeDecision
<1>3. Free # {} /\ task' = Spawned(new)
  BY <1>2 DEF HandleResume
<1>4. new.kind = "reload" /\ new.pc = "check" /\ new.request = r
  BY <1>1, NewFields
<1>. HIDE DEF new
<1>5. PICK t \in Tasks : task[t].kind = "none" /\ Spawned(new) = [task EXCEPT ![t] = new]
  BY <1>3, SpawnedIs DEF PlayInv
<1>6. t \in Everyone /\ task'[t] = new
  BY <1>3, <1>5, Names DEF PlayInv, TypeOK
<1>7. Making(task'[t])
  BY <1>4, <1>6 DEF Making, Early
<1>. QED BY <1>4, <1>6, <1>7

LEMMA FlushOwedStep ==
  ASSUME PlayInv, RestInv, EventsInv, FlushOwedInv, [Next]_vars
  PROVE  FlushOwedInv'
<1>. SUFFICES ASSUME ~paused', FlushReloadOwed', fails' = 0, ~ended', ~PausePending'
              PROVE  \E t \in Everyone : MakesFlush(task[t])'
  BY DEF FlushOwedInv
<1>1. /\ fails = 0 /\ ~ended
      /\ flushDone \in Nat /\ flushRequested \in Nat /\ \A t \in Everyone : task[t].covers \in Nat
  BY Counts DEF PlayInv, TypeOK, OwedType, Task
<1>2. CASE HandleResume
  <2>1. flushRequested' = flushRequested /\ flushDone' = flushDone
    BY <1>2 DEF HandleResume, owed
  <2>2. FlushReloadOwed
    BY <2>1 DEF FlushReloadOwed
  <2>3. PICK t \in Everyone : Making(task'[t]) /\ task'[t].pc = "check" /\ task'[t].request = flushRequested
    BY <1>2, <2>2, ResumeMakes
  <2>. QED BY <2>1, <2>3 DEF MakesFlush, Early, Late, Making
<1>3. CASE HandlePause
  BY <1>3 DEF HandlePause
\* The flush was read while the session plays, so a pause is next.
<1>4. CASE HandleFlush
  <2>. DEFINE q == events
  <2>1. q \in Seq({"Paused", "Resumed", "Flushed"}) /\ q # <<>> /\ q[1] = "Flushed" /\ events' = Tail(q) /\ ~paused
    BY <1>4 DEF HandleFlush, Event, PlayInv, TypeOK, ReceiverType, pausing
  <2>2. FlushPauses(q, FALSE)
    BY <2>1 DEF EventsInv, FlushPauses, ReadsPaused
  <2>. HIDE DEF q
  <2>3. /\ Len(q) \in Nat \ {0} /\ 1 \in 1..Len(q) /\ ~\E k \in 1..Len(q) : k < 1
        /\ 1 + 1 \in 1..Len(q) => 1 \in 1..Len(Tail(q)) /\ Tail(q)[1] = q[1 + 1]
    BY <2>1
  <2>4. ~ReadsPaused(q, FALSE, 1)
    BY <2>3 DEF ReadsPaused
  <2>5. 1 + 1 \in 1..Len(q) /\ q[1 + 1] = "Paused"
    BY <2>1, <2>2, <2>3, <2>4 DEF FlushPauses
  <2>6. PausePending'
    BY <2>1, <2>3, <2>5 DEF PausePending
  <2>. QED BY <2>6
<1>5. CASE ~Handle
  <2>0. /\ paused' = paused /\ flushRequested' = flushRequested
        /\ PausePending => PausePending'
        /\ flushDone' = flushDone \/ (flushDone' \in Nat /\ flushDone' > flushDone)
    BY <1>5, DebtKept
  <2>1. /\ ~paused /\ flushRequested' = flushRequested /\ ~PausePending
        /\ flushDone' = flushDone \/ (flushDone' \in Nat /\ flushDone' > flushDone)
    BY <2>0
  <2>2. FlushReloadOwed
    BY <1>1, <2>1 DEF FlushReloadOwed
  <2>3. PICK w \in Everyone : MakesFlush(task[w])
    BY <1>1, <2>1, <2>2 DEF FlushOwedInv
  <2>4. Making(task[w]) /\ (task[w].pc \in Early => task[w].request \in {0, flushRequested})
        /\ (task[w].pc \in Late => task[w].covers = flushRequested)
    BY <2>3 DEF MakesFlush
  <2>5. ~(task[w].pc \in Early /\ AlreadySatisfied(w))
    BY <1>1, <2>2, <2>4 DEF AlreadySatisfied, FlushReloadOwed
  <2>6. ~(task[w].pc = "accept" /\ flushDone' = Larger(flushDone, task[w].covers))
    <3>1. SUFFICES ASSUME task[w].pc = "accept", flushDone' = Larger(flushDone, flushRequested) PROVE FALSE
      BY <2>4 DEF Late
    <3>2. flushDone' >= flushRequested
      BY <1>1, <3>1 DEF Larger
    <3>. QED BY <1>1, <2>1, <3>2 DEF FlushReloadOwed
  <2>7. /\ Making(task'[w]) /\ task'[w].request = task[w].request
        /\ task[w].pc \in Late => task'[w].pc \in Late /\ task'[w].covers = task[w].covers
        /\ task[w].pc \in Early /\ task'[w].pc \in Late => task'[w].covers = flushRequested
    BY <2>1, <2>4, <2>5, <2>6, MakingGoesOn
  <2>8. task[w].pc \in Early \/ task[w].pc \in Late
    BY <2>4 DEF Making
  <2>9. MakesFlush(task[w])'
    BY <2>1, <2>4, <2>7, <2>8 DEF MakesFlush, Early, Late
  <2>. QED BY <2>9
<1>. QED BY <1>2, <1>3, <1>4, <1>5 DEF Handle

LEMMA StallOwedStep ==
  ASSUME PlayInv, RestInv, StallOwedInv, [Next]_vars
  PROVE  StallOwedInv'
<1>. SUFFICES ASSUME ~paused', stallOwed', fails' = 0, ~ended'
              PROVE  \E t \in Everyone : MakesStall(task[t])'
  BY DEF StallOwedInv
<1>1. fails = 0 /\ ~ended /\ flushDone \in Nat /\ flushRequested \in Nat
  BY Counts DEF PlayInv, TypeOK, OwedType
<1>2. CASE HandleResume
  <2>1. flushDone' = flushDone /\ stallOwed' = stallOwed
    BY <1>2 DEF HandleResume, owed
  <2>2. PICK t \in Everyone : /\ Making(task'[t])
                              /\ task'[t].request = IF FlushReloadOwed THEN flushRequested ELSE 0
    BY <1>2, <2>1, ResumeMakes
  <2>3. task'[t].request = 0 \/ task'[t].request > flushDone
    BY <1>1, <2>2 DEF FlushReloadOwed
  <2>. QED BY <2>1, <2>2, <2>3 DEF MakesStall
<1>3. CASE HandlePause
  BY <1>3 DEF HandlePause
<1>4. CASE OweStallReload
  <2>. DEFINE new == NewTask("reload", "check", 0)
  <2>1. ~paused /\ flushDone' = flushDone
    BY <1>4 DEF OweStallReload, pausing
  <2>2. Free # {} /\ task' = [Spawned(new) EXCEPT ![Watchdog] = NoTask]
    BY <1>4, <2>1 DEF OweStallReload
  <2>3. new.kind = "reload" /\ new.pc = "check" /\ new.request = 0
    BY NewFields
  <2>. HIDE DEF new
  <2>4. PICK t \in Tasks : task[t].kind = "none" /\ Spawned(new) = [task EXCEPT ![t] = new]
    BY <2>2, SpawnedIs DEF PlayInv
  <2>5. t \in Everyone /\ t # Watchdog
    BY <2>4, Names
  <2>6. task \in [Everyone -> Task]
    BY DEF PlayInv, TypeOK
  <2>7. task'[t] = new
    BY <2>2, <2>4, <2>5, <2>6
  <2>8. Making(task'[t])
    BY <2>3, <2>7 DEF Making, Early
  <2>. QED BY <2>3, <2>5, <2>7, <2>8 DEF MakesStall
<1>5. CASE ~HandleResume /\ ~HandlePause /\ ~OweStallReload
  <2>1. ~paused /\ stallOwed /\ flushDone' = flushDone
    <3>1. CASE HandleFlush
      BY <3>1 DEF HandleFlush, pausing
    <3>2. CASE ~Handle
      BY <1>5, <3>2, DebtKept
    <3>. QED BY <1>5, <3>1, <3>2 DEF Handle
  <2>2. PICK w \in Everyone : MakesStall(task[w])
    BY <1>1, <2>1 DEF StallOwedInv
  <2>3. Making(task[w]) /\ (task[w].request = 0 \/ task[w].request > flushDone) /\ task[w].request \in Nat
    BY <2>2 DEF MakesStall, PlayInv, TypeOK, Task
  <2>4. ~AlreadySatisfied(w)
    BY <1>1, <2>3 DEF AlreadySatisfied
  <2>5. Making(task'[w]) /\ task'[w].request = task[w].request
    BY <2>1, <2>3, <2>4, MakingGoesOn
  <2>. QED BY <2>1, <2>3, <2>5 DEF MakesStall
<1>. QED BY <1>2, <1>3, <1>4, <1>5

LEMMA OwedInit == Init => FlushOwedInv /\ StallOwedInv
<1>. SUFFICES ASSUME Init PROVE FlushOwedInv /\ StallOwedInv
  OBVIOUS
<1>1. flushRequested = 0 /\ flushDone = 0 /\ stallOwed = FALSE
  BY DEF Init
<1>. QED BY <1>1 DEF FlushOwedInv, StallOwedInv, FlushReloadOwed

\* For every number of tasks, callbacks and re-LOADs: a session that plays, at rest, owes neither a
\* flush nor a stall re-LOAD, unless a command failed.
THEOREM NothingIsLeftOwed == Spec => []NothingLeftOwed
<1>1. FlushOwedInv /\ StallOwedInv => NothingLeftOwed
  <2>. SUFFICES ASSUME FlushOwedInv, StallOwedInv, Quiet, ~paused, fails = 0
                PROVE  ~FlushReloadOwed /\ ~stallOwed
    BY DEF NothingLeftOwed
  <2>1. ~ended /\ events = <<>> /\ \A t \in Everyone : task[t].kind = "none"
    BY DEF Quiet
  <2>2. \A t \in Everyone : ~MakesFlush(task[t]) /\ ~MakesStall(task[t])
    BY <2>1 DEF MakesFlush, MakesStall, Making
  <2>3. ~PausePending
    BY <2>1 DEF PausePending
  <2>. QED BY <2>1, <2>2, <2>3 DEF FlushOwedInv, StallOwedInv
<1>2. PlayInv => TypeOK
  BY DEF PlayInv
<1>. QED BY <1>1, <1>2, EventsInit, EventsStep, OwedInit, FlushOwedStep, StallOwedStep, RestInit, RestStep,
            PlaybackInvariant, PTL DEF Spec
=============================================================================
