--------------------------- MODULE CastGroup_proofs ---------------------------
(***************************************************************************)
(* What a group of speakers keeps, for every number of members, hosts,     *)
(* streams, sessions, reconcile tasks and faults (those a theorem excludes *)
(* are named in it):                                                       *)
(*   types                        TypeCorrect                              *)
(*   one owner                    OneMemberOwns                            *)
(*   session hosts stay open      HostsStayOpen                            *)
(*   members wait for an owner    NobodyIsForgotten                        *)
(*   Cast plays on the members    JoinersArePlayed, LeaversAreDropped      *)
(* Each part starts from its inductive invariant, then has one lemma for   *)
(* each actor's steps.                                                     *)
(***************************************************************************)
EXTENDS CastGroup, FiniteSetTheorems, WellFoundedInduction, TLAPS

\* A set of numbers has a least one: the intervals up to its elements have a smallest one.
LEMMA Least ==
  ASSUME NEW S \in SUBSET Nat, S # {}
  PROVE  \E x \in S : \A y \in S : x <= y
<1>. DEFINE UpTo == {0..x : x \in S}
            smaller == StrictSubsetOrdering(Nat)
<1>1. UpTo \subseteq FiniteSubsetsOf(Nat) /\ UpTo # {}
  <2>1. \A x \in S : 0..x \in SUBSET Nat /\ IsFiniteSet(0..x)
    BY FS_Interval
  <2>. QED BY <2>1 DEF FiniteSubsetsOf
<1>2. IsWellFoundedOn(smaller, FiniteSubsetsOf(Nat))
  BY FS_StrictSubsetOrderingWellFounded
<1>3. PICK T \in UpTo : \A U \in UpTo : <<U, T>> \notin smaller
  <2>. HIDE DEF UpTo, smaller
  <2>. QED BY <1>1, <1>2, WFMin
<1>4. PICK x \in S : T = 0..x
  OBVIOUS
<1>5. ASSUME NEW y \in S, y < x PROVE FALSE
  <2>1. 0..y \in UpTo /\ 0..y \subseteq 0..x /\ 0..y # 0..x
    BY <1>5
  <2>2. 0..y \in SUBSET Nat /\ 0..x \in SUBSET Nat
    OBVIOUS
  <2>3. <<0..y, T>> \in smaller
    BY <1>4, <2>1, <2>2 DEF StrictSubsetOrdering
  <2>. QED BY <1>3, <2>1, <2>3
<1>. QED BY <1>5

\* The prefixes of q, up to the n-th, with what is not in S taken out.
KeepsUpTo(G, q, S, n) ==
  G = [i \in 0..n |-> IF i = 0 THEN <<>> ELSE IF q[i] \in S THEN Append(G[i - 1], q[i]) ELSE G[i - 1]]

LEMMA KeepsExist ==
  ASSUME NEW q, NEW S, NEW n \in Nat
  PROVE  \E G : KeepsUpTo(G, q, S, n)
<1>. DEFINE Bad == {k \in Nat : \A G : ~KeepsUpTo(G, q, S, k)}
<1>. SUFFICES ASSUME Bad # {}
              PROVE  FALSE
  OBVIOUS
<1>1. PICK k \in Bad : \A j \in Bad : k <= j
  <2>1. Bad \in SUBSET Nat
    OBVIOUS
  <2>. HIDE DEF Bad
  <2>. QED BY <2>1, Least
<1>2. CASE k = 0
  <2>. DEFINE G == [i \in 0..0 |-> <<>>]
  <2>1. KeepsUpTo(G, q, S, 0)
    BY DEF KeepsUpTo
  <2>. QED BY <1>1, <1>2, <2>1
<1>3. CASE k # 0
  <2>1. k \in Nat /\ k - 1 \in Nat /\ k - 1 \notin Bad
    BY <1>1, <1>3
  <2>2. PICK H : KeepsUpTo(H, q, S, k - 1)
    BY <2>1
  <2>. DEFINE G == [i \in 0..k |-> IF i < k THEN H[i] ELSE
                     IF q[k] \in S THEN Append(H[k - 1], q[k]) ELSE H[k - 1]]
  <2>3. \A i \in 0..(k - 1) :
          H[i] = IF i = 0 THEN <<>> ELSE IF q[i] \in S THEN Append(H[i - 1], q[i]) ELSE H[i - 1]
    BY <2>2 DEF KeepsUpTo
  <2>4. /\ \A i \in 0..k : i < k => i \in 0..(k - 1) /\ G[i] = H[i]
        /\ \A i \in 0..k : i # 0 => i - 1 \in 0..k /\ i - 1 < k
        /\ k \in 0..k /\ G[k] = IF q[k] \in S THEN Append(H[k - 1], q[k]) ELSE H[k - 1]
    BY <2>1
  <2>5. DOMAIN G = 0..k /\ G = [i \in 0..k |-> G[i]]
    OBVIOUS
  <2>. HIDE DEF G
  <2>6. \A i \in 0..k :
          G[i] = IF i = 0 THEN <<>> ELSE IF q[i] \in S THEN Append(G[i - 1], q[i]) ELSE G[i - 1]
    <3>. TAKE i \in 0..k
    <3>1. CASE i < k
      <4>1. G[i] = H[i] /\ (i # 0 => G[i - 1] = H[i - 1])
        BY <2>1, <2>4, <3>1
      <4>. QED BY <2>3, <2>4, <3>1, <4>1
    <3>2. CASE ~(i < k)
      <4>1. i = k /\ G[k - 1] = H[k - 1] /\ i # 0
        BY <1>3, <2>1, <2>4, <3>2
      <4>. QED BY <2>4, <4>1
    <3>. QED BY <3>1, <3>2
  <2>7. KeepsUpTo(G, q, S, k)
    BY <2>5, <2>6 DEF KeepsUpTo
  <2>. QED BY <1>1, <2>7
<1>. QED BY <1>2, <1>3

\* What is kept of q is a sequence of its elements in S, all of them.
LEMMA KeepingIs ==
  ASSUME NEW X, NEW q \in Seq(X), NEW S
  PROVE  Keeping(q, S) \in Seq(X) /\ ToSet(Keeping(q, S)) = ToSet(q) \cap S
<1>. DEFINE F == CHOOSE G : KeepsUpTo(G, q, S, Len(q))
<1>1. PICK n \in Nat : n = Len(q) /\ DOMAIN q = 1..n
  OBVIOUS
<1>2. KeepsUpTo(F, q, S, n)
  BY <1>1, KeepsExist
<1>3. Keeping(q, S) = F[n]
  BY <1>1 DEF Keeping, KeepsUpTo
<1>. HIDE DEF F
<1>4. /\ F[0] = <<>>
      /\ \A i \in 1..n : F[i] = IF q[i] \in S THEN Append(F[i - 1], q[i]) ELSE F[i - 1]
  <2>1. \A i \in 0..n : F[i] = IF i = 0 THEN <<>> ELSE IF q[i] \in S THEN Append(F[i - 1], q[i]) ELSE F[i - 1]
    BY <1>2 DEF KeepsUpTo
  <2>2. 0 \in 0..n /\ \A i \in 1..n : i \in 0..n /\ i # 0
    BY <1>1
  <2>. QED BY <2>1, <2>2
<1>. DEFINE Good(i) == F[i] \in Seq(X) /\ ToSet(F[i]) = {q[j] : j \in 1..i} \cap S
            Bad     == {i \in 0..n : ~Good(i)}
<1>5. ASSUME Bad # {}
      PROVE  FALSE
  <2>1. PICK i \in Bad : \A j \in Bad : i <= j
    <3>1. Bad \in SUBSET Nat
      BY <1>1
    <3>. HIDE DEF Bad
    <3>. QED BY <1>5, <3>1, Least
  <2>2. i \in 0..n /\ ~Good(i)
    BY <2>1
  <2>3. i # 0
    <3>1. Good(0)
      BY <1>4 DEF ToSet
    <3>. QED BY <2>2, <3>1
  <2>4. i \in 1..n /\ i - 1 \in 0..n /\ i - 1 \notin Bad
    <3>1. i \in 1..n /\ i - 1 \in 0..n /\ ~(i <= i - 1)
      BY <1>1, <2>2, <2>3
    <3>. HIDE DEF Bad
    <3>. QED BY <2>1, <3>1
  <2>5. Good(i - 1)
    BY <2>4
  <2>6. q[i] \in X
    BY <1>1, <2>4
  <2>7. {q[j] : j \in 1..i} = {q[j] : j \in 1..(i - 1)} \cup {q[i]}
    <3>1. 1..i = (1..(i - 1)) \cup {i}
      BY <1>1, <2>4
    <3>. QED BY <3>1
  <2>8. CASE q[i] \in S
    <3>1. F[i] = Append(F[i - 1], q[i]) /\ F[i - 1] \in Seq(X)
      BY <1>4, <2>4, <2>5, <2>8
    <3>2. F[i] \in Seq(X) /\ ToSet(F[i]) = ToSet(F[i - 1]) \cup {q[i]}
      <4>. DEFINE r == F[i - 1]
                  e == q[i]
      <4>1. r \in Seq(X) /\ e \in X /\ F[i] = Append(r, e)
        BY <2>6, <3>1
      <4>. HIDE DEF r, e
      <4>2. Append(r, e) \in Seq(X) /\ DOMAIN Append(r, e) = (DOMAIN r) \cup {Len(r) + 1}
            /\ (\A j \in DOMAIN r : Append(r, e)[j] = r[j]) /\ Append(r, e)[Len(r) + 1] = e
        BY <4>1
      <4>3. ToSet(Append(r, e)) = ToSet(r) \cup {e}
        BY <4>2 DEF ToSet
      <4>. QED BY <4>1, <4>2, <4>3 DEF r, e
    <3>. QED BY <2>2, <2>5, <2>7, <2>8, <3>2
  <2>9. CASE q[i] \notin S
    <3>1. F[i] = F[i - 1]
      BY <1>4, <2>4, <2>9
    <3>. QED BY <2>2, <2>5, <2>7, <2>9, <3>1
  <2>. QED BY <2>8, <2>9
<1>6. Good(n)
  <2>1. Bad = {}
    BY <1>5
  <2>2. n \in 0..n
    BY <1>1
  <2>. HIDE DEF Good
  <2>. QED BY <2>1, <2>2
<1>7. {q[j] : j \in 1..n} = ToSet(q)
  BY <1>1 DEF ToSet
<1>. QED BY <1>3, <1>6, <1>7

LEMMA WithoutIs ==
  ASSUME NEW X, NEW q \in Seq(X), NEW S
  PROVE  Without(q, S) \in Seq(X) /\ ToSet(Without(q, S)) = ToSet(q) \ S
<1>1. Without(q, S) \in Seq(X) /\ ToSet(Without(q, S)) = ToSet(q) \cap (ToSet(q) \ S)
  BY KeepingIs DEF Without
<1>. QED BY <1>1

\* What a longer queue holds.
LEMMA AppendIs ==
  ASSUME NEW X, NEW q \in Seq(X), NEW e \in X
  PROVE  Append(q, e) \in Seq(X) /\ ToSet(Append(q, e)) = ToSet(q) \cup {e}
<1>1. Append(q, e) \in Seq(X) /\ DOMAIN Append(q, e) = (DOMAIN q) \cup {Len(q) + 1}
      /\ (\A j \in DOMAIN q : Append(q, e)[j] = q[j]) /\ Append(q, e)[Len(q) + 1] = e
  OBVIOUS
<1>. QED BY <1>1 DEF ToSet

LEMMA ConcatIs ==
  ASSUME NEW X, NEW p \in Seq(X), NEW q \in Seq(X)
  PROVE  p \o q \in Seq(X) /\ ToSet(p \o q) = ToSet(p) \cup ToSet(q)
<1>1. PICK m \in Nat, n \in Nat : m = Len(p) /\ n = Len(q)
  OBVIOUS
<1>2. /\ p \o q \in Seq(X) /\ DOMAIN (p \o q) = 1..(m + n) /\ DOMAIN p = 1..m /\ DOMAIN q = 1..n
      /\ \A i \in 1..(m + n) : (p \o q)[i] = IF i <= m THEN p[i] ELSE q[i - m]
  BY <1>1
<1>3. ToSet(p \o q) \subseteq ToSet(p) \cup ToSet(q)
  <2>. SUFFICES ASSUME NEW i \in 1..(m + n)
                PROVE  (p \o q)[i] \in ToSet(p) \cup ToSet(q)
    BY <1>2 DEF ToSet
  <2>1. CASE i <= m
    <3>1. i \in 1..m /\ (p \o q)[i] = p[i]
      BY <1>2, <2>1
    <3>. QED BY <1>2, <3>1 DEF ToSet
  <2>2. CASE ~(i <= m)
    <3>1. i - m \in 1..n /\ (p \o q)[i] = q[i - m]
      BY <1>2, <2>2
    <3>. QED BY <1>2, <3>1 DEF ToSet
  <2>. QED BY <2>1, <2>2
<1>4. ToSet(p) \subseteq ToSet(p \o q)
  <2>1. \A i \in 1..m : i \in 1..(m + n) /\ (p \o q)[i] = p[i]
    BY <1>2
  <2>. QED BY <1>2, <2>1 DEF ToSet
<1>5. ToSet(q) \subseteq ToSet(p \o q)
  <2>1. ASSUME NEW i \in 1..n
        PROVE  q[i] \in ToSet(p \o q)
    <3>1. m + i \in 1..(m + n) /\ (p \o q)[m + i] = q[i]
      BY <1>1, <1>2
    <3>2. PICK j : j = m + i /\ j \in DOMAIN (p \o q) /\ (p \o q)[j] = q[i]
      BY <1>2, <3>1
    <3>. QED BY <3>2 DEF ToSet
  <2>. QED BY <1>2, <2>1 DEF ToSet
<1>. QED BY <1>2, <1>3, <1>4, <1>5

-----------------------------------------------------------------------------
(***************************************************************************)
(* Types.  A task that asks knows whose session it asks about, and one     *)
(* that follows it where to.                                               *)
(***************************************************************************)
AskInv == \A t \in Tasks :
  /\ task[t].pc \in {"flight", "sent", "refused", "move"} => task[t].owner \in Devices
  /\ task[t].pc = "move" => task[t].moved \in Hosts
TypeInv == TypeOK /\ AskInv

LEMMA ValuesTyped ==
  /\ Idle \in Slots /\ Idle.st = "Idle" /\ NoGroup \in Records /\ NewGroup \in Records
  /\ NewGroup.here /\ ~NoGroup.here
  /\ \A r \in 0..MaxStreams : Starting(r) \in Slots /\ Following(r) \in Slots /\ Started(r) \in Events
  /\ \A r \in 0..MaxStreams, s \in 0..MaxSessions, g \in BOOLEAN : Playing(r, s, g) \in Slots
  /\ Ended \in Events /\ NoTask \in Passes /\ Resting \in Workers
  /\ \A pc \in {"start", "playing", "joined", "check", "left", "promote"} : At(pc) \in Workers /\ At(pc).pc = pc
<1>1. 0 \in 0..MaxStreams /\ 0 \in 0..MaxSessions
  BY BoundsAssumption DEF BoundsAssumption
<1>2. <<>> \in Seq(Devices)
  OBVIOUS
<1>. QED BY <1>1, <1>2 DEF Idle, Starting, Following, Playing, Slots, NoGroup, NewGroup, Records, Started, Ended, Events,
              NoTask, Passes, Resting, At, Workers

LEMMA FieldsTyped ==
  ASSUME TypeOK, NEW d \in Devices
  PROVE  /\ ring[d] \in 0..MaxStreams /\ inbox[d] \in Seq(Events) /\ slot[d] \in Slots /\ worker[d] \in Workers
         /\ slot[d].ring \in 0..MaxStreams /\ slot[d].session \in 0..MaxSessions
BY DEF TypeOK, Slots

LEMMA OpenKept == TypeInv /\ [Next]_vars => opened' \in 0..MaxStreams /\ ring' \in [Devices -> 0..MaxStreams]
<1>. SUFFICES ASSUME TypeInv, [Next]_vars
              PROVE  opened' \in 0..MaxStreams /\ ring' \in [Devices -> 0..MaxStreams]
  OBVIOUS
<1>1. opened \in 0..MaxStreams /\ ring \in [Devices -> 0..MaxStreams] /\ MaxStreams \in Nat
  BY BoundsAssumption DEF TypeInv, TypeOK, BoundsAssumption
<1>2. ASSUME NEW d \in Devices, OpenStream(d)
      PROVE  opened' \in 0..MaxStreams /\ ring' \in [Devices -> 0..MaxStreams]
  <2>1. opened < MaxStreams /\ opened' = opened + 1 /\ ring' = [ring EXCEPT ![d] = opened + 1]
    BY <1>2 DEF OpenStream
  <2>2. opened + 1 \in 0..MaxStreams
    BY <1>1, <2>1
  <2>. QED BY <1>1, <2>1, <2>2
<1>3. ASSUME NEW d \in Devices, CloseStream(d)
      PROVE  opened' \in 0..MaxStreams /\ ring' \in [Devices -> 0..MaxStreams]
  <2>1. opened' = opened /\ ring' = [ring EXCEPT ![d] = 0]
    BY <1>3 DEF CloseStream
  <2>. QED BY <1>1, <2>1
<1>4. ASSUME NEW d \in Devices, Worker(d) \/ Reloaded(d) \/ StallEnd(d)
      PROVE  UNCHANGED airplay
  BY <1>4 DEF Worker, SkipStale, StartAlone, EnterFollowing, EnterOwner, ScheduleJoin, StartFails, Install,
              OwnerPlaying, CheckOwner, Promote, NothingToPromote, RedispatchPromoted, DropEnded, EndFollowing,
              LeaveFollowers, HandOver, EndPlaying, Reloaded, StallEnd
<1>5. ASSUME NEW t \in Tasks, Reconcile(t)
      PROVE  UNCHANGED airplay
  BY <1>5 DEF Reconcile, Wake, Plan, Send, Answer, AnswerError, Refuse, Move, MoveFails, Finish
<1>6. ASSUME NEW k, CastLost(k) \/ TakeLost(k)
      PROVE  UNCHANGED airplay
  BY <1>6 DEF CastLost, TakeLost
<1>7. CASE EndLost \/ UNCHANGED vars
  BY <1>1, <1>7 DEF EndLost, vars, airplay
<1>. QED BY <1>1, <1>2, <1>3, <1>4, <1>5, <1>6, <1>7 DEF Next, airplay

\* A stream's event reaches a queue.
LEMMA RedispatchedIs ==
  ASSUME TypeOK, NEW d \in Devices, NEW first
  PROVE  /\ Redispatched(d, first) \in Seq(Events)
         /\ ToSet(Redispatched(d, first)) = ToSet(inbox[d]) \cup {Started(slot[d].ring)}
<1>1. inbox[d] \in Seq(Events) /\ Started(slot[d].ring) \in Events
  BY FieldsTyped, ValuesTyped
<1>. DEFINE e == Started(slot[d].ring)
<1>2. PICK p \in Seq(Events) : p = <<e>> /\ ToSet(p) = {e}
  <2>1. <<e>> \in Seq(Events) /\ DOMAIN <<e>> = {1} /\ <<e>>[1] = e
    BY <1>1
  <2>2. ToSet(<<e>>) = {e}
    BY <2>1 DEF ToSet
  <2>. QED BY <2>1, <2>2
<1>3. p \o inbox[d] \in Seq(Events) /\ ToSet(p \o inbox[d]) = {e} \cup ToSet(inbox[d])
  <2>1. PICK q \in Seq(Events) : q = inbox[d]
    BY <1>1
  <2>2. p \o q \in Seq(Events) /\ ToSet(p \o q) = ToSet(p) \cup ToSet(q)
    BY ONLY ConcatIs, p \in Seq(Events), q \in Seq(Events)
  <2>. QED BY <1>2, <2>1, <2>2
<1>4. Append(inbox[d], e) \in Seq(Events) /\ ToSet(Append(inbox[d], e)) = ToSet(inbox[d]) \cup {e}
  BY <1>1, AppendIs
<1>. QED BY <1>2, <1>3, <1>4 DEF Redispatched

LEMMA InboxKept == TypeInv /\ [Next]_vars => inbox' \in [Devices -> Seq(Events)]
<1>. SUFFICES ASSUME TypeInv, [Next]_vars
              PROVE  inbox' \in [Devices -> Seq(Events)]
  OBVIOUS
<1>1. TypeOK /\ inbox \in [Devices -> Seq(Events)]
  BY DEF TypeInv, TypeOK
<1>2. ASSUME NEW d \in Devices, NEW q \in Seq(Events), inbox' = [inbox EXCEPT ![d] = q]
      PROVE  inbox' \in [Devices -> Seq(Events)]
  BY <1>1, <1>2
<1>3. ASSUME NEW d \in Devices, OpenStream(d) \/ CloseStream(d)
      PROVE  inbox' \in [Devices -> Seq(Events)]
  <2>1. PICK e \in {Started(opened + 1), Ended} : inbox' = [inbox EXCEPT ![d] = Append(inbox[d], e)]
    BY <1>3 DEF OpenStream, CloseStream
  <2>2. OpenStream(d) => opened + 1 \in 0..MaxStreams
    BY <1>1, BoundsAssumption DEF OpenStream, BoundsAssumption, TypeOK
  <2>3. CASE OpenStream(d)
    <3>1. e \in Events
      BY <2>2, <2>3, ValuesTyped
    <3>. QED BY <1>2, <2>1, <3>1, FieldsTyped, AppendIs, <1>1
  <2>4. CASE CloseStream(d)
    <3>1. inbox' = [inbox EXCEPT ![d] = Append(inbox[d], Ended)]
      BY <2>4 DEF CloseStream
    <3>. QED BY <1>2, <3>1, FieldsTyped, ValuesTyped, AppendIs, <1>1
  <2>. QED BY <1>3, <2>3, <2>4
<1>4. ASSUME NEW d \in Devices,
             \/ SkipStale(d) \/ StartAlone(d) \/ EnterFollowing(d) \/ EnterOwner(d) \/ DropEnded(d)
             \/ EndFollowing(d) \/ HandOver(d) \/ EndPlaying(d)
      PROVE  inbox' \in [Devices -> Seq(Events)]
  <2>1. inbox[d] # <<>> /\ inbox' = [inbox EXCEPT ![d] = Tail(inbox[d])]
    BY <1>4 DEF SkipStale, StartAlone, EnterFollowing, EnterOwner, DropEnded, EndFollowing, HandOver, EndPlaying, Takes
  <2>2. Tail(inbox[d]) \in Seq(Events)
    BY <1>1, <2>1, FieldsTyped
  <2>. QED BY <1>2, <2>1, <2>2
<1>5. ASSUME NEW d \in Devices, RedispatchPromoted(d)
      PROVE  inbox' \in [Devices -> Seq(Events)]
  <2>1. CASE UNCHANGED inbox
    BY <1>1, <2>1
  <2>2. CASE ~UNCHANGED inbox
    <3>. DEFINE p == worker[d].who
    <3>1. PICK first \in BOOLEAN : inbox' = [inbox EXCEPT ![p] = Redispatched(p, first)]
      BY <1>5, <2>2 DEF RedispatchPromoted
    <3>2. CASE p \in Devices
      BY <1>1, <1>2, <3>1, <3>2, RedispatchedIs
    <3>3. CASE p \notin Devices
      BY <1>1, <3>1, <3>3
    <3>. QED BY <3>2, <3>3
  <2>. QED BY <2>1, <2>2
<1>6. ASSUME NEW t \in Tasks, Refuse(t)
      PROVE  inbox' \in [Devices -> Seq(Events)]
  <2>1. PICK first \in BOOLEAN : inbox' = [d \in Devices |->
           IF d \in task[t].failed /\ slot[d].st = "Following" THEN Redispatched(d, first) ELSE inbox[d]]
    BY <1>6 DEF Refuse
  <2>2. \A d \in Devices : Redispatched(d, first) \in Seq(Events) /\ inbox[d] \in Seq(Events)
    BY <1>1, RedispatchedIs
  <2>. QED BY <2>1, <2>2
<1>7. ASSUME NEW d \in Devices,
             \/ ScheduleJoin(d) \/ StartFails(d) \/ Install(d) \/ OwnerPlaying(d) \/ CheckOwner(d) \/ Promote(d)
             \/ NothingToPromote(d) \/ LeaveFollowers(d) \/ Reloaded(d) \/ StallEnd(d)
      PROVE  UNCHANGED inbox
  BY <1>7 DEF ScheduleJoin, StartFails, Install, OwnerPlaying, CheckOwner, Promote, NothingToPromote,
              LeaveFollowers, Reloaded, StallEnd
<1>8. ASSUME NEW t \in Tasks,
             \/ Wake(t) \/ Plan(t) \/ Send(t) \/ Answer(t) \/ AnswerError(t) \/ Move(t) \/ MoveFails(t) \/ Finish(t)
      PROVE  UNCHANGED inbox
  BY <1>8 DEF Wake, Plan, Send, Answer, AnswerError, Move, MoveFails, Finish
<1>9. ASSUME NEW k, CastLost(k) \/ TakeLost(k)
      PROVE  UNCHANGED inbox
  BY <1>9 DEF CastLost, TakeLost
<1>10. CASE EndLost \/ UNCHANGED vars
  BY <1>1, <1>10 DEF EndLost, vars
<1>. QED BY <1>1, <1>3, <1>4, <1>5, <1>6, <1>7, <1>8, <1>9, <1>10 DEF Next, Worker, Reconcile

LEMMA SlotKept == TypeInv /\ [Next]_vars => slot' \in [Devices -> Slots]
<1>. SUFFICES ASSUME TypeInv, [Next]_vars
              PROVE  slot' \in [Devices -> Slots]
  OBVIOUS
<1>1. TypeOK /\ slot \in [Devices -> Slots]
  BY DEF TypeInv, TypeOK
<1>2. ASSUME NEW d, NEW x \in Slots, slot' = [slot EXCEPT ![d] = x]
      PROVE  slot' \in [Devices -> Slots]
  BY <1>1, <1>2
<1>3. ASSUME NEW d \in Devices, StartAlone(d) \/ EnterOwner(d) \/ EnterFollowing(d)
      PROVE  slot' \in [Devices -> Slots]
  <2>1. slot' = [slot EXCEPT ![d] = Starting(ring[d])] \/ slot' = [slot EXCEPT ![d] = Following(ring[d])]
    BY <1>3 DEF StartAlone, EnterOwner, EnterFollowing, Accept
  <2>2. Starting(ring[d]) \in Slots /\ Following(ring[d]) \in Slots
    BY <1>1, FieldsTyped, ValuesTyped
  <2>. QED BY <1>2, <2>1, <2>2
<1>4. ASSUME NEW d \in Devices, StartFails(d) \/ EndFollowing(d) \/ EndPlaying(d)
      PROVE  slot' \in [Devices -> Slots]
  <2>1. slot' = [slot EXCEPT ![d] = Idle] \/ slot' = [slot EXCEPT ![d] = slot[d]]
    BY <1>4 DEF StartFails, EndFollowing, EndPlaying
  <2>. QED BY <1>1, <1>2, <2>1, FieldsTyped, ValuesTyped
<1>5. ASSUME NEW d \in Devices, Install(d)
      PROVE  slot' \in [Devices -> Slots]
  <2>1. \/ slot' = [slot EXCEPT ![d] = Playing(slot[d].ring, worker[d].session, worker[d].grouped)]
        \/ UNCHANGED slot
    BY <1>5 DEF Install
  <2>2. worker[d].session \in 0..MaxSessions /\ worker[d].grouped \in BOOLEAN /\ slot[d].ring \in 0..MaxStreams
    BY <1>1, FieldsTyped DEF Workers
  <2>3. Playing(slot[d].ring, worker[d].session, worker[d].grouped) \in Slots
    BY <2>2, ValuesTyped
  <2>. QED BY <1>1, <1>2, <2>1, <2>3
<1>6. ASSUME NEW d \in Devices, HandOver(d)
      PROVE  slot' \in [Devices -> Slots]
  <2>1. PICK f \in Devices :
          slot' = [slot EXCEPT ![d] = Idle, ![f] = Playing(slot[f].ring, slot[d].session, TRUE)]
    BY <1>6 DEF HandOver, Survivors
  <2>2. Playing(slot[f].ring, slot[d].session, TRUE) \in Slots
    BY <1>1, FieldsTyped, ValuesTyped
  <2>. QED BY <1>1, <2>1, <2>2, ValuesTyped
<1>7. EndGroupSlots \in [Devices -> Slots]
  BY <1>1, FieldsTyped, ValuesTyped DEF EndGroupSlots
<1>8. ASSUME NEW d \in Devices, StallEnd(d)
      PROVE  slot' \in [Devices -> Slots]
  <2>1. slot' = [EndGroupSlots EXCEPT ![d] = Idle] \/ slot' = [slot EXCEPT ![d] = Idle]
    BY <1>8 DEF StallEnd
  <2>. QED BY <1>1, <1>7, <2>1, ValuesTyped
<1>9. ASSUME NEW k, TakeLost(k)
      PROVE  slot' \in [Devices -> Slots]
  <2>1. UNCHANGED slot \/ \E d : slot' = [slot EXCEPT ![d] = Idle]
    BY <1>9 DEF TakeLost
  <2>. QED BY <1>1, <1>2, <2>1, ValuesTyped
<1>10. CASE EndLost
  BY <1>1, <1>7, <1>10 DEF EndLost, members
<1>11. ASSUME NEW d \in Devices,
              \/ SkipStale(d) \/ ScheduleJoin(d) \/ OwnerPlaying(d) \/ CheckOwner(d) \/ Promote(d)
              \/ NothingToPromote(d) \/ RedispatchPromoted(d) \/ DropEnded(d) \/ LeaveFollowers(d) \/ Reloaded(d)
              \/ OpenStream(d) \/ CloseStream(d)
       PROVE  UNCHANGED slot
  BY <1>11 DEF SkipStale, ScheduleJoin, OwnerPlaying, CheckOwner, Promote, NothingToPromote, OpenStream, CloseStream,
       RedispatchPromoted, DropEnded, LeaveFollowers, Reloaded, members
<1>12. ASSUME NEW t \in Tasks, Reconcile(t)
       PROVE  UNCHANGED slot
  BY <1>12 DEF Reconcile, Wake, Plan, Send, Answer, AnswerError, Refuse, Move, MoveFails, Finish, members
<1>13. ASSUME NEW k, CastLost(k)
       PROVE  UNCHANGED slot
  BY <1>13 DEF CastLost, members
<1>14. CASE UNCHANGED vars
  BY <1>1, <1>14 DEF vars, members
<1>. QED BY <1>1, <1>3, <1>4, <1>5, <1>6, <1>8, <1>9, <1>10, <1>11, <1>12, <1>13, <1>14 DEF Next, Worker

LEMMA WorkerKept == TypeInv /\ [Next]_vars => worker' \in [Devices -> Workers]
<1>. SUFFICES ASSUME TypeInv, [Next]_vars
              PROVE  worker' \in [Devices -> Workers]
  OBVIOUS
<1>1. TypeOK /\ worker \in [Devices -> Workers] /\ begun \in 0..MaxSessions /\ group \in Records
  BY DEF TypeInv, TypeOK
<1>2. ASSUME NEW d \in Devices, NEW w \in Workers, WorkerTo(d, w)
      PROVE  worker' \in [Devices -> Workers]
  BY <1>1, <1>2 DEF WorkerTo
<1>3. ASSUME NEW d \in Devices, StartAlone(d) \/ EnterOwner(d)
      PROVE  worker' \in [Devices -> Workers]
  <2>1. PICK g \in BOOLEAN : WorkerTo(d, [At("start") EXCEPT !.session = begun + 1, !.grouped = g])
    BY <1>3 DEF StartAlone, EnterOwner, Accept
  <2>2. begun < MaxSessions
    BY <1>3 DEF StartAlone, EnterOwner, Accept
  <2>3. begun + 1 \in 0..MaxSessions
    BY <1>1, <2>2, BoundsAssumption DEF BoundsAssumption
  <2>4. [At("start") EXCEPT !.session = begun + 1, !.grouped = g] \in Workers
    BY <2>3, ValuesTyped DEF Workers
  <2>. QED BY <1>2, <2>1, <2>4
<1>4. ASSUME NEW d \in Devices,
             SkipStale(d) \/ EnterFollowing(d) \/ ScheduleJoin(d) \/ StartFails(d) \/ Install(d)
             \/ OwnerPlaying(d) \/ EndFollowing(d) \/ EndPlaying(d) \/ CheckOwner(d)
             \/ NothingToPromote(d) \/ RedispatchPromoted(d)
      PROVE  worker' \in [Devices -> Workers]
  <2>1. WorkerTo(d, Resting) \/ \E pc \in {"playing", "joined", "check", "left", "promote"} : WorkerTo(d, At(pc))
    BY <1>4 DEF SkipStale, EnterFollowing, ScheduleJoin, StartFails, Install, OwnerPlaying, EndFollowing, EndPlaying,
                CheckOwner, AfterCheck, NothingToPromote, RedispatchPromoted, Done
  <2>. QED BY <1>2, <2>1, ValuesTyped
<1>5. ASSUME NEW d \in Devices, Promote(d)
      PROVE  worker' \in [Devices -> Workers]
  <2>1. group.followers # <<>> /\ group.followers \in Seq(Devices)
        /\ WorkerTo(d, [worker[d] EXCEPT !.pc = "redispatch", !.who = Head(group.followers)])
    BY <1>1, <1>5 DEF Promote, Records
  <2>2. Head(group.followers) \in Devices
    BY <2>1
  <2>3. [worker[d] EXCEPT !.pc = "redispatch", !.who = Head(group.followers)] \in Workers
    BY <1>1, <2>2 DEF Workers
  <2>. QED BY <1>2, <2>1, <2>3
<1>6. ASSUME NEW d \in Devices, LeaveFollowers(d)
      PROVE  worker' \in [Devices -> Workers]
  <2>1. [At("promote") EXCEPT !.then = TRUE] \in Workers
    BY ValuesTyped DEF Workers
  <2>. QED BY <1>2, <1>6, <2>1 DEF LeaveFollowers
<1>7. ASSUME NEW d \in Devices, DropEnded(d) \/ HandOver(d) \/ Reloaded(d) \/ StallEnd(d) \/ CloseStream(d) \/ OpenStream(d)
      PROVE  UNCHANGED worker
  BY <1>7 DEF DropEnded, HandOver, Reloaded, StallEnd, CloseStream, OpenStream
<1>8. ASSUME NEW t \in Tasks, Reconcile(t)
      PROVE  UNCHANGED worker
  BY <1>8 DEF Reconcile, Wake, Plan, Send, Answer, AnswerError, Refuse, Move, MoveFails, Finish
<1>9. ASSUME NEW k, CastLost(k) \/ TakeLost(k)
      PROVE  UNCHANGED worker
  BY <1>9 DEF CastLost, TakeLost
<1>10. CASE EndLost \/ UNCHANGED vars
  BY <1>1, <1>10 DEF EndLost, vars
<1>. QED BY <1>1, <1>3, <1>4, <1>5, <1>6, <1>7, <1>8, <1>9, <1>10 DEF Next, Worker

\* A change of the record or of the tasks that schedules a reconcile, or none.
LEMMA ScheduleTyped ==
  ASSUME TypeOK, NEW g \in Records, Schedule(g) \/ (group' = g /\ UNCHANGED task)
  PROVE  group' \in Records /\ task' \in [Tasks -> Passes]
         /\ \A t \in Tasks : task'[t] = task[t] \/ task'[t].pc = "sleep"
<1>. DEFINE x == [NoTask EXCEPT !.pc = "sleep"]
<1>1. x \in Passes /\ x.pc = "sleep"
  BY ValuesTyped DEF Passes
<1>2. group' \in Records
  <2>1. [g EXCEPT !.dirty = TRUE] \in Records /\ [g EXCEPT !.running = TRUE, !.dirty = FALSE] \in Records
    BY DEF Records
  <2>2. group' \in {g, [g EXCEPT !.dirty = TRUE], [g EXCEPT !.running = TRUE, !.dirty = FALSE]}
    BY DEF Schedule
  <2>. QED BY <2>1, <2>2
<1>3. UNCHANGED task \/ \E t \in Tasks : task' = [task EXCEPT ![t] = x]
  BY DEF Schedule
<1>. HIDE DEF x
<1>. QED BY <1>1, <1>2, <1>3 DEF TypeOK

LEMMA HostlessTyped ==
  ASSUME NEW g \in Records
  PROVE  [g EXCEPT !.host = Nobody] \in Records
BY DEF Records

LEMMA ConfirmedTyped ==
  ASSUME NEW g \in Records, NEW d \in Devices
  PROVE  Confirmed(g, d) \in Records
<1>1. <<d>> \in Seq(Devices)
  OBVIOUS
<1>. QED BY <1>1 DEF Confirmed, Records

LEMMA GroupKept == TypeInv /\ [Next]_vars => group' \in Records
<1>. SUFFICES ASSUME TypeInv, [Next]_vars
              PROVE  group' \in Records
  OBVIOUS
<1>1. TypeOK /\ group \in Records /\ group.followers \in Seq(Devices) /\ task \in [Tasks -> Passes]
  BY DEF TypeInv, TypeOK, Records
<1>2. \A S : Without(group.followers, S) \in Seq(Devices)
  BY <1>1, WithoutIs
<1>3. ASSUME NEW g \in Records, Schedule(g) \/ (group' = g /\ UNCHANGED task)
      PROVE  group' \in Records
  BY <1>1, <1>3, ScheduleTyped
<1>4. ASSUME NEW d \in Devices, EnterFollowing(d)
      PROVE  group' \in Records
  <2>1. group' = [group EXCEPT !.followers = IF InFollowers(d) THEN @ ELSE Append(@, d)]
    BY <1>4 DEF EnterFollowing
  <2>2. Append(group.followers, d) \in Seq(Devices)
    BY <1>1
  <2>. QED BY <1>1, <2>1, <2>2 DEF Records
<1>5. ASSUME NEW d \in Devices, EnterOwner(d)
      PROVE  group' \in Records
  <2>. DEFINE g == IF group.here THEN group ELSE NewGroup
  <2>1. group' = [g EXCEPT !.owner = d, !.followers = Without(@, {d}),
                              !.promoting = IF @ = d THEN Nobody ELSE @,
                              !.cast = IF group.owner = d THEN @ ELSE <<>>,
                              !.host = IF group.owner = d THEN @ ELSE Nobody]
    BY <1>5 DEF EnterOwner
  <2>2. g \in Records
    BY <1>1, ValuesTyped
  <2>. HIDE DEF g
  <2>3. Without(g.followers, {d}) \in Seq(Devices)
    BY <2>2, WithoutIs DEF Records
  <2>4. <<>> \in Seq(Devices)
    OBVIOUS
  <2>. QED BY <2>1, <2>2, <2>3, <2>4 DEF Records
<1>6. ASSUME NEW d \in Devices, ScheduleJoin(d) \/ RedispatchPromoted(d)
      PROVE  group' \in Records
  BY <1>1, <1>3, <1>6 DEF ScheduleJoin, RedispatchPromoted, Done
<1>7. ASSUME NEW d \in Devices, OwnerPlaying(d) \/ Reloaded(d)
      PROVE  group' \in Records
  <2>1. Confirmed(group, d) \in Records
    BY <1>1, ConfirmedTyped
  <2>. QED BY <1>1, <1>3, <1>7, <2>1 DEF OwnerPlaying, Reloaded
<1>8. ASSUME NEW d \in Devices, CheckOwner(d)
      PROVE  group' \in Records
  <2>. DEFINE g == [group EXCEPT !.excluded = @ \ {d},
                                 !.owner = IF group.owner = d THEN Nobody ELSE @,
                                 !.cast = IF group.owner = d THEN <<>> ELSE @,
                                 !.host = IF group.owner = d THEN Nobody ELSE @]
  <2>1. group' \in {group, NoGroup, g}
    BY <1>8 DEF CheckOwner
  <2>2. <<>> \in Seq(Devices)
    OBVIOUS
  <2>3. g \in Records
    BY <1>1, <2>2 DEF Records
  <2>. QED BY <1>1, <2>1, <2>3, ValuesTyped
<1>9. ASSUME NEW d \in Devices, Promote(d)
      PROVE  group' \in Records
  <2>1. group.followers # <<>> /\ group' = [group EXCEPT !.promoting = Head(group.followers)]
    BY <1>9 DEF Promote
  <2>2. Head(group.followers) \in Devices
    BY <1>1, <2>1
  <2>. QED BY <1>1, <2>1, <2>2 DEF Records
<1>10. ASSUME NEW d \in Devices, NothingToPromote(d)
       PROVE  group' \in Records
  <2>1. PICK g \in {group, NoGroup, [group EXCEPT !.host = Nobody]} : Done(d, g)
    BY <1>10 DEF NothingToPromote
  <2>2. group \in Records /\ [group EXCEPT !.host = Nobody] \in Records /\ NoGroup \in Records
    BY <1>1, HostlessTyped, ValuesTyped
  <2>3. g \in Records
    BY <2>1, <2>2
  <2>. QED BY <1>3, <2>1, <2>3 DEF Done
<1>11. ASSUME NEW d \in Devices, LeaveFollowers(d)
       PROVE  group' \in Records
  <2>1. group' = [group EXCEPT !.followers = Without(@, {d})]
    BY <1>11 DEF LeaveFollowers
  <2>. QED BY <1>1, <1>2, <2>1 DEF Records
<1>12. ASSUME NEW d \in Devices, HandOver(d)
       PROVE  group' \in Records
  <2>1. PICK f \in Devices : Schedule([group EXCEPT !.owner = f, !.followers = Without(@, {f})])
    BY <1>12 DEF HandOver, Survivors
  <2>2. [group EXCEPT !.owner = f, !.followers = Without(@, {f})] \in Records
    BY <1>1, <1>2 DEF Records
  <2>. QED BY <1>3, <2>1, <2>2
<1>13. ASSUME NEW d \in Devices, StallEnd(d)
       PROVE  group' \in Records
  BY <1>1, <1>13, ValuesTyped DEF StallEnd
<1>14. ASSUME NEW t \in Tasks, Wake(t) \/ Finish(t)
       PROVE  group' \in Records
  <2>1. group' \in {group, [group EXCEPT !.dirty = FALSE], [group EXCEPT !.running = FALSE]}
    BY <1>14 DEF Wake, Finish
  <2>. QED BY <1>1, <2>1 DEF Records
<1>15. ASSUME NEW t \in Tasks, Answer(t)
       PROVE  group' \in Records
  <2>1. task[t].desired \in Seq(Devices) /\ task[t].added \subseteq Devices
    BY <1>1 DEF Passes
  <2>2. PICK failed \in SUBSET task[t].added :
          group' = IF group.here
                     THEN [group EXCEPT !.cast = Confirms(t, failed), !.followers = Without(@, failed),
                                        !.excluded = @ \cup failed]
                     ELSE group
    BY <1>15 DEF Answer
  <2>3. Confirms(t, failed) \in Seq(Devices)
    BY <2>1, WithoutIs DEF Confirms
  <2>. QED BY <1>1, <1>2, <2>1, <2>2, <2>3 DEF Records
<1>16. ASSUME NEW t \in Tasks, AnswerError(t)
       PROVE  group' \in Records
  <2>1. task[t].added \subseteq Devices
    BY <1>1 DEF Passes
  <2>2. group' = IF group.here
                   THEN [group EXCEPT !.followers = Without(@, task[t].added), !.excluded = @ \cup task[t].added]
                   ELSE group
    BY <1>16 DEF AnswerError
  <2>. QED BY <1>1, <1>2, <2>1, <2>2 DEF Records
<1>17. ASSUME NEW t \in Tasks, Move(t) \/ MoveFails(t)
       PROVE  group' \in Records
  <2>1. Move(t) => task[t].moved \in Hosts
    BY DEF Move, TypeInv, AskInv
  <2>2. <<>> \in Seq(Devices)
    OBVIOUS
  <2>3. \/ group' = group
        \/ Move(t) /\ group' = [group EXCEPT !.host = task[t].moved]
        \/ group' = [group EXCEPT !.cast = <<>>, !.host = Nobody]
    BY <1>17 DEF Move, MoveFails
  <2>. QED BY <1>1, <2>1, <2>2, <2>3 DEF Records
<1>18. CASE EndLost
  BY <1>1, <1>18, ValuesTyped DEF EndLost, members
<1>19. ASSUME NEW d \in Devices,
              \/ SkipStale(d) \/ StartAlone(d) \/ StartFails(d) \/ Install(d) \/ DropEnded(d) \/ EndFollowing(d)
              \/ EndPlaying(d) \/ CloseStream(d) \/ OpenStream(d)
       PROVE  UNCHANGED group
  BY <1>19 DEF SkipStale, StartAlone, StartFails, Install, DropEnded, EndFollowing, EndPlaying,
               CloseStream, OpenStream, members
<1>20. ASSUME NEW t \in Tasks, Plan(t) \/ Send(t) \/ Refuse(t)
       PROVE  UNCHANGED group
  BY <1>20 DEF Plan, Send, Refuse, members
<1>21. ASSUME NEW k, CastLost(k) \/ TakeLost(k)
       PROVE  UNCHANGED group
  BY <1>21 DEF CastLost, TakeLost, members
<1>22. CASE UNCHANGED vars
  BY <1>1, <1>22 DEF vars, members
<1>. QED BY <1>1, <1>4, <1>5, <1>6, <1>7, <1>8, <1>9, <1>10, <1>11, <1>12, <1>13, <1>14, <1>15, <1>16, <1>17,
            <1>18, <1>19, <1>20, <1>21, <1>22 DEF Next, Worker, Reconcile

\* The members a plan asks for: the owner and those that follow.
LEMMA DesiredIs ==
  ASSUME TypeOK, group.owner \in Devices
  PROVE  /\ Desired \in Seq(Devices)
         /\ ToSet(Desired) = {group.owner} \cup {f \in ToSet(group.followers) : slot[f].st = "Following"}
<1>. DEFINE wanted == {group.owner} \cup {f \in ToSet(group.followers) : slot[f].st = "Following"}
            kept   == Keeping(group.cast, wanted)
            fresh  == Keeping(<<group.owner>> \o group.followers, wanted \ ToSet(kept))
<1>1. Desired = kept \o fresh
  BY DEF Desired
<1>2. group.cast \in Seq(Devices) /\ group.followers \in Seq(Devices)
  BY DEF TypeOK, Records
<1>3. PICK p \in Seq(Devices) : p = <<group.owner>> /\ ToSet(p) = {group.owner}
  <2>1. <<group.owner>> \in Seq(Devices) /\ DOMAIN <<group.owner>> = {1} /\ <<group.owner>>[1] = group.owner
    OBVIOUS
  <2>2. ToSet(<<group.owner>>) = {group.owner}
    BY <2>1 DEF ToSet
  <2>. QED BY <2>1, <2>2
<1>4. /\ p \o group.followers \in Seq(Devices)
      /\ ToSet(p \o group.followers) = {group.owner} \cup ToSet(group.followers)
  <2>1. ToSet(p \o group.followers) = ToSet(p) \cup ToSet(group.followers)
    BY <1>2, <1>3, ConcatIs
  <2>. QED BY <1>2, <1>3, <2>1
<1>5. wanted \subseteq {group.owner} \cup ToSet(group.followers)
  OBVIOUS
<1>. HIDE DEF wanted
<1>6. kept \in Seq(Devices) /\ ToSet(kept) = ToSet(group.cast) \cap wanted
  BY <1>2, KeepingIs
<1>7. /\ Keeping(p \o group.followers, wanted \ ToSet(kept)) \in Seq(Devices)
      /\ ToSet(Keeping(p \o group.followers, wanted \ ToSet(kept)))
         = ToSet(p \o group.followers) \cap (wanted \ ToSet(kept))
  <2>. HIDE DEF kept
  <2>. QED BY <1>4, KeepingIs
<1>8. fresh \in Seq(Devices) /\ ToSet(fresh) = wanted \ ToSet(kept)
  BY <1>3, <1>4, <1>5, <1>7
<1>. HIDE DEF kept, fresh
<1>9. Desired \in Seq(Devices) /\ ToSet(Desired) = ToSet(kept) \cup ToSet(fresh)
  BY <1>1, <1>6, <1>8, ConcatIs
<1>10. ToSet(Desired) = wanted
  BY <1>6, <1>8, <1>9
<1>. QED BY <1>9, <1>10 DEF wanted

Asking(x) == x.pc \in {"flight", "sent", "refused", "move"}

\* One pass may take the place of another: it asks about a member, and moves to a host.
LEMMA PassTyped ==
  ASSUME TypeInv, NEW t, NEW x \in Passes, task' = [task EXCEPT ![t] = x],
         Asking(x) => x.owner \in Devices, x.pc = "move" => x.moved \in Hosts
  PROVE  task' \in [Tasks -> Passes] /\ AskInv'
<1>1. task \in [Tasks -> Passes]
  BY DEF TypeInv, TypeOK
<1>2. \A u \in Tasks : task'[u] = task[u] \/ task'[u] = x
  BY <1>1
<1>. QED BY <1>1, <1>2 DEF TypeInv, AskInv, Asking

LEMMA TaskKept == TypeInv /\ [Next]_vars => task' \in [Tasks -> Passes] /\ AskInv'
<1>. DEFINE Goal == task' \in [Tasks -> Passes] /\ AskInv'
<1>. SUFFICES ASSUME TypeInv, [Next]_vars
              PROVE  Goal
  OBVIOUS
<1>1. TypeOK /\ group \in Records /\ task \in [Tasks -> Passes] /\ AskInv
  BY DEF TypeInv, TypeOK
<1>2. ASSUME NEW g \in Records, Schedule(g) \/ (group' = g /\ UNCHANGED task)
      PROVE  Goal
  <2>1. /\ task' \in [Tasks -> Passes]
        /\ \A t \in Tasks : task'[t] = task[t] \/ task'[t].pc = "sleep"
    BY <1>1, <1>2, ScheduleTyped
  <2>. QED BY <1>1, <2>1 DEF AskInv
<1>3. ASSUME UNCHANGED task
      PROVE  Goal
  BY <1>1, <1>3 DEF AskInv
<1>4. ASSUME NEW d \in Devices, ScheduleJoin(d) \/ RedispatchPromoted(d)
      PROVE  Goal
  BY <1>1, <1>2, <1>4 DEF ScheduleJoin, RedispatchPromoted, Done
<1>5. ASSUME NEW d \in Devices, OwnerPlaying(d) \/ Reloaded(d)
      PROVE  Goal
  <2>1. Confirmed(group, d) \in Records
    BY <1>1, ConfirmedTyped
  <2>. QED BY <1>2, <1>3, <1>5, <2>1 DEF OwnerPlaying, Reloaded
<1>6. ASSUME NEW d \in Devices, NothingToPromote(d)
      PROVE  Goal
  <2>1. PICK g \in {group, NoGroup, [group EXCEPT !.host = Nobody]} : Done(d, g)
    BY <1>6 DEF NothingToPromote
  <2>2. group \in Records /\ [group EXCEPT !.host = Nobody] \in Records /\ NoGroup \in Records
    BY <1>1, HostlessTyped, ValuesTyped
  <2>3. g \in Records
    BY <2>1, <2>2
  <2>. QED BY <1>2, <2>1, <2>3 DEF Done
<1>7. ASSUME NEW d \in Devices, HandOver(d)
      PROVE  Goal
  <2>1. PICK f \in Devices : Schedule([group EXCEPT !.owner = f, !.followers = Without(@, {f})])
    BY <1>7 DEF HandOver, Survivors
  <2>2. [group EXCEPT !.owner = f, !.followers = Without(@, {f})] \in Records
    <3>1. group.followers \in Seq(Devices)
      BY <1>1 DEF Records
    <3>2. Without(group.followers, {f}) \in Seq(Devices)
      BY <3>1, WithoutIs
    <3>. QED BY <1>1, <3>2 DEF Records
  <2>. QED BY <1>2, <2>1, <2>2
<1>8. ASSUME NEW d \in Devices,
             \/ SkipStale(d) \/ StartAlone(d) \/ EnterFollowing(d) \/ EnterOwner(d) \/ StartFails(d) \/ Install(d)
             \/ CheckOwner(d) \/ Promote(d) \/ DropEnded(d) \/ EndFollowing(d) \/ LeaveFollowers(d) \/ EndPlaying(d)
             \/ StallEnd(d) \/ CloseStream(d) \/ OpenStream(d)
      PROVE  UNCHANGED task
  BY <1>8 DEF SkipStale, StartAlone, EnterFollowing, EnterOwner, StartFails, Install, CheckOwner, Promote, DropEnded,
       EndFollowing, LeaveFollowers, EndPlaying, StallEnd, CloseStream, OpenStream
<1>9. ASSUME NEW t \in Tasks, NEW x \in Passes, task' = [task EXCEPT ![t] = x],
             Asking(x) => x.owner \in Devices, x.pc = "move" => x.moved \in Hosts
      PROVE  Goal
  BY <1>9, PassTyped
<1>10. \A t \in Tasks : task[t] \in Passes
  BY <1>1
<1>11. ASSUME NEW t \in Tasks, Wake(t)
       PROVE  Goal
  <2>1. task' = [task EXCEPT ![t] = [task[t] EXCEPT !.pc = "plan"]] \/ task' = [task EXCEPT ![t] = NoTask]
    BY <1>11 DEF Wake, TaskTo
  <2>2. /\ [task[t] EXCEPT !.pc = "plan"] \in Passes /\ [task[t] EXCEPT !.pc = "plan"].pc = "plan"
        /\ NoTask \in Passes /\ NoTask.pc = "off"
    BY <1>10, ValuesTyped DEF Passes, NoTask
  <2>. QED BY <1>9, <2>1, <2>2 DEF Asking
<1>12. ASSUME NEW t \in Tasks, Plan(t)
       PROVE  Goal
  <2>. DEFINE x == [NoTask EXCEPT !.pc = "flight", !.session = slot[group.owner].session,
                                  !.owner = group.owner, !.desired = Desired,
                                  !.added = ToSet(Desired) \ (ToSet(group.cast) \cup {group.owner})]
              y == [NoTask EXCEPT !.pc = "finish"]
  <2>1. task' = [task EXCEPT ![t] = IF PlanDue THEN x ELSE y]
    BY <1>12 DEF Plan
  <2>2. y \in Passes /\ y.pc = "finish"
    BY ValuesTyped DEF Passes
  <2>3. CASE PlanDue
    <3>1. group.owner \in Devices
      BY <1>1, <2>3 DEF PlanDue, GroupPlays, Records
    <3>2. Desired \in Seq(Devices) /\ ToSet(Desired) \subseteq Devices
      <4>1. group.followers \in Seq(Devices)
        BY <1>1 DEF Records
      <4>2. ToSet(group.followers) \subseteq Devices
        BY <4>1 DEF ToSet
      <4>. QED BY <1>1, <3>1, <4>2, DesiredIs
    <3>3. slot[group.owner].session \in 0..MaxSessions
      BY <1>1, <3>1, FieldsTyped
    <3>4. x \in Passes /\ x.pc = "flight" /\ x.owner = group.owner
      BY <3>1, <3>2, <3>3, ValuesTyped DEF Passes
    <3>5. task' = [task EXCEPT ![t] = x]
      BY <2>1, <2>3
    <3>. HIDE DEF x
    <3>. QED BY <1>9, <3>1, <3>4, <3>5
  <2>4. CASE ~PlanDue
    <3>1. task' = [task EXCEPT ![t] = y]
      BY <2>1, <2>4
    <3>. HIDE DEF y
    <3>. QED BY <1>9, <2>2, <3>1 DEF Asking
  <2>. QED BY <2>3, <2>4
<1>13. ASSUME NEW t \in Tasks, Send(t)
       PROVE  Goal
  <2>1. task' = [task EXCEPT ![t] = [task[t] EXCEPT !.pc = "sent"]] /\ task[t].owner \in Devices
    BY <1>1, <1>13 DEF Send, TaskTo, AskInv
  <2>2. [task[t] EXCEPT !.pc = "sent"] \in Passes /\ [task[t] EXCEPT !.pc = "sent"].pc = "sent"
        /\ [task[t] EXCEPT !.pc = "sent"].owner = task[t].owner
    BY <1>10 DEF Passes
  <2>. QED BY <1>9, <2>1, <2>2
<1>14. ASSUME NEW t \in Tasks, Answer(t) \/ AnswerError(t)
       PROVE  Goal
  <2>1. task[t].owner \in Devices /\ task[t].added \subseteq Devices /\ task[t].moved \in Hosts \cup {Nobody}
    BY <1>1, <1>10, <1>14 DEF Answer, AnswerError, AskInv, Passes
  <2>2. PICK failed \in SUBSET task[t].added, moved \in Hosts \cup {Nobody} :
          task' = [task EXCEPT ![t] = [task[t] EXCEPT !.pc = "refused", !.failed = failed, !.moved = moved]]
    <3>1. CASE Answer(t)
      <4>1. PICK failed \in SUBSET task[t].added, moved \in Hosts \cup {Nobody} :
              task' = [task EXCEPT ![t].pc = "refused", ![t].failed = failed, ![t].moved = moved]
        BY <3>1 DEF Answer
      <4>. QED BY <1>1, <4>1
    <3>2. CASE AnswerError(t)
      <4>1. task' = [task EXCEPT ![t].pc = "refused", ![t].failed = task[t].added]
        BY <3>2 DEF AnswerError
      <4>2. [task[t] EXCEPT !.pc = "refused", !.failed = task[t].added]
            = [task[t] EXCEPT !.pc = "refused", !.failed = task[t].added, !.moved = task[t].moved]
        BY <1>10 DEF Passes
      <4>3. task' = [task EXCEPT ![t] = [task[t] EXCEPT !.pc = "refused", !.failed = task[t].added]]
        BY <1>1, <4>1
      <4>. QED BY <2>1, <4>2, <4>3
    <3>. QED BY <1>14, <3>1, <3>2
  <2>. DEFINE x == [task[t] EXCEPT !.pc = "refused", !.failed = failed, !.moved = moved]
  <2>3. x \in Passes /\ x.pc = "refused" /\ x.owner = task[t].owner
    BY <1>10, <2>1 DEF Passes
  <2>. HIDE DEF x
  <2>. QED BY <1>9, <2>1, <2>2, <2>3 DEF x
<1>15. ASSUME NEW t \in Tasks, Refuse(t)
       PROVE  Goal
  <2>1. task[t].owner \in Devices /\ task[t].moved \in Hosts \cup {Nobody}
    BY <1>1, <1>10, <1>15 DEF Refuse, AskInv, Passes
  <2>2. PICK pc \in {"move", "finish"} :
          task' = [task EXCEPT ![t] = [task[t] EXCEPT !.pc = pc]] /\ (pc = "move" => task[t].moved # Nobody)
    BY <1>15 DEF Refuse, TaskTo
  <2>. DEFINE x == [task[t] EXCEPT !.pc = pc]
  <2>3. x \in Passes /\ x.pc = pc /\ x.owner = task[t].owner /\ x.moved = task[t].moved
    BY <1>10 DEF Passes
  <2>. HIDE DEF x
  <2>. QED BY <1>9, <2>1, <2>2, <2>3 DEF x
<1>16. ASSUME NEW t \in Tasks, Move(t) \/ MoveFails(t) \/ Finish(t)
       PROVE  Goal
  <2>1. \/ \E pc \in {"finish", "sleep"} : task' = [task EXCEPT ![t] = [task[t] EXCEPT !.pc = pc]]
        \/ task' = [task EXCEPT ![t] = NoTask]
    BY <1>16 DEF Move, MoveFails, Finish, TaskTo
  <2>2. ASSUME NEW pc \in {"finish", "sleep"}, task' = [task EXCEPT ![t] = [task[t] EXCEPT !.pc = pc]]
        PROVE  Goal
    <3>. DEFINE x == [task[t] EXCEPT !.pc = pc]
    <3>1. x \in Passes /\ x.pc = pc
      BY <1>10 DEF Passes
    <3>. HIDE DEF x
    <3>. QED BY <1>9, <2>2, <3>1 DEF x, Asking
  <2>3. NoTask \in Passes /\ NoTask.pc = "off"
    BY ValuesTyped DEF NoTask
  <2>. QED BY <1>9, <2>1, <2>2, <2>3 DEF Asking
<1>17. ASSUME NEW k, CastLost(k) \/ TakeLost(k)
       PROVE  UNCHANGED task
  BY <1>17 DEF CastLost, TakeLost
<1>18. CASE EndLost \/ UNCHANGED vars
  BY <1>3, <1>18 DEF EndLost, vars
<1>. QED BY <1>3, <1>4, <1>5, <1>6, <1>7, <1>8, <1>11, <1>12, <1>13, <1>14, <1>15, <1>16, <1>17, <1>18
         DEF Next, Worker, Reconcile

RouteType == route \in [Sessions -> Keys \cup {Nobody}] /\ begun \in 0..MaxSessions /\ \A s \in 1..begun : route[s] \in Keys

LEMMA RouteKept == TypeInv /\ [Next]_vars => RouteType'
<1>. SUFFICES ASSUME TypeInv, [Next]_vars
              PROVE  RouteType'
  OBVIOUS
<1>1. TypeOK /\ RouteType /\ group.host \in Hosts \cup {Nobody} /\ task \in [Tasks -> Passes] /\ AskInv
  BY DEF TypeInv, TypeOK, RouteType, Records
<1>2. ASSUME UNCHANGED <<route, begun>>
      PROVE  RouteType'
  BY <1>1, <1>2 DEF RouteType
<1>3. ASSUME NEW d \in Devices, StartAlone(d) \/ EnterOwner(d)
      PROVE  RouteType'
  <2>1. PICK k \in {d, LoadKey(d)} :
          begun < MaxSessions /\ begun' = begun + 1 /\ route' = [route EXCEPT ![begun + 1] = k]
    BY <1>3 DEF StartAlone, EnterOwner, Accept
  <2>2. k \in Keys
    BY <1>1, <2>1 DEF LoadKey, Keys
  <2>3. PICK n \in Nat : n = begun /\ n < MaxSessions /\ n + 1 \in Sessions /\ n + 1 \in 0..MaxSessions
                         /\ 1..(n + 1) = (1..n) \cup {n + 1} /\ MaxSessions \in Nat
    BY <1>1, <2>1, BoundsAssumption DEF RouteType, Sessions, BoundsAssumption
  <2>4. \A s \in 1..n : s \in Sessions /\ s # n + 1
    BY <2>3 DEF Sessions
  <2>5. \A s \in 1..(n + 1) : route'[s] \in Keys
    BY <1>1, <2>1, <2>2, <2>3, <2>4 DEF RouteType
  <2>. QED BY <1>1, <2>1, <2>2, <2>3, <2>5 DEF RouteType
<1>4. ASSUME NEW t \in Tasks, Move(t) \/ MoveFails(t)
      PROVE  RouteType'
  <2>1. task[t].moved \in Keys \/ ~Move(t)
    BY <1>1, <1>4 DEF Move, AskInv, Keys
  <2>2. task[t].owner \in Keys
    BY <1>1, <1>4 DEF Move, MoveFails, AskInv, Keys
  <2>3. PICK k \in Keys : route' = [route EXCEPT ![task[t].session] = k]
    BY <1>4, <2>1, <2>2 DEF Move, MoveFails
  <2>4. begun' = begun
    BY <1>4 DEF Move, MoveFails
  <2>5. \A s \in 1..begun : s \in Sessions
    BY <1>1, BoundsAssumption DEF RouteType, Sessions, BoundsAssumption
  <2>6. route' \in [Sessions -> Keys \cup {Nobody}] /\ \A s \in Sessions : route'[s] \in {k, route[s]}
    BY <1>1, <2>3 DEF RouteType
  <2>. QED BY <1>1, <2>4, <2>5, <2>6 DEF RouteType
<1>5. ASSUME NEW d \in Devices,
             \/ SkipStale(d) \/ EnterFollowing(d) \/ ScheduleJoin(d) \/ StartFails(d) \/ Install(d)
             \/ OwnerPlaying(d) \/ CheckOwner(d) \/ Promote(d) \/ NothingToPromote(d) \/ RedispatchPromoted(d)
             \/ DropEnded(d) \/ EndFollowing(d) \/ LeaveFollowers(d) \/ HandOver(d) \/ EndPlaying(d)
             \/ Reloaded(d) \/ StallEnd(d) \/ CloseStream(d) \/ OpenStream(d)
      PROVE  UNCHANGED <<route, begun>>
  BY <1>5 DEF SkipStale, EnterFollowing, ScheduleJoin, StartFails, Install, OwnerPlaying, CheckOwner, Promote,
              NothingToPromote, RedispatchPromoted, DropEnded, EndFollowing, LeaveFollowers, HandOver, EndPlaying,
              Reloaded, StallEnd, CloseStream, OpenStream, cast
<1>6. ASSUME NEW t \in Tasks,
             Wake(t) \/ Plan(t) \/ Send(t) \/ Answer(t) \/ AnswerError(t) \/ Refuse(t) \/ Finish(t)
      PROVE  UNCHANGED <<route, begun>>
  BY <1>6 DEF Wake, Plan, Send, Answer, AnswerError, Refuse, Finish, cast
<1>7. ASSUME NEW k, CastLost(k) \/ TakeLost(k)
      PROVE  UNCHANGED <<route, begun>>
  BY <1>7 DEF CastLost, TakeLost, cast
<1>8. CASE EndLost \/ UNCHANGED vars
  BY <1>2, <1>8 DEF EndLost, vars, cast
<1>. QED BY <1>2, <1>3, <1>4, <1>5, <1>6, <1>7, <1>8 DEF Next, Worker, Reconcile

LEMMA HostsKept == TypeInv /\ [Next]_vars => open' \subseteq Hosts
<1>. SUFFICES ASSUME TypeInv, [Next]_vars
              PROVE  open' \subseteq Hosts
  OBVIOUS
<1>1. open \subseteq Hosts /\ AskInv
  BY DEF TypeInv, TypeOK
<1>2. ASSUME NEW d \in Devices, Worker(d) \/ Reloaded(d) \/ StallEnd(d) \/ CloseStream(d) \/ OpenStream(d)
      PROVE  UNCHANGED open \/ \E S : CloseHosts(S)
  BY <1>2 DEF Worker, SkipStale, StartAlone, EnterFollowing, EnterOwner, ScheduleJoin, StartFails, Install,
              OwnerPlaying, CheckOwner, Promote, NothingToPromote, RedispatchPromoted, DropEnded, EndFollowing,
              LeaveFollowers, HandOver, EndPlaying, Reloaded, StallEnd, CloseStream, OpenStream, cast
<1>3. ASSUME NEW t \in Tasks, Move(t) \/ MoveFails(t)
      PROVE  open' \subseteq Hosts
  BY <1>1, <1>3 DEF Move, MoveFails, AskInv
<1>4. ASSUME NEW t \in Tasks,
             Wake(t) \/ Plan(t) \/ Send(t) \/ Answer(t) \/ AnswerError(t) \/ Refuse(t) \/ Finish(t)
      PROVE  UNCHANGED open
  BY <1>4 DEF Wake, Plan, Send, Answer, AnswerError, Refuse, Finish, cast
<1>5. ASSUME NEW k, CastLost(k) \/ TakeLost(k)
      PROVE  UNCHANGED open
  BY <1>5 DEF CastLost, TakeLost, cast
<1>6. CASE EndLost
  BY <1>1, <1>6 DEF EndLost, CloseHosts
<1>7. CASE UNCHANGED vars
  BY <1>1, <1>7 DEF vars, cast
<1>. QED BY <1>1, <1>2, <1>3, <1>4, <1>5, <1>6, <1>7 DEF Next, Reconcile, CloseHosts

LossType == notices \subseteq Keys /\ ending \in [on : BOOLEAN, grouped : BOOLEAN] /\ faults \in [Kinds -> Nat]

LEMMA LossKept == TypeInv /\ [Next]_vars => LossType'
<1>. SUFFICES ASSUME TypeInv, [Next]_vars
              PROVE  LossType'
  OBVIOUS
<1>1. TypeOK /\ LossType
  BY DEF TypeInv, TypeOK, LossType
<1>2. ASSUME UNCHANGED losses, UNCHANGED faults \/ \E k : Fault(k)
      PROVE  LossType'
  <2>1. faults' \in [Kinds -> Nat]
    <3>1. faults \in [Kinds -> Nat]
      BY <1>1 DEF LossType
    <3>2. UNCHANGED faults \/ \E k : faults' = [faults EXCEPT ![k] = faults[k] + 1] /\ k \in Kinds
      BY <1>2, BoundsAssumption DEF Fault, BoundsAssumption, Kinds
    <3>. QED BY <3>1, <3>2
  <2>. QED BY <1>1, <1>2, <2>1 DEF LossType, losses
<1>3. ASSUME NEW k \in Keys, CastLost(k)
      PROVE  LossType'
  <2>1. Fault("steal") /\ notices' = notices \cup {k} /\ UNCHANGED ending
    BY <1>3 DEF CastLost
  <2>2. faults' \in [Kinds -> Nat]
    <3>1. faults \in [Kinds -> Nat] /\ "steal" \in Kinds
      BY <1>1 DEF LossType, Kinds
    <3>2. faults' = [faults EXCEPT !["steal"] = faults["steal"] + 1] /\ faults["steal"] + 1 \in Nat
      BY <2>1, <3>1 DEF Fault
    <3>. QED BY <3>1, <3>2
  <2>. QED BY <1>1, <2>1, <2>2 DEF LossType
<1>4. ASSUME NEW k \in Keys, TakeLost(k)
      PROVE  LossType'
  <2>1. notices' \subseteq Keys /\ UNCHANGED faults
    BY <1>1, <1>4 DEF TakeLost, LossType
  <2>2. \/ UNCHANGED ending
        \/ \E d : ending' = [on |-> TRUE, grouped |-> slot[d].st = "Playing" /\ slot[d].grouped]
    BY <1>4 DEF TakeLost
  <2>3. ASSUME NEW d \in Devices, ending' = [on |-> TRUE, grouped |-> slot[d].st = "Playing" /\ slot[d].grouped]
        PROVE  ending' \in [on : BOOLEAN, grouped : BOOLEAN]
    <3>1. slot[d].grouped \in BOOLEAN
      BY <1>1, FieldsTyped DEF Slots
    <3>2. (slot[d].st = "Playing" /\ slot[d].grouped) \in BOOLEAN
      BY <3>1
    <3>. QED BY <2>3, <3>2
  <2>4. PlayingOn(k) \subseteq Devices
    BY DEF PlayingOn
  <2>5. \/ UNCHANGED ending
        \/ \E d \in Devices : ending' = [on |-> TRUE, grouped |-> slot[d].st = "Playing" /\ slot[d].grouped]
    BY <1>4, <2>4 DEF TakeLost
  <2>. QED BY <1>1, <2>1, <2>3, <2>5 DEF LossType
<1>5. CASE EndLost
  BY <1>1, <1>5 DEF EndLost, LossType, NotEnding
<1>6. ASSUME NEW d \in Devices, Worker(d) \/ Reloaded(d) \/ StallEnd(d) \/ CloseStream(d) \/ OpenStream(d)
      PROVE  UNCHANGED losses /\ (UNCHANGED faults \/ \E k : Fault(k))
  BY <1>6 DEF Worker, SkipStale, StartAlone, EnterFollowing, EnterOwner, ScheduleJoin, StartFails, Install,
              OwnerPlaying, CheckOwner, Promote, NothingToPromote, RedispatchPromoted, DropEnded, EndFollowing,
              LeaveFollowers, HandOver, EndPlaying, Reloaded, StallEnd, CloseStream, OpenStream
<1>7. ASSUME NEW t \in Tasks, Reconcile(t)
      PROVE  UNCHANGED losses /\ (UNCHANGED faults \/ \E k : Fault(k))
  BY <1>7 DEF Reconcile, Wake, Plan, Send, Answer, AnswerError, Refuse, Move, MoveFails, Finish
<1>8. CASE UNCHANGED vars
  BY <1>1, <1>8 DEF vars, losses, LossType
<1>. QED BY <1>2, <1>3, <1>4, <1>5, <1>6, <1>7, <1>8 DEF Next

LEMMA TypesKept == TypeInv /\ [Next]_vars => TypeInv'
<1>. SUFFICES ASSUME TypeInv, [Next]_vars
              PROVE  TypeInv'
  OBVIOUS
<1>1. opened' \in 0..MaxStreams /\ ring' \in [Devices -> 0..MaxStreams] /\ inbox' \in [Devices -> Seq(Events)]
  BY OpenKept, InboxKept
<1>2. slot' \in [Devices -> Slots] /\ worker' \in [Devices -> Workers] /\ group' \in Records
  BY SlotKept, WorkerKept, GroupKept
<1>3. RouteType' /\ task' \in [Tasks -> Passes] /\ AskInv'
  BY RouteKept, TaskKept
<1>4. open' \subseteq Hosts /\ LossType'
  BY HostsKept, LossKept
<1>. QED BY <1>1, <1>2, <1>3, <1>4 DEF TypeInv, TypeOK, RouteType, LossType

LEMMA TypesInit == Init => TypeInv
<1>. SUFFICES ASSUME Init
              PROVE  TypeInv
  OBVIOUS
<1>1. 0 \in 0..MaxStreams /\ 0 \in 0..MaxSessions /\ 1..0 = {}
  BY BoundsAssumption DEF BoundsAssumption
<1>2. /\ opened \in 0..MaxStreams /\ ring \in [Devices -> 0..MaxStreams] /\ begun \in 0..MaxSessions
      /\ route \in [Sessions -> Keys \cup {Nobody}] /\ \A s \in 1..begun : route[s] \in Keys
  BY <1>1 DEF Init
<1>3. <<>> \in Seq(Events)
  OBVIOUS
<1>4. /\ inbox \in [Devices -> Seq(Events)] /\ slot \in [Devices -> Slots] /\ worker \in [Devices -> Workers]
      /\ group \in Records /\ task \in [Tasks -> Passes]
  BY <1>3, ValuesTyped DEF Init
<1>5. open \subseteq Hosts /\ notices \subseteq Keys /\ ending \in [on : BOOLEAN, grouped : BOOLEAN]
      /\ faults \in [Kinds -> Nat]
  BY DEF Init, NotEnding
<1>6. AskInv
  BY DEF Init, AskInv, NoTask
<1>. QED BY <1>2, <1>4, <1>5, <1>6 DEF TypeInv, TypeOK

\* Every variable keeps its type, and a task that asks knows its owner and its host.
THEOREM TypeInvariant == Spec => []TypeInv
<1>1. Init => TypeInv
  BY TypesInit
<1>2. TypeInv /\ [Next]_vars => TypeInv'
  BY TypesKept
<1>. QED BY <1>1, <1>2, PTL DEF Spec

\* For every number of members, hosts, streams, sessions, tasks and faults: slots, workers, tasks,
\* routes and the group's record keep their types, whatever order the events come in.
THEOREM TypeCorrect == Spec => []TypeOK
<1>1. TypeInv => TypeOK
  BY DEF TypeInv
<1>. QED BY <1>1, TypeInvariant, PTL

-----------------------------------------------------------------------------
(***************************************************************************)
(* One owner.  OneOwner alone is not inductive: a member that owns the     *)
(* group and still starts holds it too (Holds), and a record is only given *)
(* up under one that holds it if a session was stolen (StealInv).          *)
(***************************************************************************)
Slot == [st : {"Idle", "Starting", "Following", "Playing"}, ring : Nat, session : Nat, grouped : BOOLEAN]
IsWork(w) == DOMAIN w = {"pc", "session", "grouped", "who", "then"} /\ w.session \in Nat /\ w.grouped \in BOOLEAN
Fields == {"here", "owner", "followers", "cast", "host", "excluded", "promoting", "running", "dirty"}

\* As much of the types as ownership depends on.
SlotsType == slot \in [Devices -> Slot] /\ ring \in [Devices -> Nat] /\ opened \in Nat /\ begun \in Nat
WorkType  == worker = [d \in Devices |-> worker[d]] /\ \A d \in Devices : IsWork(worker[d])
Shape     == DOMAIN group = Fields /\ group.owner \in Devices \cup {Nobody}

\* A member that plays for the multi-select, or will once its start is through.
Holds(d) ==
  \/ slot[d].st = "Playing" /\ slot[d].grouped
  \/ slot[d].st = "Starting" /\ worker[d].pc = "start" /\ worker[d].grouped

HolderInv == \A d \in Devices : Holds(d) => group.owner = d
StealInv  == faults["steal"] = 0 => notices = {} /\ ~ending.on
FaultType == faults \in [Kinds -> Nat]

OwnerInv ==
  /\ TypeInv /\ SlotsType /\ WorkType /\ FaultType /\ StealInv
  /\ faults["steal"] = 0 => Shape /\ HolderInv

-----------------------------------------------------------------------------
(***************************************************************************)
(* What a step leaves of slots and workers.                                *)
(***************************************************************************)
LEMMA SlotsAre ==
  /\ Idle \in Slot /\ Idle.st = "Idle"
  /\ \A r \in Nat : Starting(r) \in Slot /\ Starting(r).st = "Starting"
  /\ \A r \in Nat : Following(r) \in Slot /\ Following(r).st = "Following"
  /\ \A r, s \in Nat : \A g \in BOOLEAN :
       Playing(r, s, g) \in Slot /\ Playing(r, s, g).st = "Playing" /\ Playing(r, s, g).grouped = g
BY DEF Slot, Idle, Starting, Following, Playing

LEMMA WorkIs ==
  /\ IsWork(Resting) /\ Resting.pc # "start"
  /\ \A pc \in {"playing", "joined", "check", "left", "promote"} : IsWork(At(pc)) /\ At(pc).pc # "start"
  /\ IsWork([At("promote") EXCEPT !.then = TRUE]) /\ [At("promote") EXCEPT !.then = TRUE].pc # "start"
  /\ \A s \in Nat : \A g \in BOOLEAN :
       LET w == [At("start") EXCEPT !.session = s, !.grouped = g] IN IsWork(w) /\ w.grouped = g
BY DEF IsWork, Resting, At

\* The record keeps its owner: a task is scheduled or not.
LEMMA ScheduleKeeps ==
  ASSUME NEW g, DOMAIN g = Fields, Schedule(g)
  PROVE  DOMAIN group' = Fields /\ group'.owner = g.owner
BY DEF Schedule, Fields

LEMMA NoGroupIs == DOMAIN NoGroup = Fields /\ NoGroup.owner = Nobody /\ DOMAIN NewGroup = Fields
BY DEF Fields, NoGroup, NewGroup

\* The types in the form ownership uses them.
LEMMA TypesGive == TypeInv => SlotsType /\ WorkType /\ FaultType /\ Shape
<1>. SUFFICES ASSUME TypeInv
              PROVE  SlotsType /\ WorkType /\ FaultType /\ Shape
  OBVIOUS
<1>1. 0..MaxStreams \subseteq Nat /\ 0..MaxSessions \subseteq Nat
  BY BoundsAssumption DEF BoundsAssumption
<1>2. Slots \subseteq Slot
  BY <1>1 DEF Slots, Slot
<1>3. \A w \in Workers : IsWork(w)
  BY <1>1 DEF Workers, IsWork
<1>4. SlotsType
  BY <1>1, <1>2 DEF SlotsType, TypeInv, TypeOK
<1>5. WorkType
  BY <1>3 DEF WorkType, TypeInv, TypeOK
<1>6. FaultType /\ Shape
  BY DEF FaultType, Shape, Fields, Records, TypeInv, TypeOK
<1>. QED BY <1>4, <1>5, <1>6

GrowsFaults == \A j \in Kinds : faults'[j] >= faults[j]

LEMMA FaultsKept == TypeInv /\ [Next]_vars => FaultType' /\ GrowsFaults
<1>. SUFFICES ASSUME TypeInv, [Next]_vars
              PROVE  FaultType' /\ GrowsFaults
  OBVIOUS
<1>1. FaultType
  BY TypesGive
<1>2. ASSUME NEW k, Fault(k)
      PROVE  FaultType' /\ GrowsFaults
  <2>1. k \in Kinds /\ faults' = [faults EXCEPT ![k] = faults[k] + 1]
    BY <1>2, BoundsAssumption DEF Fault, BoundsAssumption, Kinds
  <2>2. faults \in [Kinds -> Nat]
    BY <1>1 DEF FaultType
  <2>3. faults' \in [Kinds -> Nat]
    BY <2>1, <2>2
  <2>4. ASSUME NEW j \in Kinds
        PROVE  faults'[j] >= faults[j]
    <3>1. faults[j] \in Nat /\ faults'[j] \in {faults[j], faults[j] + 1}
      BY <2>1, <2>2
    <3>. QED BY <3>1
  <2>. QED BY <2>3, <2>4 DEF FaultType, GrowsFaults
<1>3. ASSUME UNCHANGED faults
      PROVE  FaultType' /\ GrowsFaults
  <2>1. faults \in [Kinds -> Nat]
    BY <1>1 DEF FaultType
  <2>2. \A j \in Kinds : faults[j] \in Nat
    BY <2>1
  <2>. QED BY <1>1, <1>3, <2>2 DEF FaultType, GrowsFaults
<1>4. ASSUME NEW d \in Devices, Worker(d) \/ Reloaded(d) \/ StallEnd(d) \/ CloseStream(d) \/ OpenStream(d)
      PROVE  UNCHANGED faults \/ \E k : Fault(k)
  BY <1>4 DEF Worker, SkipStale, StartAlone, EnterFollowing, EnterOwner, ScheduleJoin, StartFails, Install,
              OwnerPlaying, CheckOwner, Promote, NothingToPromote, RedispatchPromoted, DropEnded, EndFollowing,
              LeaveFollowers, HandOver, EndPlaying, Reloaded, StallEnd, CloseStream, OpenStream
<1>5. ASSUME NEW t \in Tasks, Reconcile(t)
      PROVE  UNCHANGED faults \/ \E k : Fault(k)
  BY <1>5 DEF Reconcile, Wake, Plan, Send, Answer, AnswerError, Refuse, Move, MoveFails, Finish
<1>6. ASSUME NEW k, CastLost(k) \/ TakeLost(k)
      PROVE  UNCHANGED faults \/ \E j : Fault(j)
  BY <1>6 DEF CastLost, TakeLost
<1>7. CASE EndLost \/ UNCHANGED vars
  BY <1>3, <1>7 DEF EndLost, vars
<1>. QED BY <1>2, <1>3, <1>4, <1>5, <1>6, <1>7 DEF Next

\* Without a theft no notice is on its way.
LEMMA StealKept == OwnerInv /\ [Next]_vars => StealInv'
<1>. SUFFICES ASSUME OwnerInv, [Next]_vars, faults'["steal"] = 0
              PROVE  notices' = {} /\ ~ending'.on
  BY DEF StealInv
<1>1. faults["steal"] = 0 /\ faults \in [Kinds -> Nat] /\ "steal" \in Kinds
  <2>1. faults \in [Kinds -> Nat] /\ faults["steal"] \in Nat
    BY DEF OwnerInv, FaultType, Kinds
  <2>2. faults'["steal"] >= faults["steal"]
    BY FaultsKept DEF OwnerInv, GrowsFaults, Kinds
  <2>. QED BY <2>1, <2>2 DEF Kinds
<1>2. notices = {} /\ ~ending.on
  BY <1>1 DEF OwnerInv, StealInv
<1>3. ASSUME NEW k, CastLost(k)
      PROVE  FALSE
  BY <1>1, <1>3 DEF CastLost, Fault
<1>4. ASSUME NEW k, TakeLost(k)
      PROVE  FALSE
  BY <1>2, <1>4 DEF TakeLost
<1>5. ~EndLost
  BY <1>2 DEF EndLost
<1>6. ASSUME NEW d \in Devices, Worker(d) \/ Reloaded(d) \/ StallEnd(d) \/ CloseStream(d) \/ OpenStream(d)
      PROVE  UNCHANGED losses
  BY <1>6 DEF Worker, SkipStale, StartAlone, EnterFollowing, EnterOwner, ScheduleJoin, StartFails, Install,
              OwnerPlaying, CheckOwner, Promote, NothingToPromote, RedispatchPromoted, DropEnded, EndFollowing,
              LeaveFollowers, HandOver, EndPlaying, Reloaded, StallEnd, CloseStream, OpenStream
<1>7. ASSUME NEW t \in Tasks, Reconcile(t)
      PROVE  UNCHANGED losses
  BY <1>7 DEF Reconcile, Wake, Plan, Send, Answer, AnswerError, Refuse, Move, MoveFails, Finish
<1>. QED BY <1>2, <1>3, <1>4, <1>5, <1>6, <1>7 DEF Next, losses, vars

-----------------------------------------------------------------------------
(***************************************************************************)
(* The owner.                                                              *)
(***************************************************************************)
\* The steps that change the owner, and what they make of it.
OwnerStays == DOMAIN group' = Fields /\ group'.owner = group.owner

LEMMA OtherWorkersKeep ==
  ASSUME Shape, NEW d \in Devices,
         \/ SkipStale(d) \/ StartAlone(d) \/ EnterFollowing(d) \/ ScheduleJoin(d) \/ StartFails(d) \/ Install(d)
         \/ OwnerPlaying(d) \/ Promote(d) \/ RedispatchPromoted(d) \/ DropEnded(d) \/ EndFollowing(d)
         \/ LeaveFollowers(d) \/ EndPlaying(d) \/ Reloaded(d) \/ CloseStream(d) \/ OpenStream(d)
  PROVE  OwnerStays
<1>1. DOMAIN group = Fields
  BY DEF Shape
<1>2. ASSUME UNCHANGED group
      PROVE  OwnerStays
  BY <1>1, <1>2 DEF OwnerStays
<1>3. ASSUME Schedule(group)
      PROVE  OwnerStays
  BY <1>1, <1>3, ScheduleKeeps DEF OwnerStays
<1>4. CASE SkipStale(d) \/ StartAlone(d) \/ StartFails(d) \/ Install(d) \/ DropEnded(d) \/ EndFollowing(d)
           \/ EndPlaying(d) \/ CloseStream(d) \/ OpenStream(d)
  BY <1>2, <1>4 DEF SkipStale, StartAlone, StartFails, Install, DropEnded, EndFollowing, EndPlaying,
                    CloseStream, OpenStream, members
<1>5. CASE EnterFollowing(d) \/ LeaveFollowers(d) \/ Promote(d)
  <2>1. \/ \E x : group' = [group EXCEPT !.followers = x]
        \/ \E x : group' = [group EXCEPT !.promoting = x]
    BY <1>5 DEF EnterFollowing, LeaveFollowers, Promote
  <2>. QED BY <1>1, <2>1 DEF OwnerStays, Fields
<1>6. CASE ScheduleJoin(d)
  BY <1>3, <1>6 DEF ScheduleJoin
<1>7. CASE OwnerPlaying(d) \/ Reloaded(d)
  <2>1. DOMAIN Confirmed(group, d) = Fields /\ Confirmed(group, d).owner = group.owner
    BY <1>1 DEF Confirmed, Fields
  <2>2. UNCHANGED group \/ Schedule(Confirmed(group, d))
    BY <1>7 DEF OwnerPlaying, Reloaded
  <2>. QED BY <1>2, <2>1, <2>2, ScheduleKeeps DEF OwnerStays
<1>8. CASE RedispatchPromoted(d)
  BY <1>2, <1>3, <1>8 DEF RedispatchPromoted, Done
<1>. QED BY <1>4, <1>5, <1>6, <1>7, <1>8

LEMMA TasksKeep ==
  ASSUME Shape, NEW t \in Tasks, Reconcile(t)
  PROVE  OwnerStays /\ UNCHANGED <<slot, worker>>
<1>1. DOMAIN group = Fields
  BY DEF Shape
<1>2. CASE Wake(t) \/ Plan(t) \/ Send(t) \/ Refuse(t) \/ Finish(t)
  <2>1. \/ UNCHANGED group \/ group' = [group EXCEPT !.dirty = FALSE] \/ group' = [group EXCEPT !.running = FALSE]
    BY <1>2 DEF Wake, Plan, Send, Refuse, Finish, members
  <2>. QED BY <1>1, <1>2, <2>1 DEF OwnerStays, Fields, Wake, Plan, Send, Refuse, Finish, members
<1>3. CASE Answer(t)
  <2>1. PICK failed : \/ UNCHANGED group
                      \/ group' = [group EXCEPT !.cast = Confirms(t, failed), !.followers = Without(@, failed),
                                                !.excluded = @ \cup failed]
    BY <1>3 DEF Answer
  <2>2. UNCHANGED <<slot, worker>>
    BY <1>3 DEF Answer
  <2>. QED BY <1>1, <2>1, <2>2 DEF OwnerStays, Fields
<1>4. CASE AnswerError(t)
  <2>1. UNCHANGED group \/ \E f, x : group' = [group EXCEPT !.followers = f, !.excluded = x]
    BY <1>4 DEF AnswerError
  <2>. QED BY <1>1, <1>4, <2>1 DEF OwnerStays, Fields, AnswerError
<1>5. CASE Move(t) \/ MoveFails(t)
  <2>1. \/ UNCHANGED group
        \/ \E h : group' = [group EXCEPT !.host = h]
        \/ \E c, h : group' = [group EXCEPT !.cast = c, !.host = h]
    BY <1>5 DEF Move, MoveFails
  <2>. QED BY <1>1, <1>5, <2>1 DEF OwnerStays, Fields, Move, MoveFails
<1>. QED BY <1>2, <1>3, <1>4, <1>5 DEF Reconcile

\* What a member does to its worker: it starts nothing but from Started.
LEMMA NothingStarts ==
  ASSUME WorkType, NEW d \in Devices,
         \/ SkipStale(d) \/ EnterFollowing(d) \/ ScheduleJoin(d) \/ StartFails(d) \/ Install(d)
         \/ OwnerPlaying(d) \/ CheckOwner(d) \/ Promote(d) \/ NothingToPromote(d) \/ RedispatchPromoted(d)
         \/ DropEnded(d) \/ EndFollowing(d) \/ LeaveFollowers(d) \/ HandOver(d) \/ EndPlaying(d)
         \/ Reloaded(d) \/ StallEnd(d) \/ CloseStream(d) \/ OpenStream(d)
  PROVE  \A e \in Devices : worker'[e] = worker[e] \/ worker'[e].pc # "start"
<1>1. DOMAIN worker = Devices
  BY DEF WorkType
<1>2. ASSUME \/ SkipStale(d) \/ EnterFollowing(d) \/ ScheduleJoin(d) \/ StartFails(d) \/ Install(d)
             \/ OwnerPlaying(d) \/ EndFollowing(d) \/ EndPlaying(d)
      PROVE  \E pc \in {"playing", "joined", "check", "left"} : WorkerTo(d, At(pc))
  BY <1>2 DEF SkipStale, EnterFollowing, ScheduleJoin, StartFails, Install, OwnerPlaying, EndFollowing, EndPlaying
<1>3. ASSUME CheckOwner(d) \/ NothingToPromote(d) \/ RedispatchPromoted(d)
      PROVE  WorkerTo(d, Resting) \/ WorkerTo(d, At("promote"))
  BY <1>3 DEF CheckOwner, AfterCheck, NothingToPromote, RedispatchPromoted, Done
<1>4. ASSUME Promote(d)
      PROVE  \E w : WorkerTo(d, w) /\ w.pc # "start"
  <2>1. DOMAIN worker[d] = {"pc", "session", "grouped", "who", "then"}
    BY DEF WorkType, IsWork
  <2>2. WorkerTo(d, [worker[d] EXCEPT !.pc = "redispatch", !.who = Head(group.followers)])
    BY <1>4 DEF Promote
  <2>3. [worker[d] EXCEPT !.pc = "redispatch", !.who = Head(group.followers)].pc = "redispatch"
    BY <2>1
  <2>. QED BY <2>2, <2>3
<1>5. ASSUME LeaveFollowers(d)
      PROVE  WorkerTo(d, [At("promote") EXCEPT !.then = TRUE])
  BY <1>5 DEF LeaveFollowers
<1>6. ASSUME DropEnded(d) \/ HandOver(d) \/ Reloaded(d) \/ StallEnd(d) \/ CloseStream(d) \/ OpenStream(d)
      PROVE  UNCHANGED worker
  BY <1>6 DEF DropEnded, HandOver, Reloaded, StallEnd, CloseStream, OpenStream
<1>7. ASSUME NEW w, WorkerTo(d, w), w.pc # "start"
      PROVE  \A e \in Devices : worker'[e] = worker[e] \/ worker'[e].pc # "start"
  BY <1>1, <1>7 DEF WorkerTo
<1>. QED BY <1>2, <1>3, <1>4, <1>5, <1>6, <1>7, WorkIs

\* A member's step that leaves the slots and starts nothing.
LEMMA QuietSteps ==
  ASSUME OwnerInv, NEW d \in Devices,
         \/ SkipStale(d) \/ ScheduleJoin(d) \/ OwnerPlaying(d) \/ CheckOwner(d) \/ Promote(d)
         \/ NothingToPromote(d) \/ RedispatchPromoted(d) \/ DropEnded(d) \/ LeaveFollowers(d) \/ Reloaded(d)
         \/ CloseStream(d) \/ OpenStream(d)
  PROVE  \A e \in Devices : slot'[e] = slot[e] /\ (Holds(e)' => Holds(e))
<1>1. UNCHANGED slot
  BY DEF SkipStale, ScheduleJoin, OwnerPlaying, CheckOwner, Promote, NothingToPromote, RedispatchPromoted,
         DropEnded, LeaveFollowers, Reloaded, CloseStream, OpenStream, members
<1>2. WorkType
  BY DEF OwnerInv
<1>3. \A e \in Devices : worker'[e] = worker[e] \/ worker'[e].pc # "start"
  BY <1>2, NothingStarts
<1>. QED BY <1>1, <1>3 DEF Holds

\* A member's step that sets its own slot and leaves it no hold it had not.
LEMMA OwnSteps ==
  ASSUME OwnerInv, NEW d \in Devices,
         StartAlone(d) \/ EnterFollowing(d) \/ StartFails(d) \/ Install(d) \/ EndFollowing(d) \/ EndPlaying(d)
  PROVE  \A e \in Devices : Holds(e)' => Holds(e)
<1>1. SlotsType /\ WorkType
  BY DEF OwnerInv
<1>2. DOMAIN worker = Devices /\ DOMAIN slot = Devices /\ ring[d] \in Nat
  BY <1>1 DEF WorkType, SlotsType
<1>3. /\ \/ \E w : worker' = [worker EXCEPT ![d] = w]
         \/ UNCHANGED worker
      /\ \/ \E s : slot' = [slot EXCEPT ![d] = s]
         \/ UNCHANGED slot
  BY DEF StartAlone, EnterFollowing, StartFails, Install, EndFollowing, EndPlaying, Accept, WorkerTo
<1>4. \A e \in Devices \ {d} : worker'[e] = worker[e] /\ slot'[e] = slot[e]
  BY <1>2, <1>3
<1>5. Holds(d)' => Holds(d)
  <2>1. CASE StartAlone(d)
    <3>1. slot' = [slot EXCEPT ![d] = Starting(ring[d])]
          /\ WorkerTo(d, [At("start") EXCEPT !.session = begun + 1, !.grouped = FALSE])
      BY <2>1 DEF StartAlone, Accept
    <3>2. begun + 1 \in Nat
      BY <1>1 DEF SlotsType
    <3>3. slot'[d].st = "Starting" /\ ~worker'[d].grouped
      BY <1>2, <3>1, <3>2, SlotsAre, WorkIs DEF WorkerTo
    <3>. QED BY <3>3 DEF Holds
  <2>2. CASE EnterFollowing(d)
    <3>1. slot'[d].st = "Following"
      BY <1>2, <2>2, SlotsAre DEF EnterFollowing
    <3>. QED BY <3>1 DEF Holds
  <2>3. CASE StartFails(d)
    <3>1. worker'[d].pc # "start" /\ slot'[d] \in {Idle, slot[d]}
      BY <1>2, <2>3, WorkIs DEF StartFails, WorkerTo
    <3>. QED BY <3>1, SlotsAre DEF Holds
  <2>4. CASE Install(d)
    <3>1. worker'[d].pc # "start" /\ worker[d].pc = "start"
      BY <1>2, <2>4, WorkIs DEF Install, WorkerTo
    <3>2. worker[d].session \in Nat /\ worker[d].grouped \in BOOLEAN /\ slot[d].ring \in Nat
      BY <1>1 DEF WorkType, IsWork, SlotsType, Slot
    <3>3. \/ slot'[d] = slot[d]
          \/ slot[d].st = "Starting" /\ slot'[d] = Playing(slot[d].ring, worker[d].session, worker[d].grouped)
      BY <1>2, <2>4 DEF Install
    <3>4. slot'[d] = slot[d] \/ (slot[d].st = "Starting" /\ (slot'[d].grouped => worker[d].grouped))
      BY <3>2, <3>3, SlotsAre
    <3>. QED BY <3>1, <3>4 DEF Holds
  <2>5. CASE EndFollowing(d) \/ EndPlaying(d)
    <3>1. slot'[d].st = "Idle"
      BY <1>2, <2>5, SlotsAre DEF EndFollowing, EndPlaying
    <3>. QED BY <3>1 DEF Holds
  <2>. QED BY <2>1, <2>2, <2>3, <2>4, <2>5
<1>. QED BY <1>4, <1>5 DEF Holds

LEMMA HolderStep ==
  ASSUME OwnerInv, Shape, HolderInv, notices = {}, ~ending.on, [Next]_vars
  PROVE  Shape' /\ HolderInv'
<1>1. SlotsType /\ WorkType /\ Shape /\ Nobody \notin Devices /\ slot \in [Devices -> Slot]
      /\ DOMAIN group = Fields /\ DOMAIN worker = Devices /\ ring \in [Devices -> Nat]
  BY NobodyAssumption DEF OwnerInv, Shape, SlotsType, WorkType
<1>2. ASSUME OwnerStays, \A e \in Devices : Holds(e)' => Holds(e)
      PROVE  Shape' /\ HolderInv'
  BY <1>1, <1>2 DEF HolderInv, OwnerStays, Shape
<1>3. ASSUME NEW d \in Devices,
             \/ SkipStale(d) \/ ScheduleJoin(d) \/ OwnerPlaying(d) \/ Promote(d) \/ RedispatchPromoted(d)
             \/ DropEnded(d) \/ LeaveFollowers(d) \/ Reloaded(d) \/ CloseStream(d) \/ OpenStream(d)
      PROVE  Shape' /\ HolderInv'
  <2>1. OwnerStays
    BY <1>1, <1>3, OtherWorkersKeep
  <2>. QED BY <1>2, <1>3, <2>1, QuietSteps
<1>4. ASSUME NEW d \in Devices,
             StartAlone(d) \/ EnterFollowing(d) \/ StartFails(d) \/ Install(d) \/ EndFollowing(d) \/ EndPlaying(d)
      PROVE  Shape' /\ HolderInv'
  <2>1. OwnerStays
    BY <1>1, <1>4, OtherWorkersKeep
  <2>. QED BY <1>2, <1>4, <2>1, OwnSteps
<1>5. ASSUME NEW t \in Tasks, Reconcile(t)
      PROVE  Shape' /\ HolderInv'
  BY <1>1, <1>2, <1>5, TasksKeep DEF Holds
\* A member becomes the owner only where the last one neither plays nor starts.
<1>6. ASSUME NEW d \in Devices, EnterOwner(d)
      PROVE  Shape' /\ HolderInv'
  <2>1. group'.owner = d /\ DOMAIN group' = Fields
    <3>1. DOMAIN (IF group.here THEN group ELSE NewGroup) = Fields
      BY <1>1, NoGroupIs
    <3>. QED BY <1>6, <3>1 DEF EnterOwner, Fields
  <2>2. \A e \in Devices \ {d} : slot'[e] = slot[e] /\ worker'[e] = worker[e]
    BY <1>1, <1>6 DEF EnterOwner, Accept, WorkerTo
  <2>3. ASSUME NEW e \in Devices, Holds(e)
        PROVE  e = d
    <3>1. group.owner = e /\ slot[e].st \in {"Starting", "Playing"}
      BY <2>3 DEF HolderInv, Holds
    <3>. QED BY <1>1, <1>6, <3>1 DEF EnterOwner, OwnerLive
  <2>. QED BY <2>1, <2>2, <2>3 DEF HolderInv, Shape, Holds
\* The session and the group go to the survivor together.
<1>7. ASSUME NEW d \in Devices, HandOver(d)
      PROVE  Shape' /\ HolderInv'
  <2>1. PICK f \in Survivors :
          /\ slot' = [slot EXCEPT ![d] = Idle, ![f] = Playing(slot[f].ring, slot[d].session, TRUE)]
          /\ Schedule([group EXCEPT !.owner = f, !.followers = Without(@, {f})])
    BY <1>7 DEF HandOver
  <2>2. f \in Devices /\ slot[f].st = "Following" /\ slot[d].st = "Playing" /\ f # d
    BY <1>7 DEF Survivors, HandOver
  <2>3. group'.owner = f /\ DOMAIN group' = Fields
    <3>. DEFINE g == [group EXCEPT !.owner = f, !.followers = Without(@, {f})]
    <3>1. DOMAIN g = Fields /\ g.owner = f
      BY <1>1 DEF Fields
    <3>2. Schedule(g)
      BY <2>1
    <3>. HIDE DEF g
    <3>. QED BY <3>1, <3>2, ScheduleKeeps
  <2>4. slot'[d] = Idle /\ \A e \in Devices \ {d, f} : slot'[e] = slot[e]
    BY <1>1, <2>1, <2>2
  <2>5. UNCHANGED worker /\ group.owner = d
    BY <1>7 DEF HandOver, Owns
  <2>6. \A e \in Devices : Holds(e)' => e = f
    BY <2>4, <2>5, SlotsAre DEF Holds, HolderInv
  <2>. QED BY <2>2, <2>3, <2>6 DEF HolderInv, Shape
<1>8. ASSUME NEW d \in Devices, CheckOwner(d)
      PROVE  Shape' /\ HolderInv'
  <2>1. CASE IsLive(d)
    <3>1. OwnerStays
      BY <1>1, <1>8, <2>1 DEF CheckOwner, OwnerStays
    <3>. QED BY <1>2, <1>8, <3>1, QuietSteps
  <2>2. CASE ~IsLive(d)
    <3>1. PICK g : /\ group' = IF IsEmpty(g) THEN NoGroup ELSE g
                   /\ DOMAIN g = Fields /\ g.owner = IF group.owner = d THEN Nobody ELSE group.owner
      <4>. DEFINE g == [group EXCEPT !.excluded = @ \ {d},
                                     !.owner = IF group.owner = d THEN Nobody ELSE @,
                                     !.cast = IF group.owner = d THEN <<>> ELSE @,
                                     !.host = IF group.owner = d THEN Nobody ELSE @]
      <4>1. DOMAIN g = Fields /\ g.owner = IF group.owner = d THEN Nobody ELSE group.owner
        BY <1>1 DEF Fields
      <4>2. group' = IF IsEmpty(g) THEN NoGroup ELSE g
        BY <1>8, <2>2 DEF CheckOwner
      <4>. HIDE DEF g
      <4>. QED BY <4>1, <4>2
    <3>2. DOMAIN group' = Fields /\ group'.owner = g.owner
      BY <3>1, NoGroupIs DEF IsEmpty
    <3>3. ~Holds(d)
      BY <2>2 DEF IsLive, Holds
    <3>4. \A e \in Devices : Holds(e)' => Holds(e)
      BY <1>8, QuietSteps
    <3>. QED BY <1>1, <3>1, <3>2, <3>3, <3>4 DEF HolderInv, Shape
  <2>. QED BY <2>1, <2>2
<1>9. ASSUME NEW d \in Devices, NothingToPromote(d)
      PROVE  Shape' /\ HolderInv'
  <2>1. CASE Promotable
    <3>1. PICK g : Done(d, g) /\ DOMAIN g = Fields /\ g.owner = group.owner
      <4>1. Done(d, IF IsEmpty(group) THEN NoGroup ELSE [group EXCEPT !.host = Nobody])
        BY <1>9, <2>1 DEF NothingToPromote
      <4>2. group.owner = Nobody
        BY <2>1 DEF Promotable
      <4>3. DOMAIN [group EXCEPT !.host = Nobody] = Fields /\ [group EXCEPT !.host = Nobody].owner = group.owner
        BY <1>1 DEF Fields
      <4>4. CASE IsEmpty(group)
        BY <4>1, <4>2, <4>4, NoGroupIs
      <4>5. CASE ~IsEmpty(group)
        BY <4>1, <4>3, <4>5
      <4>. QED BY <4>4, <4>5
    <3>2. OwnerStays
      BY <3>1, ScheduleKeeps DEF Done, OwnerStays
    <3>. QED BY <1>2, <1>9, <3>2, QuietSteps
  <2>2. CASE ~Promotable
    <3>1. Done(d, group)
      BY <1>9, <2>2 DEF NothingToPromote
    <3>2. OwnerStays
      BY <1>1, <3>1, ScheduleKeeps DEF Done, OwnerStays
    <3>. QED BY <1>2, <1>9, <3>2, QuietSteps
  <2>. QED BY <2>1, <2>2
\* The group goes with the session of the member that holds it.
<1>10. ASSUME NEW d \in Devices, StallEnd(d)
       PROVE  Shape' /\ HolderInv'
  <2>1. slot[d].st = "Playing" /\ UNCHANGED worker
    BY <1>10 DEF StallEnd
  <2>2. CASE slot[d].grouped
    <3>1. group.owner = d
      BY <2>1, <2>2 DEF HolderInv, Holds
    <3>2. group' = NoGroup /\ slot' = [EndGroupSlots EXCEPT ![d] = Idle]
      BY <1>10, <2>2 DEF StallEnd
    <3>3. \A e \in Devices : slot'[e] \in {Idle, slot[e]} /\ slot'[d] = Idle
      BY <3>2 DEF EndGroupSlots
    <3>4. \A e \in Devices : Holds(e)' => Holds(e) /\ e # d
      BY <2>1, <3>3, SlotsAre DEF Holds
    <3>5. \A e \in Devices : ~Holds(e)'
      BY <3>1, <3>4 DEF HolderInv
    <3>. QED BY <3>2, <3>5, NoGroupIs DEF HolderInv, Shape
  <2>3. CASE ~slot[d].grouped
    <3>1. slot' = [slot EXCEPT ![d] = Idle] /\ UNCHANGED group
      BY <1>10, <2>3 DEF StallEnd
    <3>2. \A e \in Devices : slot'[e] \in {Idle, slot[e]}
      BY <1>1, <3>1
    <3>. QED BY <1>1, <1>2, <2>1, <3>1, <3>2, SlotsAre DEF Holds, OwnerStays
  <2>. QED BY <2>2, <2>3
<1>11. ASSUME NEW k, CastLost(k) \/ TakeLost(k)
       PROVE  Shape' /\ HolderInv'
  <2>1. UNCHANGED <<slot, group, worker>>
    BY <1>11 DEF CastLost, TakeLost, members
  <2>. QED BY <1>1, <1>2, <2>1 DEF OwnerStays, Holds
<1>12. CASE EndLost
  BY <1>12 DEF EndLost
<1>13. CASE UNCHANGED vars
  BY <1>1, <1>2, <1>13 DEF OwnerStays, Holds, vars, members
<1>. QED BY <1>3, <1>4, <1>5, <1>6, <1>7, <1>8, <1>9, <1>10, <1>11, <1>12, <1>13 DEF Next, Worker

-----------------------------------------------------------------------------
(***************************************************************************)
(* Theorems.                                                               *)
(***************************************************************************)
LEMMA OwnerInit == Init => OwnerInv
<1>. SUFFICES ASSUME Init
              PROVE  OwnerInv
  OBVIOUS
<1>1. TypeInv /\ SlotsType /\ WorkType /\ FaultType /\ Shape
  BY TypesInit, TypesGive
<1>2. StealInv
  BY DEF Init, StealInv, NotEnding
<1>3. HolderInv
  <2>1. \A d \in Devices : slot[d].st = "Idle"
    BY SlotsAre DEF Init
  <2>. QED BY <2>1 DEF HolderInv, Holds
<1>. QED BY <1>1, <1>2, <1>3 DEF OwnerInv

LEMMA OwnerStep == OwnerInv /\ [Next]_vars => OwnerInv'
<1>. SUFFICES ASSUME OwnerInv, [Next]_vars
              PROVE  OwnerInv'
  OBVIOUS
<1>1. TypeInv' /\ StealInv'
  BY TypesKept, StealKept DEF OwnerInv
<1>3. SlotsType' /\ WorkType' /\ FaultType'
  BY <1>1, TypesGive, PTL
<1>2. ASSUME faults'["steal"] = 0
      PROVE  Shape' /\ HolderInv'
  <2>1. faults["steal"] = 0
    <3>1. faults["steal"] \in Nat /\ faults'["steal"] >= faults["steal"]
      BY FaultsKept DEF OwnerInv, FaultType, GrowsFaults, Kinds
    <3>. QED BY <1>2, <3>1
  <2>. QED BY <2>1, HolderStep DEF OwnerInv, StealInv
<1>. QED BY <1>1, <1>2, <1>3 DEF OwnerInv

\* Ownership of the multi-select and what holds it agree, in every behaviour.
THEOREM OwnerInvariant == Spec => []OwnerInv
BY OwnerInit, OwnerStep, PTL DEF Spec

\* For every number of members, streams, sessions, tasks and faults: a session that plays for the
\* multi-select is its owner's, so two members never play for it at once.
THEOREM OneMemberOwns == Spec => []OneOwner
<1>1. OwnerInv => OneOwner
  BY DEF OwnerInv, OneOwner, HolderInv, Holds
<1>. QED BY <1>1, OwnerInvariant, PTL

-----------------------------------------------------------------------------
(***************************************************************************)
(* Session hosts.  HostOpen alone is not inductive.  What plays or starts  *)
(* through a host does so for the group, where the group's record names    *)
(* the host (RouteInv); nothing is left of a plan that could move a        *)
(* session started since (SessionsInv); and until the one move no host is  *)
(* in use, so that the move finds none to close (MoveInv).                 *)
(***************************************************************************)
TaskFields == {"pc", "session", "owner", "desired", "added", "failed", "moved"}

HostTypes ==
  /\ DOMAIN route = Sessions /\ begun \in 0..MaxSessions
  /\ DOMAIN task = Tasks /\ \A t \in Tasks : DOMAIN task[t] = TaskFields

OneMove  == faults["steal"] = 0 /\ faults["move"] <= 1
Gone     == ~group.here => group.owner = Nobody
Runs(d)  == slot[d].st = "Playing"
Starts(d) == worker[d].pc = "start"

\* No two members play one session, and none plays or starts without the group a session
\* that a task may still move.
SessionsInv ==
  /\ \A d \in Devices : Runs(d) => slot[d].session \in 1..begun
  /\ \A d, e \in Devices : Runs(d) /\ Runs(e) /\ slot[d].session = slot[e].session => d = e
  /\ \A d \in Devices : Starts(d) => worker[d].session \in 1..begun
  /\ \A d, e \in Devices : Starts(d) /\ Runs(e) => slot[e].session # worker[d].session
  /\ \A d, e \in Devices : Starts(d) /\ Starts(e) /\ worker[e].session = worker[d].session => e = d
  /\ \A d \in Devices, t \in Tasks : Starts(d) => task[t].session # worker[d].session
  /\ \A d \in Devices, t \in Tasks : Runs(d) /\ task[t].session = slot[d].session => slot[d].grouped
  /\ \A t \in Tasks : task[t].session \in 0..begun

\* Where a task is in asking Cast, and where it is in following the session.
Asks(x)  == x.pc \in {"flight", "sent"}
Moves(x) == x.pc = "move" \/ (x.pc = "refused" /\ x.moved # Nobody)

NoHostUsed == group.host = Nobody /\ \A s \in Sessions : route[s] \notin Hosts
NoneMoves  == \A t \in Tasks : ~Moves(task[t])

MoveInv ==
  /\ faults["move"] = 0 => NoHostUsed /\ NoneMoves
  /\ \A t \in Tasks : Moves(task[t]) => NoHostUsed /\ task[t].owner \notin Hosts
  /\ \A t, u \in Tasks : Moves(task[t]) /\ Moves(task[u]) => t = u
  /\ \A t \in Tasks : Asks(task[t]) => task[t].moved = Nobody /\ task[t].owner \notin Hosts

RouteInv ==
  /\ \A d \in Devices : Runs(d) /\ route[slot[d].session] \in Hosts =>
       slot[d].grouped /\ route[slot[d].session] = group.host
  /\ \A d \in Devices : slot[d].st = "Starting" /\ Starts(d) /\ route[worker[d].session] \in Hosts =>
       worker[d].grouped /\ route[worker[d].session] = group.host
  /\ group.host # Nobody => group.host \in open

HostInv ==
  /\ OwnerInv
  /\ OneMove => HostTypes /\ Gone /\ SessionsInv /\ MoveInv /\ RouteInv

\* The tasks a step leaves: as they were, further on, or over; none starts to ask or to move.
LeavesTask(x, y) ==
  /\ DOMAIN y = TaskFields /\ y.session \in {x.session, 0}
  /\ Asks(y)  => Asks(x) /\ y.owner = x.owner /\ y.moved = x.moved
  /\ Moves(y) => Moves(x) /\ y.owner = x.owner
TasksCalm == DOMAIN task' = Tasks /\ \A t \in Tasks : LeavesTask(task[t], task'[t])

\* A step that installs no session, starts none, moves none, and gives a host up only with
\* its owner.
CalmStep ==
  /\ UNCHANGED <<route, begun>> /\ TasksCalm
  /\ \A d \in Devices : slot'[d] = slot[d] \/ slot'[d].st \notin {"Playing", "Starting"}
  /\ \A d \in Devices : worker'[d] = worker[d] \/ worker'[d].pc # "start"
  /\ \/ group'.host = group.host /\ UNCHANGED open
     \/ group'.host = Nobody /\ group'.owner = Nobody
  /\ ~group'.here => group'.owner = Nobody

LEMMA CalmKeeps ==
  ASSUME HostTypes, SessionsInv, MoveInv, RouteInv, HolderInv', CalmStep, faults["move"] \in Nat,
         faults'["move"] >= faults["move"], Nobody \notin Devices
  PROVE  HostTypes' /\ Gone' /\ SessionsInv' /\ MoveInv' /\ RouteInv'
<1>1. /\ UNCHANGED <<route, begun>> /\ DOMAIN task' = Tasks
      /\ \A t \in Tasks : LeavesTask(task[t], task'[t])
      /\ \A d \in Devices : Runs(d)' => Runs(d) /\ slot'[d] = slot[d]
      /\ \A d \in Devices : Starts(d)' => Starts(d) /\ worker'[d] = worker[d]
      /\ \A d \in Devices : slot'[d].st = "Starting" => slot'[d] = slot[d]
  BY DEF CalmStep, TasksCalm, Runs, Starts
<1>2. HostTypes' /\ Gone'
  BY <1>1 DEF HostTypes, LeavesTask, CalmStep, Gone
<1>3. \A t \in Tasks : task'[t].session = task[t].session \/ task'[t].session = 0
  BY <1>1 DEF LeavesTask
<1>4. begun \in Nat
  BY DEF HostTypes
<1>5. SessionsInv'
  <2>1. \A d \in Devices : Runs(d) => slot[d].session \in 1..begun
    BY DEF SessionsInv
  <2>2. \A d \in Devices : Starts(d) => worker[d].session \in 1..begun
    BY DEF SessionsInv
  <2>3. \A d \in Devices : Runs(d)' => slot'[d].session \in 1..begun'
    BY <1>1, <2>1
  <2>4. \A d \in Devices : Starts(d)' => worker'[d].session \in 1..begun'
    BY <1>1, <2>2
  <2>5. \A d, e \in Devices : Runs(d)' /\ Runs(e)' /\ slot'[d].session = slot'[e].session => d = e
    BY <1>1 DEF SessionsInv
  <2>6. \A d, e \in Devices : Starts(d)' /\ Runs(e)' => slot'[e].session # worker'[d].session
    BY <1>1 DEF SessionsInv
  <2>7. \A d, e \in Devices : Starts(d)' /\ Starts(e)' /\ worker'[e].session = worker'[d].session => e = d
    BY <1>1 DEF SessionsInv
  <2>8. \A d \in Devices, t \in Tasks : Starts(d)' => task'[t].session # worker'[d].session
    BY <1>1, <1>3, <1>4, <2>2 DEF SessionsInv
  <2>9. \A d \in Devices, t \in Tasks : Runs(d)' /\ task'[t].session = slot'[d].session => slot'[d].grouped
    BY <1>1, <1>3, <1>4, <2>1 DEF SessionsInv
  <2>10. \A t \in Tasks : task'[t].session \in 0..begun'
    BY <1>1, <1>3, <1>4 DEF SessionsInv
  <2>. QED BY <2>3, <2>4, <2>5, <2>6, <2>7, <2>8, <2>9, <2>10 DEF SessionsInv
<1>6. MoveInv'
  <2>1. NoHostUsed => NoHostUsed'
    BY <1>1 DEF NoHostUsed, CalmStep
  <2>2. faults'["move"] = 0 => faults["move"] = 0
    OBVIOUS
  <2>3. NoneMoves => NoneMoves'
    BY <1>1 DEF NoneMoves, LeavesTask
  <2>4. \A t \in Tasks : Moves(task'[t]) => Moves(task[t]) /\ task'[t].owner = task[t].owner
    BY <1>1 DEF LeavesTask
  <2>5. \A t \in Tasks : Asks(task'[t]) =>
          Asks(task[t]) /\ task'[t].owner = task[t].owner /\ task'[t].moved = task[t].moved
    BY <1>1 DEF LeavesTask
  <2>. QED BY <2>1, <2>2, <2>3, <2>4, <2>5 DEF MoveInv
<1>7. RouteInv'
  <2>1. CASE group'.host = group.host /\ UNCHANGED open
    BY <1>1, <2>1 DEF RouteInv
  <2>2. CASE group'.host = Nobody /\ group'.owner = Nobody
    <3>1. ASSUME NEW d \in Devices, Runs(d)', slot'[d].grouped
          PROVE  FALSE
      BY <2>2, <3>1 DEF HolderInv, Holds, Runs
    <3>2. ASSUME NEW d \in Devices, slot'[d].st = "Starting", Starts(d)', worker'[d].grouped
          PROVE  FALSE
      BY <2>2, <3>2 DEF HolderInv, Holds, Starts
    <3>. QED BY <1>1, <2>2, <3>1, <3>2 DEF RouteInv
  <2>. QED BY <2>1, <2>2 DEF CalmStep
<1>. QED BY <1>2, <1>5, <1>6, <1>7

LEMMA ScheduleCalm ==
  ASSUME HostTypes, NEW g, DOMAIN g = Fields, Schedule(g)
  PROVE  TasksCalm /\ group'.host = g.host /\ group'.here = g.here /\ group'.owner = g.owner
<1>1. DOMAIN task = Tasks /\ \A t \in Tasks : DOMAIN task[t] = TaskFields
  BY DEF HostTypes
<1>. DEFINE new == [NoTask EXCEPT !.pc = "sleep"]
<1>2. DOMAIN new = TaskFields /\ new.session = 0 /\ ~Asks(new) /\ ~Moves(new)
  BY DEF NoTask, TaskFields, Asks, Moves
<1>3. UNCHANGED task \/ \E t \in Tasks : task' = [task EXCEPT ![t] = new]
  BY DEF Schedule
<1>4. group'.host = g.host /\ group'.here = g.here /\ group'.owner = g.owner
  BY DEF Schedule, Fields
<1>. HIDE DEF new
<1>5. TasksCalm
  BY <1>1, <1>2, <1>3 DEF TasksCalm, LeavesTask
<1>. QED BY <1>4, <1>5

LEMMA SameTasksCalm == HostTypes /\ UNCHANGED task => TasksCalm
BY DEF HostTypes, TasksCalm, LeavesTask

\* Steps of a member that keep the record's host.
LEMMA MemberCalm ==
  ASSUME OwnerInv, HostTypes, Shape, Gone, NEW d \in Devices,
         \/ SkipStale(d) \/ EnterFollowing(d) \/ ScheduleJoin(d) \/ StartFails(d) \/ OwnerPlaying(d)
         \/ Promote(d) \/ RedispatchPromoted(d) \/ DropEnded(d) \/ EndFollowing(d) \/ LeaveFollowers(d)
         \/ EndPlaying(d) \/ Reloaded(d) \/ CloseStream(d) \/ OpenStream(d)
  PROVE  CalmStep
<1>1. SlotsType /\ WorkType /\ DOMAIN slot = Devices /\ DOMAIN group = Fields /\ ring[d] \in Nat
  BY DEF OwnerInv, SlotsType, Shape
<1>2. UNCHANGED <<route, begun, open>>
  BY DEF SkipStale, EnterFollowing, ScheduleJoin, StartFails, OwnerPlaying, Promote, RedispatchPromoted,
         DropEnded, EndFollowing, LeaveFollowers, EndPlaying, Reloaded, CloseStream, OpenStream, cast
<1>3. \A e \in Devices : worker'[e] = worker[e] \/ worker'[e].pc # "start"
  BY <1>1, NothingStarts
<1>4. \A e \in Devices : slot'[e] = slot[e] \/ slot'[e].st \notin {"Playing", "Starting"}
  <2>1. \/ UNCHANGED slot
        \/ slot' = [slot EXCEPT ![d] = slot[d]]
        \/ slot' = [slot EXCEPT ![d] = Idle]
        \/ slot' = [slot EXCEPT ![d] = Following(ring[d])]
    BY DEF SkipStale, EnterFollowing, ScheduleJoin, StartFails, OwnerPlaying, Promote, RedispatchPromoted,
           DropEnded, EndFollowing, LeaveFollowers, EndPlaying, Reloaded, CloseStream, OpenStream, members
  <2>. QED BY <1>1, <2>1, SlotsAre
<1>5. TasksCalm /\ group'.host = group.host /\ group'.here = group.here /\ group'.owner = group.owner
  <2>1. CASE SkipStale(d) \/ StartFails(d) \/ DropEnded(d) \/ EndFollowing(d) \/ EndPlaying(d)
             \/ CloseStream(d) \/ OpenStream(d)
    <3>1. UNCHANGED <<task, group>>
      BY <2>1 DEF SkipStale, StartFails, DropEnded, EndFollowing, EndPlaying, CloseStream, OpenStream, members
    <3>. QED BY <3>1, SameTasksCalm
  <2>2. CASE EnterFollowing(d) \/ LeaveFollowers(d) \/ Promote(d)
    <3>1. UNCHANGED task
      BY <2>2 DEF EnterFollowing, LeaveFollowers, Promote
    <3>2. \/ \E x : group' = [group EXCEPT !.followers = x]
          \/ \E x : group' = [group EXCEPT !.promoting = x]
      BY <2>2 DEF EnterFollowing, LeaveFollowers, Promote
    <3>. QED BY <1>1, <3>1, <3>2, SameTasksCalm DEF Fields
  <2>3. CASE ScheduleJoin(d)
    BY <1>1, <2>3, ScheduleCalm DEF ScheduleJoin
  <2>4. CASE OwnerPlaying(d) \/ Reloaded(d)
    <3>1. /\ DOMAIN Confirmed(group, d) = Fields /\ Confirmed(group, d).owner = group.owner
          /\ Confirmed(group, d).host = group.host /\ Confirmed(group, d).here = group.here
      BY <1>1 DEF Confirmed, Fields
    <3>2. UNCHANGED <<group, task>> \/ Schedule(Confirmed(group, d))
      BY <2>4 DEF OwnerPlaying, Reloaded
    <3>. QED BY <3>1, <3>2, ScheduleCalm, SameTasksCalm
  <2>5. CASE RedispatchPromoted(d)
    <3>1. UNCHANGED <<group, task>> \/ Schedule(group)
      BY <2>5 DEF RedispatchPromoted, Done
    <3>. QED BY <1>1, <3>1, ScheduleCalm, SameTasksCalm
  <2>. QED BY <2>1, <2>2, <2>3, <2>4, <2>5
<1>. QED BY <1>2, <1>3, <1>4, <1>5 DEF CalmStep, Gone

\* Steps that end the record or drop its owner: only there is a host closed.
LEMMA EndCalm ==
  ASSUME OwnerInv, HostTypes, Shape, Gone, NEW d \in Devices,
         CheckOwner(d) \/ NothingToPromote(d) \/ StallEnd(d)
  PROVE  CalmStep
<1>1. SlotsType /\ WorkType /\ DOMAIN slot = Devices /\ DOMAIN group = Fields
  BY DEF OwnerInv, SlotsType, Shape
<1>2. \A e \in Devices : worker'[e] = worker[e] \/ worker'[e].pc # "start"
  BY <1>1, NothingStarts
<1>3. UNCHANGED <<route, begun>>
  BY DEF CheckOwner, NothingToPromote, StallEnd
<1>4. NoGroup.host = Nobody /\ NoGroup.owner = Nobody /\ ~NoGroup.here /\ DOMAIN NoGroup = Fields
  BY NoGroupIs DEF NoGroup
<1>5. ASSUME UNCHANGED <<slot, task, group, open>>
      PROVE  CalmStep
  BY <1>2, <1>3, <1>5, SameTasksCalm DEF CalmStep, Gone
<1>6. CASE CheckOwner(d)
  <2>1. UNCHANGED <<slot, task>>
    BY <1>6 DEF CheckOwner
  <2>2. CASE IsLive(d)
    BY <1>5, <1>6, <2>1, <2>2 DEF CheckOwner
  <2>3. CASE ~IsLive(d)
    <3>. DEFINE g == [group EXCEPT !.excluded = @ \ {d},
                                   !.owner = IF group.owner = d THEN Nobody ELSE @,
                                   !.cast = IF group.owner = d THEN <<>> ELSE @,
                                   !.host = IF group.owner = d THEN Nobody ELSE @]
    <3>1. /\ group' = IF IsEmpty(g) THEN NoGroup ELSE g
          /\ open' = open \ (IF group.owner = d \/ IsEmpty(g) THEN {group.host} ELSE {})
      BY <1>6, <2>3 DEF CheckOwner, CloseHosts
    <3>2. /\ g.here = group.here
          /\ g.owner = IF group.owner = d THEN Nobody ELSE group.owner
          /\ g.host = IF group.owner = d THEN Nobody ELSE group.host
      BY <1>1 DEF Fields
    <3>. HIDE DEF g
    <3>3. CASE IsEmpty(g)
      <4>1. group' = NoGroup
        BY <3>1, <3>3
      <4>. QED BY <1>2, <1>3, <1>4, <2>1, <4>1, SameTasksCalm DEF CalmStep
    <3>4. CASE ~IsEmpty(g) /\ group.owner = d
      <4>1. group'.host = Nobody /\ group'.owner = Nobody
        BY <3>1, <3>2, <3>4
      <4>. QED BY <1>2, <1>3, <2>1, <4>1, SameTasksCalm DEF CalmStep
    <3>5. CASE ~IsEmpty(g) /\ group.owner # d
      <4>1. group'.host = group.host /\ group'.owner = group.owner /\ group'.here = group.here /\ open' = open \ {}
        BY <3>1, <3>2, <3>5
      <4>2. UNCHANGED open
        BY <4>1
      <4>. QED BY <1>2, <1>3, <2>1, <4>1, <4>2, SameTasksCalm DEF CalmStep, Gone
    <3>. QED BY <3>3, <3>4, <3>5
  <2>. QED BY <2>2, <2>3
<1>7. CASE NothingToPromote(d)
  <2>1. UNCHANGED slot
    BY <1>7 DEF NothingToPromote
  <2>2. ASSUME NEW g, DOMAIN g = Fields, Done(d, g)
        PROVE  TasksCalm /\ group'.host = g.host /\ group'.here = g.here /\ group'.owner = g.owner
    <3>1. Schedule(g) \/ (group' = g /\ UNCHANGED task)
      BY <2>2 DEF Done
    <3>. QED BY <2>2, <3>1, ScheduleCalm, SameTasksCalm
  <2>3. CASE Promotable
    <3>. DEFINE g == IF IsEmpty(group) THEN NoGroup ELSE [group EXCEPT !.host = Nobody]
    <3>1. group.owner = Nobody /\ Done(d, g)
      BY <1>7, <2>3 DEF NothingToPromote, Promotable
    <3>2. DOMAIN g = Fields /\ g.host = Nobody /\ g.owner = Nobody
      <4>1. DOMAIN [group EXCEPT !.host = Nobody] = Fields /\ [group EXCEPT !.host = Nobody].host = Nobody
            /\ [group EXCEPT !.host = Nobody].owner = Nobody
        BY <1>1, <3>1 DEF Fields
      <4>. QED BY <1>4, <4>1
    <3>. HIDE DEF g
    <3>. QED BY <1>2, <1>3, <2>1, <2>2, <3>1, <3>2 DEF CalmStep
  <2>4. CASE ~Promotable
    <3>1. Done(d, group) /\ UNCHANGED open
      BY <1>7, <2>4 DEF NothingToPromote
    <3>. QED BY <1>1, <1>2, <1>3, <2>1, <2>2, <3>1 DEF CalmStep, Gone
  <2>. QED BY <2>3, <2>4
<1>8. CASE StallEnd(d)
  <2>1. UNCHANGED task
    BY <1>8 DEF StallEnd
  <2>2. CASE slot[d].grouped
    <3>1. group' = NoGroup /\ slot' = [EndGroupSlots EXCEPT ![d] = Idle]
      BY <1>8, <2>2 DEF StallEnd
    <3>2. \A e \in Devices : slot'[e] \in {Idle, slot[e]}
      BY <3>1 DEF EndGroupSlots
    <3>. QED BY <1>2, <1>3, <1>4, <2>1, <3>1, <3>2, SameTasksCalm, SlotsAre DEF CalmStep
  <2>3. CASE ~slot[d].grouped
    <3>1. slot' = [slot EXCEPT ![d] = Idle] /\ UNCHANGED <<group, open>>
      BY <1>8, <2>3 DEF StallEnd
    <3>2. \A e \in Devices : slot'[e] \in {Idle, slot[e]}
      BY <1>1, <3>1
    <3>. QED BY <1>2, <1>3, <2>1, <3>1, <3>2, SameTasksCalm, SlotsAre DEF CalmStep, Gone
  <2>. QED BY <2>2, <2>3
<1>. QED BY <1>6, <1>7, <1>8

\* Steps of a task but a plan that is due and the move itself.
LEMMA TaskCalm ==
  ASSUME OwnerInv, HostTypes, Shape, Gone, MoveInv, NEW t \in Tasks,
         \/ Wake(t) \/ (Plan(t) /\ ~PlanDue) \/ Send(t) \/ AnswerError(t) \/ Refuse(t) \/ Finish(t)
         \/ (Answer(t) /\ UNCHANGED faults) \/ (Answer(t) /\ Fault("refuse"))
  PROVE  CalmStep
<1>1. /\ UNCHANGED <<route, begun, open, slot, worker>> /\ DOMAIN group = Fields /\ DOMAIN task = Tasks
      /\ DOMAIN task[t] = TaskFields /\ task[t] = task[t]
  BY DEF Wake, Plan, Send, AnswerError, Refuse, Finish, Answer, members, cast, Shape, HostTypes
<1>2. group'.host = group.host /\ group'.here = group.here /\ group'.owner = group.owner
  <2>1. \/ UNCHANGED group \/ group' = [group EXCEPT !.dirty = FALSE] \/ group' = [group EXCEPT !.running = FALSE]
        \/ \E c, f, x : group' = [group EXCEPT !.cast = c, !.followers = f, !.excluded = x]
        \/ \E f, x : group' = [group EXCEPT !.followers = f, !.excluded = x]
    <3>1. CASE Wake(t) \/ Plan(t) \/ Send(t) \/ Refuse(t) \/ Finish(t)
      BY <3>1 DEF Wake, Plan, Send, Refuse, Finish, members
    <3>2. CASE AnswerError(t)
      BY <3>2 DEF AnswerError
    <3>3. CASE Answer(t)
      <4>1. PICK failed : \/ UNCHANGED group
                          \/ group' = [group EXCEPT !.cast = Confirms(t, failed), !.followers = Without(@, failed),
                                                    !.excluded = @ \cup failed]
        BY <3>3 DEF Answer
      <4>. QED BY <4>1
    <3>. QED BY <3>1, <3>2, <3>3
  <2>. QED BY <1>1, <2>1 DEF Fields
<1>3. ASSUME NEW y, task' = [task EXCEPT ![t] = y], LeavesTask(task[t], y)
      PROVE  TasksCalm
  BY <1>1, <1>3 DEF TasksCalm, LeavesTask, HostTypes
<1>4. /\ LeavesTask(task[t], NoTask)
      /\ LeavesTask(task[t], [NoTask EXCEPT !.pc = "finish"])
  BY DEF LeavesTask, NoTask, TaskFields, Asks, Moves
<1>5. ASSUME NEW pc, task' = [task EXCEPT ![t] = [task[t] EXCEPT !.pc = pc]],
             \/ pc \in {"plan", "sleep", "finish"}
             \/ pc = "sent" /\ task[t].pc = "flight"
             \/ pc = "move" /\ task[t].pc = "refused" /\ task[t].moved # Nobody
             \/ pc = "refused" /\ task[t].moved = Nobody
      PROVE  TasksCalm
  <2>1. /\ DOMAIN [task[t] EXCEPT !.pc = pc] = TaskFields
        /\ [task[t] EXCEPT !.pc = pc].pc = pc
        /\ [task[t] EXCEPT !.pc = pc].session = task[t].session
        /\ [task[t] EXCEPT !.pc = pc].owner = task[t].owner
        /\ [task[t] EXCEPT !.pc = pc].moved = task[t].moved
    BY <1>1 DEF TaskFields
  <2>2. LeavesTask(task[t], [task[t] EXCEPT !.pc = pc])
    BY <1>5, <2>1 DEF LeavesTask, Asks, Moves
  <2>. QED BY <1>3, <1>5, <2>2
<1>6. TasksCalm
  <2>1. CASE Wake(t)
    <3>1. \/ task' = [task EXCEPT ![t] = NoTask]
          \/ task' = [task EXCEPT ![t] = [task[t] EXCEPT !.pc = "plan"]]
      BY <2>1 DEF Wake, TaskTo
    <3>. QED BY <1>3, <1>4, <1>5, <3>1
  <2>2. CASE Plan(t) /\ ~PlanDue
    <3>1. task' = [task EXCEPT ![t] = [NoTask EXCEPT !.pc = "finish"]]
      BY <2>2 DEF Plan
    <3>. QED BY <1>3, <1>4, <3>1
  <2>3. CASE Send(t)
    <3>1. task[t].pc = "flight" /\ task' = [task EXCEPT ![t] = [task[t] EXCEPT !.pc = "sent"]]
      BY <2>3 DEF Send, TaskTo
    <3>. QED BY <1>5, <3>1
  <2>4. CASE Refuse(t)
    <3>1. /\ task[t].pc = "refused"
          /\ \/ task[t].moved # Nobody /\ task' = [task EXCEPT ![t] = [task[t] EXCEPT !.pc = "move"]]
             \/ task' = [task EXCEPT ![t] = [task[t] EXCEPT !.pc = "finish"]]
      BY <2>4 DEF Refuse, TaskTo
    <3>. QED BY <1>5, <3>1
  <2>5. CASE Finish(t)
    <3>1. \/ task' = [task EXCEPT ![t] = NoTask]
          \/ task' = [task EXCEPT ![t] = [task[t] EXCEPT !.pc = "sleep"]]
      BY <2>5 DEF Finish, TaskTo
    <3>. QED BY <1>3, <1>4, <1>5, <3>1
  <2>6. ASSUME NEW failed,
               task' = [task EXCEPT ![t].pc = "refused", ![t].failed = failed]
               \/ task' = [task EXCEPT ![t].pc = "refused", ![t].failed = failed, ![t].moved = Nobody],
               task[t].pc = "sent"
        PROVE  TasksCalm
    <3>1. task[t].moved = Nobody
      BY <2>6 DEF MoveInv, Asks
    <3>. DEFINE y == task'[t]
    <3>2. task' = [task EXCEPT ![t] = y]
      BY <1>1, <2>6
    <3>3. DOMAIN y = TaskFields /\ y.pc = "refused" /\ y.session = task[t].session /\ y.moved = Nobody
      BY <1>1, <2>6, <3>1 DEF TaskFields
    <3>4. LeavesTask(task[t], y)
      BY <3>3 DEF LeavesTask, Asks, Moves
    <3>. QED BY <1>3, <3>2, <3>4
  <2>7. CASE AnswerError(t)
    BY <2>6, <2>7 DEF AnswerError
  <2>8. CASE Answer(t) /\ (UNCHANGED faults \/ Fault("refuse"))
    <3>1. PICK failed \in SUBSET task[t].added, moved \in Hosts \cup {Nobody} :
            /\ \/ failed = {} /\ moved = Nobody /\ UNCHANGED faults
               \/ failed # {} /\ moved = Nobody /\ Fault("refuse")
               \/ failed = {} /\ moved # Nobody /\ Fault("move")
            /\ task' = [task EXCEPT ![t].pc = "refused", ![t].failed = failed, ![t].moved = moved]
      BY <2>8 DEF Answer
    <3>2. ~Fault("move")
      <4>1. faults \in [Kinds -> Nat] /\ {"move", "refuse"} \subseteq Kinds
        BY DEF OwnerInv, FaultType, Kinds
      <4>2. faults["move"] \in Nat
        BY <4>1
      <4>3. faults'["move"] = faults["move"]
        BY <2>8, <4>1 DEF Fault
      <4>4. ASSUME Fault("move")
            PROVE  faults'["move"] = faults["move"] + 1
        BY <4>1, <4>4 DEF Fault
      <4>. QED BY <4>2, <4>3, <4>4
    <3>3. moved = Nobody /\ task[t].pc = "sent"
      BY <2>8, <3>1, <3>2 DEF Answer
    <3>. QED BY <2>6, <3>1, <3>3
  <2>. QED BY <2>1, <2>2, <2>3, <2>4, <2>5, <2>7, <2>8
<1>. QED BY <1>1, <1>2, <1>6 DEF CalmStep, Gone

\* A start takes a session nobody has had, on the route it is given.
LEMMA AcceptKeeps ==
  ASSUME OwnerInv, HostTypes, SessionsInv, NEW d \in Devices, NEW k, NEW gr \in BOOLEAN, Accept(d, k, gr),
         UNCHANGED task
  PROVE  /\ HostTypes' /\ SessionsInv'
         /\ begun + 1 \in Sessions /\ route'[begun + 1] = k
         /\ \A s \in Sessions : s # begun + 1 => route'[s] = route[s]
         /\ worker'[d].session = begun + 1 /\ worker'[d].grouped = gr
         /\ \A e \in Devices : Runs(e)' => e # d /\ Runs(e) /\ slot'[e] = slot[e] /\ slot[e].session \in 1..begun
         /\ \A e \in Devices \ {d} : slot'[e] = slot[e] /\ worker'[e] = worker[e]
         /\ \A e \in Devices \ {d} : Starts(e) => worker[e].session \in 1..begun
<1>1. SlotsType /\ WorkType /\ DOMAIN slot = Devices /\ DOMAIN worker = Devices /\ ring[d] \in Nat
      /\ begun \in Nat /\ begun < MaxSessions /\ MaxSessions \in Nat
  BY BoundsAssumption DEF OwnerInv, SlotsType, WorkType, Accept, HostTypes
<1>2. begun' = begun + 1 /\ route' = [route EXCEPT ![begun + 1] = k]
      /\ slot' = [slot EXCEPT ![d] = Starting(ring[d])]
      /\ worker' = [worker EXCEPT ![d] = [At("start") EXCEPT !.session = begun + 1, !.grouped = gr]]
  BY DEF Accept, WorkerTo
<1>3. begun + 1 \in Sessions /\ begun + 1 \in 0..MaxSessions
  BY <1>1 DEF Sessions
<1>4. /\ slot'[d].st = "Starting"
      /\ worker'[d].session = begun + 1 /\ worker'[d].grouped = gr
      /\ \A e \in Devices \ {d} : slot'[e] = slot[e] /\ worker'[e] = worker[e]
  <2>1. [At("start") EXCEPT !.session = begun + 1, !.grouped = gr].session = begun + 1
        /\ [At("start") EXCEPT !.session = begun + 1, !.grouped = gr].grouped = gr
    BY DEF At, Resting
  <2>. QED BY <1>1, <1>2, <2>1, SlotsAre
<1>5. HostTypes'
  BY <1>2, <1>3 DEF HostTypes
<1>6. route'[begun + 1] = k /\ \A s \in Sessions : s # begun + 1 => route'[s] = route[s]
  BY <1>2, <1>3 DEF HostTypes
<1>7. \A e \in Devices : Runs(e)' => e # d /\ Runs(e) /\ slot'[e] = slot[e]
  BY <1>4 DEF Runs
<1>8. /\ \A e \in Devices : Runs(e) => slot[e].session \in 1..begun
      /\ \A e \in Devices : Starts(e) => worker[e].session \in 1..begun
      /\ \A t \in Tasks : task[t].session \in 0..begun
  BY DEF SessionsInv
<1>9. \A e \in Devices : Starts(e)' => e = d \/ (Starts(e) /\ worker'[e] = worker[e])
  BY <1>4 DEF Starts
<1>10. SessionsInv'
  <2>1. \A e \in Devices : Runs(e)' => slot'[e].session \in 1..begun'
    BY <1>1, <1>2, <1>7, <1>8
  <2>2. \A e, f \in Devices : Runs(e)' /\ Runs(f)' /\ slot'[e].session = slot'[f].session => e = f
    BY <1>7 DEF SessionsInv
  <2>3. \A e \in Devices : Starts(e)' => worker'[e].session \in 1..begun'
    BY <1>1, <1>2, <1>4, <1>8, <1>9
  <2>4. \A e, f \in Devices : Starts(e)' /\ Runs(f)' => slot'[f].session # worker'[e].session
    BY <1>1, <1>4, <1>7, <1>8, <1>9 DEF SessionsInv
  <2>5. \A e, f \in Devices : Starts(e)' /\ Starts(f)' /\ worker'[f].session = worker'[e].session => f = e
    BY <1>1, <1>4, <1>8, <1>9 DEF SessionsInv
  <2>6. \A e \in Devices, t \in Tasks : Starts(e)' => task'[t].session # worker'[e].session
    BY <1>1, <1>4, <1>8, <1>9 DEF SessionsInv
  <2>7. \A e \in Devices, t \in Tasks : Runs(e)' /\ task'[t].session = slot'[e].session => slot'[e].grouped
    BY <1>7 DEF SessionsInv
  <2>8. \A t \in Tasks : task'[t].session \in 0..begun'
    BY <1>1, <1>2, <1>8
  <2>. QED BY <2>1, <2>2, <2>3, <2>4, <2>5, <2>6, <2>7, <2>8 DEF SessionsInv
<1>. QED BY <1>3, <1>4, <1>5, <1>6, <1>7, <1>8, <1>10

\* No host is in use after a start, where none was and it starts on a speaker.
LEMMA StartMoves ==
  ASSUME MoveInv, NEW k, k \notin Hosts \/ ~NoHostUsed, UNCHANGED <<task, faults>>,
         begun + 1 \in Sessions, route'[begun + 1] = k,
         \A s \in Sessions : s # begun + 1 => route'[s] = route[s],
         NoHostUsed => group'.host = Nobody
  PROVE  MoveInv'
<1>1. NoHostUsed => NoHostUsed'
  BY DEF NoHostUsed
<1>2. NoneMoves <=> NoneMoves'
  BY DEF NoneMoves
<1>. QED BY <1>1, <1>2 DEF MoveInv

LEMMA StartAloneKeeps ==
  ASSUME OwnerInv, HostTypes, Shape, Gone, SessionsInv, MoveInv, RouteInv, NEW d \in Devices, StartAlone(d)
  PROVE  HostTypes' /\ Gone' /\ SessionsInv' /\ MoveInv' /\ RouteInv'
<1>1. Accept(d, d, FALSE) /\ UNCHANGED <<group, open, task, faults>>
  BY DEF StartAlone
<1>2. d \notin Hosts
  BY KeysAssumption
<1>3. /\ HostTypes' /\ SessionsInv'
      /\ begun + 1 \in Sessions /\ route'[begun + 1] = d
      /\ \A s \in Sessions : s # begun + 1 => route'[s] = route[s]
      /\ worker'[d].session = begun + 1
      /\ \A e \in Devices : Runs(e)' => e # d /\ Runs(e) /\ slot'[e] = slot[e] /\ slot[e].session \in 1..begun
      /\ \A e \in Devices \ {d} : slot'[e] = slot[e] /\ worker'[e] = worker[e]
      /\ \A e \in Devices \ {d} : Starts(e) => worker[e].session \in 1..begun
  BY <1>1, AcceptKeeps
<1>4. MoveInv'
  BY <1>1, <1>2, <1>3, StartMoves DEF NoHostUsed
<1>5. \A s \in 1..begun : s \in Sessions /\ s # begun + 1
  <2>1. begun \in Nat /\ begun <= MaxSessions /\ MaxSessions \in Nat
    BY BoundsAssumption DEF HostTypes
  <2>. QED BY <2>1 DEF Sessions
<1>6. RouteInv'
  <2>1. \A e \in Devices : Runs(e)' => route'[slot'[e].session] = route[slot[e].session]
    BY <1>3, <1>5
  <2>2. \A e \in Devices \ {d} : Starts(e)' => Starts(e) /\ route'[worker'[e].session] = route[worker[e].session]
    BY <1>3, <1>5 DEF Starts
  <2>3. route'[worker'[d].session] \notin Hosts
    BY <1>2, <1>3
  <2>. QED BY <1>1, <1>3, <2>1, <2>2, <2>3 DEF RouteInv
<1>. QED BY <1>1, <1>3, <1>4, <1>6 DEF Gone

\* An owner that restarts starts where the record says the session plays; a new one closes
\* what nobody uses, because the last one neither plays nor starts.
LEMMA EnterOwnerKeeps ==
  ASSUME OwnerInv, HostTypes, Shape, Gone, HolderInv, SessionsInv, MoveInv, RouteInv,
         NEW d \in Devices, EnterOwner(d)
  PROVE  HostTypes' /\ Gone' /\ SessionsInv' /\ MoveInv' /\ RouteInv'
<1>. DEFINE g == IF group.here THEN group ELSE NewGroup
<1>1. /\ Accept(d, LoadKey(d), TRUE) /\ CloseHosts(StaleHost(d)) /\ UNCHANGED <<task, faults>> /\ ~OwnerLive(d)
      /\ group' = [g EXCEPT !.owner = d, !.followers = Without(@, {d}),
                            !.promoting = IF @ = d THEN Nobody ELSE @,
                            !.cast = IF group.owner = d THEN @ ELSE <<>>,
                            !.host = IF group.owner = d THEN @ ELSE Nobody]
  BY DEF EnterOwner
<1>2. d \notin Hosts /\ d # Nobody /\ Nobody \notin Devices /\ DOMAIN group = Fields
  BY KeysAssumption, NobodyAssumption DEF Shape
<1>3. /\ HostTypes' /\ SessionsInv'
      /\ begun + 1 \in Sessions /\ route'[begun + 1] = LoadKey(d)
      /\ \A s \in Sessions : s # begun + 1 => route'[s] = route[s]
      /\ worker'[d].session = begun + 1 /\ worker'[d].grouped
      /\ \A e \in Devices : Runs(e)' => e # d /\ Runs(e) /\ slot'[e] = slot[e] /\ slot[e].session \in 1..begun
      /\ \A e \in Devices \ {d} : slot'[e] = slot[e] /\ worker'[e] = worker[e]
      /\ \A e \in Devices \ {d} : Starts(e) => worker[e].session \in 1..begun
  BY <1>1, AcceptKeeps
<1>4. group'.here /\ group'.host = IF group.owner = d THEN group.host ELSE Nobody
  <2>1. DOMAIN g = Fields /\ g.here
    BY <1>2, NoGroupIs DEF NewGroup, NoGroup
  <2>2. group.owner = d => g = group
    BY <1>2 DEF Gone
  <2>. HIDE DEF g
  <2>3. group'.here = g.here /\ group'.host = IF group.owner = d THEN g.host ELSE Nobody
    BY <1>1, <2>1 DEF Fields
  <2>. QED BY <2>1, <2>2, <2>3
<1>5. MoveInv'
  <2>1. NoHostUsed => LoadKey(d) = d /\ group'.host = Nobody
    BY <1>4 DEF NoHostUsed, LoadKey
  <2>. QED BY <1>1, <1>2, <1>3, <2>1, StartMoves
<1>6. \A s \in 1..begun : s \in Sessions /\ s # begun + 1
  <2>1. begun \in Nat /\ begun <= MaxSessions /\ MaxSessions \in Nat
    BY BoundsAssumption DEF HostTypes
  <2>. QED BY <2>1 DEF Sessions
\* Nobody else holds the group.
<1>7. ASSUME NEW e \in Devices \ {d}
      PROVE  ~Holds(e)
  <2>1. SUFFICES ASSUME Holds(e)
                 PROVE  FALSE
    OBVIOUS
  <2>2. group.owner = e /\ slot[e].st \in {"Starting", "Playing"}
    BY <2>1 DEF HolderInv, Holds
  <2>. QED BY <1>1, <1>2, <2>2 DEF OwnerLive
<1>8. RouteInv'
  <2>1. \A e \in Devices : Runs(e)' => route'[slot'[e].session] \notin Hosts
    BY <1>3, <1>6, <1>7 DEF RouteInv, Holds, Runs
  <2>2. \A e \in Devices \ {d} : slot'[e].st = "Starting" /\ Starts(e)' => route'[worker'[e].session] \notin Hosts
    BY <1>3, <1>6, <1>7 DEF RouteInv, Holds, Starts
  <2>3. route'[worker'[d].session] \in Hosts => worker'[d].grouped /\ route'[worker'[d].session] = group'.host
    BY <1>2, <1>3, <1>4 DEF LoadKey
  <2>4. group'.host # Nobody => group'.host \in open'
    BY <1>1, <1>4 DEF RouteInv, CloseHosts, StaleHost
  <2>. QED BY <2>1, <2>2, <2>3, <2>4 DEF RouteInv
<1>. QED BY <1>3, <1>4, <1>5, <1>8 DEF Gone

\* Playing is the session the worker started.
LEMMA InstallKeeps ==
  ASSUME OwnerInv, HostTypes, Shape, Gone, SessionsInv, MoveInv, RouteInv, NEW d \in Devices, Install(d)
  PROVE  HostTypes' /\ Gone' /\ SessionsInv' /\ MoveInv' /\ RouteInv'
<1>1. SlotsType /\ WorkType /\ DOMAIN slot = Devices /\ DOMAIN worker = Devices
  BY DEF OwnerInv, SlotsType, WorkType
<1>2. UNCHANGED <<group, route, begun, open, task, faults>> /\ Starts(d)
  BY DEF Install, cast, Starts
<1>3. \A e \in Devices : worker'[e] = worker[e] \/ ~Starts(e)'
  BY <1>1, NothingStarts DEF Starts
<1>4. \A e \in Devices \ {d} : slot'[e] = slot[e]
  BY <1>1 DEF Install
<1>5. ~Starts(d)'
  <2>1. \E pc \in {"playing", "check"} : WorkerTo(d, At(pc))
    BY DEF Install
  <2>. QED BY <1>1, <2>1, WorkIs DEF WorkerTo, Starts
<1>6. \/ slot'[d] = slot[d]
      \/ /\ slot[d].st = "Starting" /\ slot'[d].st = "Playing"
         /\ slot'[d].session = worker[d].session /\ slot'[d].grouped = worker[d].grouped
  <2>1. worker[d].session \in Nat /\ worker[d].grouped \in BOOLEAN /\ slot[d].ring \in Nat
    BY <1>1 DEF WorkType, IsWork, SlotsType, Slot
  <2>2. \/ slot'[d] = slot[d]
        \/ slot[d].st = "Starting" /\ slot'[d] = Playing(slot[d].ring, worker[d].session, worker[d].grouped)
    BY <1>1 DEF Install
  <2>. QED BY <2>1, <2>2 DEF Playing
<1>7. HostTypes' /\ Gone' /\ MoveInv'
  BY <1>2 DEF HostTypes, Gone, MoveInv, NoHostUsed, NoneMoves
<1>8. \A e \in Devices : Starts(e)' => e # d /\ Starts(e) /\ worker'[e] = worker[e]
  BY <1>3, <1>5 DEF Starts
<1>9. \A e \in Devices : Runs(e)' =>
        \/ Runs(e) /\ slot'[e] = slot[e]
        \/ /\ e = d /\ slot'[e].session = worker[e].session /\ slot'[e].grouped = worker[e].grouped
           /\ slot[e].st = "Starting"
  BY <1>4, <1>6 DEF Runs
<1>10. SessionsInv'
  <2>1. \A e \in Devices : Runs(e)' => slot'[e].session \in 1..begun'
    BY <1>2, <1>9 DEF SessionsInv
  <2>2. \A e, f \in Devices : Runs(e)' /\ Runs(f)' /\ slot'[e].session = slot'[f].session => e = f
    BY <1>2, <1>9 DEF SessionsInv
  <2>3. \A e \in Devices : Starts(e)' => worker'[e].session \in 1..begun'
    BY <1>2, <1>8 DEF SessionsInv
  <2>4. \A e, f \in Devices : Starts(e)' /\ Runs(f)' => slot'[f].session # worker'[e].session
    BY <1>2, <1>8, <1>9 DEF SessionsInv
  <2>5. \A e, f \in Devices : Starts(e)' /\ Starts(f)' /\ worker'[f].session = worker'[e].session => f = e
    BY <1>8 DEF SessionsInv
  <2>6. \A e \in Devices, t \in Tasks : Starts(e)' => task'[t].session # worker'[e].session
    BY <1>2, <1>8 DEF SessionsInv
  <2>7. \A e \in Devices, t \in Tasks : Runs(e)' /\ task'[t].session = slot'[e].session => slot'[e].grouped
    BY <1>2, <1>9 DEF SessionsInv
  <2>8. \A t \in Tasks : task'[t].session \in 0..begun'
    BY <1>2 DEF SessionsInv
  <2>. QED BY <2>1, <2>2, <2>3, <2>4, <2>5, <2>6, <2>7, <2>8 DEF SessionsInv
<1>11. RouteInv'
  <2>1. \A e \in Devices : Runs(e)' /\ route'[slot'[e].session] \in Hosts =>
          slot'[e].grouped /\ route'[slot'[e].session] = group'.host
    BY <1>2, <1>9 DEF RouteInv
  <2>2. \A e \in Devices : slot'[e].st = "Starting" /\ Starts(e)' /\ route'[worker'[e].session] \in Hosts =>
          worker'[e].grouped /\ route'[worker'[e].session] = group'.host
    BY <1>2, <1>4, <1>8 DEF RouteInv
  <2>. QED BY <1>2, <2>1, <2>2 DEF RouteInv
<1>. QED BY <1>7, <1>10, <1>11

\* The survivor plays the session the owner had, for the same group and on the same route.
LEMMA HandOverKeeps ==
  ASSUME OwnerInv, HostTypes, Shape, Gone, HolderInv, SessionsInv, MoveInv, RouteInv,
         faults["move"] \in Nat, NEW d \in Devices, HandOver(d)
  PROVE  HostTypes' /\ Gone' /\ SessionsInv' /\ MoveInv' /\ RouteInv'
<1>1. SlotsType /\ WorkType /\ DOMAIN slot = Devices /\ DOMAIN group = Fields
  BY DEF OwnerInv, SlotsType, Shape
<1>2. PICK f \in Survivors :
        /\ slot' = [slot EXCEPT ![d] = Idle, ![f] = Playing(slot[f].ring, slot[d].session, TRUE)]
        /\ Schedule([group EXCEPT !.owner = f, !.followers = Without(@, {f})])
  BY DEF HandOver
<1>3. /\ UNCHANGED <<route, begun, open, worker, faults>>
      /\ Runs(d) /\ slot[d].grouped /\ group.here
  BY DEF HandOver, cast, Owns, Runs
<1>4. f \in Devices /\ slot[f].st = "Following" /\ f # d
  BY <1>3 DEF Survivors, Runs
<1>5. TasksCalm /\ group'.host = group.host /\ group'.here
  <2>. DEFINE g == [group EXCEPT !.owner = f, !.followers = Without(@, {f})]
  <2>1. DOMAIN g = Fields /\ g.host = group.host /\ g.here
    BY <1>1, <1>3 DEF Fields
  <2>2. Schedule(g)
    BY <1>2
  <2>. HIDE DEF g
  <2>. QED BY <2>1, <2>2, ScheduleCalm
<1>6. /\ slot'[d].st = "Idle" /\ slot'[f].st = "Playing" /\ slot'[f].session = slot[d].session /\ slot'[f].grouped
      /\ \A e \in Devices \ {d, f} : slot'[e] = slot[e]
  BY <1>1, <1>2, <1>4, SlotsAre DEF Playing
\* Who plays now, played its session before, or took the owner's.
<1>. DEFINE was(e) == IF e = f THEN d ELSE e
<1>7. ASSUME NEW e \in Devices, Runs(e)'
      PROVE  /\ was(e) \in Devices /\ Runs(was(e)) /\ slot'[e].session = slot[was(e)].session
             /\ slot'[e].grouped = slot[was(e)].grouped /\ e # d
  <2>1. CASE e = f
    <3>1. slot[d].grouped = TRUE /\ slot'[f].grouped = TRUE
      <4>1. slot[d].grouped \in BOOLEAN
        BY <1>1 DEF SlotsType, Slot
      <4>2. slot' \in [Devices -> Slot]
        <5>1. slot[f].ring \in Nat /\ slot[d].session \in Nat
          BY <1>1, <1>4 DEF SlotsType, Slot
        <5>. QED BY <1>1, <1>2, <1>4, <5>1, SlotsAre DEF SlotsType
      <4>3. slot'[f].grouped \in BOOLEAN
        BY <1>4, <4>2 DEF Slot
      <4>. QED BY <1>3, <1>6, <4>1, <4>3
    <3>. QED BY <1>3, <1>4, <1>6, <2>1, <3>1
  <2>2. CASE e # f
    BY <1>6, <1>7, <2>2 DEF Runs
  <2>. QED BY <2>1, <2>2
<1>8. \A e, h \in Devices : Runs(e)' /\ Runs(h)' /\ was(e) = was(h) => e = h
  BY <1>7
<1>. HIDE DEF was
<1>9. /\ DOMAIN task' = Tasks /\ \A t \in Tasks : LeavesTask(task[t], task'[t])
      /\ \A t \in Tasks : task'[t].session = task[t].session \/ task'[t].session = 0
  BY <1>5 DEF TasksCalm, LeavesTask
<1>10. begun \in Nat /\ \A e \in Devices : Starts(e) => worker[e].session \in 1..begun
  BY DEF HostTypes, SessionsInv
<1>11. SessionsInv'
  <2>1. \A e \in Devices : Runs(e)' => slot'[e].session \in 1..begun'
    BY <1>3, <1>7 DEF SessionsInv
  <2>2. \A e, h \in Devices : Runs(e)' /\ Runs(h)' /\ slot'[e].session = slot'[h].session => e = h
    BY <1>7, <1>8 DEF SessionsInv
  <2>3. \A e \in Devices : Starts(e)' => worker'[e].session \in 1..begun'
    BY <1>3 DEF SessionsInv, Starts
  <2>4. \A e, h \in Devices : Starts(e)' /\ Runs(h)' => slot'[h].session # worker'[e].session
    BY <1>3, <1>7 DEF SessionsInv, Starts
  <2>5. \A e, h \in Devices : Starts(e)' /\ Starts(h)' /\ worker'[h].session = worker'[e].session => h = e
    BY <1>3 DEF SessionsInv, Starts
  <2>6. \A e \in Devices, t \in Tasks : Starts(e)' => task'[t].session # worker'[e].session
    BY <1>3, <1>9, <1>10 DEF SessionsInv, Starts
  <2>7. \A e \in Devices, t \in Tasks : Runs(e)' /\ task'[t].session = slot'[e].session => slot'[e].grouped
    <3>1. \A e \in Devices : Runs(e)' => slot'[e].session \in 1..begun
      BY <1>3, <2>1
    <3>. QED BY <1>7, <1>9, <1>10, <3>1 DEF SessionsInv
  <2>8. \A t \in Tasks : task'[t].session \in 0..begun'
    BY <1>3, <1>9, <1>10 DEF SessionsInv
  <2>. QED BY <2>1, <2>2, <2>3, <2>4, <2>5, <2>6, <2>7, <2>8 DEF SessionsInv
<1>12. MoveInv'
  <2>1. NoHostUsed => NoHostUsed'
    BY <1>3, <1>5 DEF NoHostUsed
  <2>2. NoneMoves => NoneMoves'
    BY <1>9 DEF NoneMoves, LeavesTask
  <2>3. \A t \in Tasks : Moves(task'[t]) => Moves(task[t]) /\ task'[t].owner = task[t].owner
    BY <1>9 DEF LeavesTask
  <2>4. \A t \in Tasks : Asks(task'[t]) =>
          Asks(task[t]) /\ task'[t].owner = task[t].owner /\ task'[t].moved = task[t].moved
    BY <1>9 DEF LeavesTask
  <2>. QED BY <1>3, <2>1, <2>2, <2>3, <2>4 DEF MoveInv
<1>13. RouteInv'
  <2>1. \A e \in Devices : Runs(e)' /\ route'[slot'[e].session] \in Hosts =>
          slot'[e].grouped /\ route'[slot'[e].session] = group'.host
    BY <1>3, <1>5, <1>7 DEF RouteInv
  <2>2. \A e \in Devices : slot'[e].st = "Starting" => slot'[e] = slot[e]
    BY <1>6
  <2>3. \A e \in Devices : slot'[e].st = "Starting" /\ Starts(e)' /\ route'[worker'[e].session] \in Hosts =>
          worker'[e].grouped /\ route'[worker'[e].session] = group'.host
    BY <1>3, <1>5, <2>2 DEF RouteInv, Starts
  <2>. QED BY <1>3, <1>5, <2>1, <2>3 DEF RouteInv
<1>14. HostTypes' /\ Gone'
  BY <1>3, <1>5, <1>9 DEF HostTypes, Gone, LeavesTask
<1>. QED BY <1>11, <1>12, <1>13, <1>14

\* A task is to ask for the session the owner plays.
LEMMA PlanKeeps ==
  ASSUME OwnerInv, HostTypes, Shape, Gone, SessionsInv, MoveInv, RouteInv, NEW t \in Tasks, Plan(t), PlanDue
  PROVE  HostTypes' /\ Gone' /\ SessionsInv' /\ MoveInv' /\ RouteInv'
<1>. DEFINE o == group.owner
            new == [NoTask EXCEPT !.pc = "flight", !.session = slot[group.owner].session,
                                  !.owner = group.owner, !.desired = Desired,
                                  !.added = ToSet(Desired) \ (ToSet(group.cast) \cup {group.owner})]
<1>1. /\ UNCHANGED <<route, begun, open, group, slot, worker, faults>>
      /\ task' = [task EXCEPT ![t] = new]
  BY DEF Plan, cast, members
<1>2. o \in Devices /\ Runs(o) /\ slot[o].grouped /\ o \notin Hosts
  BY KeysAssumption DEF PlanDue, GroupPlays, Shape, Runs
<1>3. DOMAIN new = TaskFields /\ new.session = slot[o].session /\ Asks(new) /\ ~Moves(new)
      /\ new.moved = Nobody /\ new.owner = o
  BY DEF NoTask, TaskFields, Asks, Moves
<1>. HIDE DEF new, o
<1>4. task'[t] = new /\ DOMAIN task' = Tasks /\ \A u \in Tasks \ {t} : task'[u] = task[u]
  BY <1>1 DEF HostTypes
<1>5. HostTypes' /\ Gone' /\ RouteInv'
  BY <1>1, <1>3, <1>4 DEF HostTypes, Gone, RouteInv, Runs, Starts
<1>6. begun \in Nat /\ slot[o].session \in 1..begun
  BY <1>2 DEF SessionsInv, HostTypes
<1>7. SessionsInv'
  <2>1. /\ \A e \in Devices : Runs(e)' <=> Runs(e)
        /\ \A e \in Devices : Starts(e)' <=> Starts(e)
    BY <1>1 DEF Runs, Starts
  <2>2. \A e \in Devices, u \in Tasks : Starts(e)' => task'[u].session # worker'[e].session
    BY <1>1, <1>2, <1>3, <1>4, <2>1 DEF SessionsInv
  <2>3. \A e \in Devices, u \in Tasks : Runs(e)' /\ task'[u].session = slot'[e].session => slot'[e].grouped
    BY <1>1, <1>2, <1>3, <1>4, <2>1 DEF SessionsInv
  <2>4. \A u \in Tasks : task'[u].session \in 0..begun'
    BY <1>1, <1>3, <1>4, <1>6 DEF SessionsInv
  <2>. QED BY <1>1, <2>1, <2>2, <2>3, <2>4 DEF SessionsInv
<1>8. MoveInv'
  <2>1. \A u \in Tasks : Moves(task'[u]) => u # t /\ Moves(task[u]) /\ task'[u] = task[u]
    BY <1>3, <1>4
  <2>2. \A u \in Tasks : Asks(task'[u]) => task'[u].moved = Nobody /\ task'[u].owner \notin Hosts
    BY <1>2, <1>3, <1>4 DEF MoveInv
  <2>3. NoneMoves => NoneMoves'
    BY <2>1 DEF NoneMoves
  <2>4. NoHostUsed' <=> NoHostUsed
    BY <1>1 DEF NoHostUsed
  <2>. QED BY <1>1, <2>1, <2>2, <2>3, <2>4 DEF MoveInv
<1>. QED BY <1>5, <1>7, <1>8

\* The first move finds no host in use.
LEMMA MoveAnswered ==
  ASSUME OwnerInv, HostTypes, Shape, Gone, SessionsInv, MoveInv, RouteInv, OneMove',
         NEW t \in Tasks, Answer(t), Fault("move")
  PROVE  HostTypes' /\ Gone' /\ SessionsInv' /\ MoveInv' /\ RouteInv'
<1>1. faults["move"] = 0 /\ faults'["move"] = 1
  <2>1. faults \in [Kinds -> Nat] /\ "move" \in Kinds
    BY DEF OwnerInv, FaultType, Kinds
  <2>2. faults["move"] \in Nat /\ faults'["move"] = faults["move"] + 1
    BY <2>1 DEF Fault
  <2>. QED BY <2>2 DEF OneMove
<1>2. NoHostUsed /\ NoneMoves
  BY <1>1 DEF MoveInv
<1>3. UNCHANGED <<route, begun, open, slot, worker>> /\ task[t].pc = "sent"
  BY DEF Answer, cast
<1>4. PICK failed, moved :
        /\ group' = IF group.here
                      THEN [group EXCEPT !.cast = Confirms(t, failed), !.followers = Without(@, failed),
                                         !.excluded = @ \cup failed]
                      ELSE group
        /\ task' = [task EXCEPT ![t].pc = "refused", ![t].failed = failed, ![t].moved = moved]
  BY DEF Answer
<1>5. group'.host = group.host /\ group'.here = group.here /\ group'.owner = group.owner
  BY <1>4 DEF Shape, Fields
<1>6. /\ DOMAIN task' = Tasks /\ DOMAIN task'[t] = TaskFields /\ \A u \in Tasks \ {t} : task'[u] = task[u]
      /\ task'[t].pc = "refused" /\ task'[t].session = task[t].session /\ task'[t].owner = task[t].owner
  BY <1>4 DEF HostTypes, TaskFields
<1>7. HostTypes' /\ Gone' /\ RouteInv'
  BY <1>3, <1>5, <1>6 DEF HostTypes, Gone, RouteInv, Runs, Starts
<1>8. SessionsInv'
  <2>1. /\ \A e \in Devices : Runs(e)' <=> Runs(e)
        /\ \A e \in Devices : Starts(e)' <=> Starts(e)
        /\ \A u \in Tasks : task'[u].session = task[u].session
    BY <1>3, <1>6 DEF Runs, Starts
  <2>. QED BY <1>3, <2>1 DEF SessionsInv
<1>9. MoveInv'
  <2>1. \A u \in Tasks : Moves(task'[u]) => u = t
    BY <1>2, <1>6 DEF NoneMoves
  <2>2. task'[t].owner \notin Hosts
    BY <1>3, <1>6 DEF MoveInv, Asks
  <2>3. NoHostUsed'
    BY <1>2, <1>3, <1>5 DEF NoHostUsed
  <2>4. \A u \in Tasks : Asks(task'[u]) => u # t /\ Asks(task[u]) /\ task'[u] = task[u]
    BY <1>6 DEF Asks
  <2>. QED BY <1>1, <2>1, <2>2, <2>3, <2>4 DEF MoveInv
<1>. QED BY <1>7, <1>8, <1>9

\* The move takes the session the owner plays, if it still does, to a host that is open.
LEMMA MoveKeeps ==
  ASSUME OwnerInv, HostTypes, Shape, Gone, HolderInv, SessionsInv, MoveInv, RouteInv,
         NEW t \in Tasks, Move(t) \/ MoveFails(t)
  PROVE  HostTypes' /\ Gone' /\ SessionsInv' /\ MoveInv' /\ RouteInv'
<1>. DEFINE s == task[t].session
            k == IF Move(t) THEN task[t].moved ELSE task[t].owner
<1>1. /\ UNCHANGED <<begun, slot, worker, faults>> /\ task[t].pc = "move"
      /\ route' = [route EXCEPT ![s] = k]
      /\ task' = [task EXCEPT ![t].pc = "finish"]
  BY DEF Move, MoveFails, TaskTo
<1>2. NoHostUsed /\ task[t].owner \notin Hosts /\ \A u \in Tasks : Moves(task[u]) => u = t
  BY <1>1 DEF MoveInv, Moves
<1>3. faults["move"] # 0
  BY <1>1 DEF MoveInv, NoneMoves, Moves
<1>4. /\ DOMAIN task' = Tasks /\ DOMAIN task'[t] = TaskFields /\ \A u \in Tasks \ {t} : task'[u] = task[u]
      /\ task'[t].pc = "finish" /\ task'[t].session = task[t].session
  BY <1>1 DEF HostTypes, TaskFields
<1>5. group'.here = group.here /\ group'.owner = group.owner
  <2>1. \/ UNCHANGED group
        \/ \E h : group' = [group EXCEPT !.host = h]
        \/ \E c, h : group' = [group EXCEPT !.cast = c, !.host = h]
    BY DEF Move, MoveFails
  <2>. QED BY <2>1 DEF Shape, Fields
<1>6. HostTypes' /\ Gone'
  BY <1>1, <1>4, <1>5 DEF HostTypes, Gone
<1>7. SessionsInv'
  <2>1. /\ \A e \in Devices : Runs(e)' <=> Runs(e)
        /\ \A e \in Devices : Starts(e)' <=> Starts(e)
        /\ \A u \in Tasks : task'[u].session = task[u].session
    BY <1>1, <1>4 DEF Runs, Starts
  <2>. QED BY <1>1, <2>1 DEF SessionsInv
<1>8. MoveInv'
  <2>1. \A u \in Tasks : ~Moves(task'[u])
    BY <1>2, <1>4 DEF Moves
  <2>2. \A u \in Tasks : Asks(task'[u]) => u # t /\ Asks(task[u]) /\ task'[u] = task[u]
    BY <1>4 DEF Asks
  <2>. QED BY <1>1, <1>3, <2>1, <2>2 DEF MoveInv
\* Whoever plays that session plays it for the group, so the record is there.
<1>9. ASSUME NEW e \in Devices, Runs(e), slot[e].session = s
      PROVE  slot[e].grouped /\ group.here
  <2>1. slot[e].grouped
    BY <1>9 DEF SessionsInv
  <2>2. group.owner = e
    BY <1>9, <2>1 DEF HolderInv, Holds, Runs
  <2>. QED BY <2>1, <2>2, NobodyAssumption DEF Gone
<1>10. \A e \in Devices : Starts(e) => worker[e].session # s
  BY DEF SessionsInv
<1>11. \A x \in 1..begun : x \in Sessions
  <2>1. begun \in Nat /\ begun <= MaxSessions /\ MaxSessions \in Nat
    BY BoundsAssumption DEF HostTypes
  <2>. QED BY <2>1 DEF Sessions
<1>12. \A x \in Sessions : route'[x] = (IF x = s THEN k ELSE route[x]) /\ route[x] \notin Hosts
  BY <1>1, <1>2 DEF HostTypes, NoHostUsed
<1>. HIDE DEF s, k
<1>13. /\ \A e \in Devices : Starts(e)' => route'[worker'[e].session] \notin Hosts
       /\ \A e \in Devices : Runs(e)' /\ route'[slot'[e].session] \in Hosts =>
            k \in Hosts /\ route'[slot'[e].session] = k /\ slot'[e].grouped /\ group.here
  <2>1. \A e \in Devices : Starts(e)' => worker'[e].session \in Sessions /\ worker'[e].session # s
    BY <1>1, <1>10, <1>11 DEF SessionsInv, Starts
  <2>2. \A e \in Devices : Runs(e)' => Runs(e) /\ slot'[e] = slot[e] /\ slot[e].session \in Sessions
    BY <1>1, <1>11 DEF SessionsInv, Runs
  <2>. QED BY <1>9, <1>12, <2>1, <2>2
<1>14. RouteInv'
  <2>1. CASE Move(t)
    <3>1. /\ group.here => group'.host = k
          /\ ~group.here => group'.host = Nobody
          /\ k \in open'
      BY <1>2, <2>1 DEF Move, k, Shape, Fields, NoHostUsed
    <3>. QED BY <1>13, <3>1 DEF RouteInv
  <2>2. CASE ~Move(t)
    <3>1. MoveFails(t) /\ k \notin Hosts
      BY <1>2, <2>2 DEF k
    <3>2. group'.host = Nobody
      BY <1>2, <3>1 DEF MoveFails, Shape, Fields, NoHostUsed
    <3>. QED BY <1>13, <3>1, <3>2 DEF RouteInv
  <2>. QED BY <2>1, <2>2
<1>. QED BY <1>6, <1>7, <1>8, <1>14

LEMMA HostStep == HostInv /\ [Next]_vars => HostInv'
<1>. SUFFICES ASSUME HostInv, [Next]_vars, OneMove'
              PROVE  HostTypes' /\ Gone' /\ SessionsInv' /\ MoveInv' /\ RouteInv'
  BY OwnerStep DEF HostInv
<1>1. OwnerInv /\ OwnerInv' /\ GrowsFaults /\ faults \in [Kinds -> Nat] /\ faults' \in [Kinds -> Nat]
      /\ {"steal", "move", "refuse"} \subseteq Kinds
  BY OwnerStep, FaultsKept DEF HostInv, OwnerInv, FaultType, Kinds
<1>2. /\ faults["steal"] = 0 /\ faults'["steal"] = 0 /\ faults["move"] \in Nat
      /\ faults'["move"] >= faults["move"] /\ OneMove
  <2>1. /\ faults["steal"] \in Nat /\ faults'["steal"] >= faults["steal"]
        /\ faults["move"] \in Nat /\ faults'["move"] \in Nat /\ faults'["move"] >= faults["move"]
    BY <1>1 DEF GrowsFaults
  <2>. QED BY <2>1 DEF OneMove
<1>3. /\ HostTypes /\ Gone /\ SessionsInv /\ MoveInv /\ RouteInv
      /\ Shape /\ HolderInv /\ HolderInv' /\ notices = {} /\ ~ending.on
  BY <1>1, <1>2 DEF HostInv, OwnerInv, StealInv
<1>4. ASSUME CalmStep
      PROVE  HostTypes' /\ Gone' /\ SessionsInv' /\ MoveInv' /\ RouteInv'
  BY <1>2, <1>3, <1>4, CalmKeeps, NobodyAssumption
<1>5. ASSUME NEW d \in Devices,
             \/ SkipStale(d) \/ EnterFollowing(d) \/ ScheduleJoin(d) \/ StartFails(d) \/ OwnerPlaying(d)
             \/ Promote(d) \/ RedispatchPromoted(d) \/ DropEnded(d) \/ EndFollowing(d) \/ LeaveFollowers(d)
             \/ EndPlaying(d) \/ Reloaded(d) \/ CloseStream(d) \/ OpenStream(d)
      PROVE  CalmStep
  BY <1>1, <1>3, <1>5, MemberCalm
<1>6. ASSUME NEW d \in Devices, CheckOwner(d) \/ NothingToPromote(d) \/ StallEnd(d)
      PROVE  CalmStep
  BY <1>1, <1>3, <1>6, EndCalm
<1>7. ASSUME NEW d \in Devices, StartAlone(d) \/ EnterOwner(d) \/ Install(d) \/ HandOver(d)
      PROVE  HostTypes' /\ Gone' /\ SessionsInv' /\ MoveInv' /\ RouteInv'
  BY <1>1, <1>2, <1>3, <1>7, StartAloneKeeps, EnterOwnerKeeps, InstallKeeps, HandOverKeeps
<1>8. ASSUME NEW t \in Tasks, Reconcile(t)
      PROVE  HostTypes' /\ Gone' /\ SessionsInv' /\ MoveInv' /\ RouteInv'
  <2>1. CASE Plan(t) /\ PlanDue
    BY <1>1, <1>3, <2>1, PlanKeeps
  <2>2. CASE Answer(t) /\ Fault("move")
    BY <1>1, <1>3, <2>2, MoveAnswered
  <2>3. CASE Move(t) \/ MoveFails(t)
    BY <1>1, <1>3, <2>3, MoveKeeps
  <2>4. CASE \/ Wake(t) \/ (Plan(t) /\ ~PlanDue) \/ Send(t) \/ AnswerError(t) \/ Refuse(t) \/ Finish(t)
             \/ (Answer(t) /\ UNCHANGED faults) \/ (Answer(t) /\ Fault("refuse"))
    BY <1>1, <1>3, <1>4, <2>4, TaskCalm
  <2>5. Answer(t) => UNCHANGED faults \/ Fault("refuse") \/ Fault("move")
    BY DEF Answer
  <2>. QED BY <1>8, <2>1, <2>2, <2>3, <2>4, <2>5 DEF Reconcile
<1>9. ASSUME NEW k, CastLost(k)
      PROVE  FALSE
  BY <1>1, <1>2, <1>9 DEF CastLost, Fault
<1>10. ASSUME NEW k, TakeLost(k)
       PROVE  FALSE
  BY <1>3, <1>10 DEF TakeLost
<1>11. ~EndLost
  BY <1>3 DEF EndLost
<1>12. CASE UNCHANGED vars
  BY <1>3, <1>4, <1>12, SameTasksCalm DEF CalmStep, Gone, vars, cast, members
<1>. QED BY <1>4, <1>5, <1>6, <1>7, <1>8, <1>9, <1>10, <1>11, <1>12 DEF Next, Worker

LEMMA HostInit == Init => HostInv
<1>. SUFFICES ASSUME Init
              PROVE  HostInv
  OBVIOUS
<1>1. OwnerInv
  BY OwnerInit
<1>2. /\ \A d \in Devices : ~Runs(d) /\ ~Starts(d) /\ slot[d].st = "Idle"
      /\ \A t \in Tasks : task[t] = NoTask
      /\ \A s \in Sessions : route[s] = Nobody
      /\ group.host = Nobody /\ group.owner = Nobody
  BY SlotsAre, WorkIs DEF Init, Runs, Starts, NoGroup
<1>3. NoTask.session = 0 /\ ~Asks(NoTask) /\ ~Moves(NoTask) /\ DOMAIN NoTask = TaskFields
  BY DEF NoTask, Asks, Moves, TaskFields
<1>4. HostTypes
  BY <1>2, <1>3, BoundsAssumption DEF Init, HostTypes
<1>5. SessionsInv
  BY <1>2, <1>3 DEF Init, SessionsInv
<1>6. MoveInv
  BY <1>2, <1>3, NobodyAssumption DEF MoveInv, NoHostUsed, NoneMoves
<1>7. Gone /\ RouteInv
  BY <1>2 DEF Gone, RouteInv
<1>. QED BY <1>1, <1>4, <1>5, <1>6, <1>7 DEF HostInv

\* Sessions, routes, hosts and the tasks that move them agree, in every behaviour.
THEOREM HostInvariant == Spec => []HostInv
BY HostInit, HostStep, PTL DEF Spec

\* For every number of members, hosts, streams, sessions, tasks and faults but a second move and
\* a theft: a session that plays through a session host has that host's worker.
THEOREM HostsStayOpen == Spec => []HostOpen
<1>1. HostInv => HostOpen
  BY NobodyAssumption DEF HostInv, HostOpen, OneMove, RouteInv, Runs
<1>. QED BY <1>1, HostInvariant, PTL

-----------------------------------------------------------------------------
(***************************************************************************)
(* Members that follow.  One that follows is in the record, or an event of *)
(* its own is on its way that makes it start again or end: its stream      *)
(* changed (Reported), or Cast refused it (Listed).                        *)
(***************************************************************************)
HereInv == ~group.here => group.owner = Nobody /\ ~group.running /\ ToSet(group.followers) = {}
RunInv  == group.running => \E t \in Tasks : task[t].pc # "off"
LeftInv == \A d \in Devices : worker[d].pc = "left" => ~IsFollowing(d)

StreamsInv == \A d \in Devices :
  /\ ring[d] <= opened
  /\ \A e \in ToSet(inbox[d]) : e.kind = "Started" => e.ring \in 1..opened
  /\ IsFollowing(d) => slot[d].ring \in 1..opened

Comes(d, e) == e \in ToSet(inbox[d])
Refused(d)  == \E t \in Tasks : task[t].pc = "refused" /\ d \in task[t].failed

Reported(d) == IsFollowing(d) /\ slot[d].ring # ring[d] => Comes(d, Ended) \/ Comes(d, Started(ring[d]))
Listed(d)   == IsFollowing(d) /\ slot[d].ring = ring[d] => InFollowers(d) \/ Refused(d) \/ Comes(d, Started(ring[d]))

RecordInv == HereInv /\ RunInv /\ LeftInv
FollowInv == StreamsInv /\ \A d \in Devices : Reported(d) /\ Listed(d)

LEMMA TailIs ==
  ASSUME NEW X, NEW q \in Seq(X), q # <<>>
  PROVE  /\ Head(q) \in ToSet(q) /\ Tail(q) \in Seq(X)
         /\ ToSet(Tail(q)) \subseteq ToSet(q) /\ ToSet(q) \subseteq {Head(q)} \cup ToSet(Tail(q))
<1>1. PICK n \in Nat : n = Len(q) /\ n > 0 /\ DOMAIN q = 1..n
  OBVIOUS
<1>2. /\ Head(q) = q[1] /\ Tail(q) \in Seq(X) /\ DOMAIN Tail(q) = 1..(n - 1)
      /\ \A i \in 1..(n - 1) : Tail(q)[i] = q[i + 1] /\ i + 1 \in 1..n
  BY <1>1
<1>3. Head(q) \in ToSet(q)
  <2>1. 1 \in DOMAIN q
    BY <1>1
  <2>. QED BY <1>2, <2>1 DEF ToSet
<1>4. ToSet(Tail(q)) \subseteq ToSet(q)
  BY <1>1, <1>2 DEF ToSet
<1>5. ASSUME NEW i \in 1..n, i # 1
      PROVE  q[i] \in ToSet(Tail(q))
  <2>1. i - 1 \in 1..(n - 1) /\ Tail(q)[i - 1] = q[i]
    <3>1. i - 1 \in 1..(n - 1) /\ (i - 1) + 1 = i
      BY <1>5
    <3>. QED BY <1>2, <3>1
  <2>. QED BY <1>2, <2>1 DEF ToSet
<1>6. ToSet(q) \subseteq {Head(q)} \cup ToSet(Tail(q))
  BY <1>1, <1>2, <1>5 DEF ToSet
<1>. QED BY <1>2, <1>3, <1>4, <1>6

\* The record and the set of its members, as a step leaves them.
LEMMA GroupIs ==
  ASSUME TypeOK
  PROVE  /\ group \in Records /\ group.followers \in Seq(Devices) /\ ToSet(group.followers) \subseteq Devices
         /\ \A S : Without(group.followers, S) \in Seq(Devices)
                   /\ ToSet(Without(group.followers, S)) = ToSet(group.followers) \ S
         /\ ToSet(<<>>) = {}
<1>1. group \in Records /\ group.followers \in Seq(Devices)
  BY DEF TypeOK, Records
<1>2. ToSet(group.followers) \subseteq Devices
  BY <1>1 DEF ToSet
<1>3. ToSet(<<>>) = {}
  BY DEF ToSet
<1>. QED BY <1>1, <1>2, <1>3, WithoutIs

LEMMA SchedulesIs ==
  ASSUME TypeOK, NEW g \in Records, Schedule(g) \/ (group' = g /\ UNCHANGED task),
         g.running => \E t \in Tasks : task[t].pc # "off"
  PROVE  /\ group' \in Records
         /\ group'.here = g.here /\ group'.owner = g.owner /\ group'.followers = g.followers
         /\ group'.cast = g.cast /\ group'.excluded = g.excluded /\ group'.promoting = g.promoting
         /\ group'.running => \E t \in Tasks : task'[t].pc # "off"
         /\ ~g.here => group' = g
         /\ \A t \in Tasks : task'[t] = task[t] \/ (task[t].pc = "off" /\ task'[t].pc = "sleep")
         /\ Schedule(g) /\ g.here => \/ \E t \in Tasks : task'[t].pc = "sleep"
                                     \/ \E t \in Tasks : task'[t].pc # "off" /\ group'.dirty
<1>. DEFINE x == [NoTask EXCEPT !.pc = "sleep"]
<1>1. x \in Passes /\ x.pc = "sleep" /\ task \in [Tasks -> Passes]
  BY ValuesTyped DEF Passes, TypeOK
<1>2. CASE group' = g /\ UNCHANGED task /\ ~(Schedule(g) /\ g.here)
  BY <1>2
<1>3. CASE Schedule(g) /\ ~g.here
  BY <1>3 DEF Schedule
<1>4. CASE Schedule(g) /\ g.here /\ g.running
  <2>1. group' = [g EXCEPT !.dirty = TRUE] /\ UNCHANGED task
    BY <1>4 DEF Schedule
  <2>. QED BY <1>4, <2>1 DEF Records
<1>5. CASE Schedule(g) /\ g.here /\ ~g.running
  <2>1. group' = [g EXCEPT !.running = TRUE, !.dirty = FALSE]
    BY <1>5 DEF Schedule
  <2>2. PICK t \in Tasks : task[t].pc = "off" /\ task' = [task EXCEPT ![t] = x]
    BY <1>5 DEF Schedule
  <2>3. /\ \A u \in Tasks : task'[u] = task[u] \/ (task[u].pc = "off" /\ task'[u].pc = "sleep")
        /\ task'[t].pc = "sleep"
    <3>. HIDE DEF x
    <3>. QED BY <1>1, <2>2
  <2>4. /\ group' \in Records
        /\ group'.here = g.here /\ group'.owner = g.owner /\ group'.followers = g.followers
        /\ group'.cast = g.cast /\ group'.excluded = g.excluded /\ group'.promoting = g.promoting
    BY <2>1 DEF Records
  <2>. QED BY <1>5, <2>3, <2>4
<1>. QED BY <1>2, <1>3, <1>4, <1>5

\* Who follows did so before, or enters now.
LEMMA SlotsFollow ==
  ASSUME TypeInv, [Next]_vars, NEW d \in Devices, slot'[d].st = "Following"
  PROVE  slot'[d] = slot[d] \/ EnterFollowing(d)
<1>. DEFINE Goal == slot'[d] = slot[d] \/ EnterFollowing(d)
<1>1. TypeOK /\ slot \in [Devices -> Slots] /\ DOMAIN slot = Devices
  BY DEF TypeInv, TypeOK
<1>2. ASSUME UNCHANGED slot
      PROVE  Goal
  BY <1>2
<1>3. ASSUME NEW e, NEW x, x.st # "Following", slot' = [slot EXCEPT ![e] = x]
      PROVE  Goal
  BY <1>1, <1>3
<1>4. Idle.st # "Following" /\ (\A r : Starting(r).st # "Following") /\ (\A r, s, g : Playing(r, s, g).st # "Following")
  BY DEF Idle, Starting, Playing
<1>5. ASSUME NEW e \in Devices, StartAlone(e) \/ EnterOwner(e)
      PROVE  Goal
  <2>1. slot' = [slot EXCEPT ![e] = Starting(ring[e])]
    BY <1>5 DEF StartAlone, EnterOwner, Accept
  <2>. QED BY <1>3, <1>4, <2>1
<1>6. ASSUME NEW e \in Devices, EnterFollowing(e)
      PROVE  Goal
  <2>1. slot' = [slot EXCEPT ![e] = Following(ring[e])]
    BY <1>6 DEF EnterFollowing
  <2>. QED BY <1>1, <1>6, <2>1
<1>7. ASSUME NEW e \in Devices, StartFails(e) \/ EndFollowing(e) \/ EndPlaying(e)
      PROVE  Goal
  <2>1. slot' = [slot EXCEPT ![e] = Idle] \/ slot' = [slot EXCEPT ![e] = slot[e]]
    BY <1>7 DEF StartFails, EndFollowing, EndPlaying
  <2>. QED BY <1>1, <1>3, <1>4, <2>1
<1>8. ASSUME NEW e \in Devices, Install(e)
      PROVE  Goal
  <2>1. UNCHANGED slot \/ \E r, s, g : slot' = [slot EXCEPT ![e] = Playing(r, s, g)]
    BY <1>8 DEF Install
  <2>. QED BY <1>2, <1>3, <1>4, <2>1
<1>9. ASSUME NEW e \in Devices, HandOver(e)
      PROVE  Goal
  <2>1. PICK f \in Devices : slot' = [slot EXCEPT ![e] = Idle, ![f] = Playing(slot[f].ring, slot[e].session, TRUE)]
    BY <1>9 DEF HandOver, Survivors
  <2>2. slot'[d] \in {slot[d], Idle, Playing(slot[f].ring, slot[e].session, TRUE)}
    BY <1>1, <2>1
  <2>. QED BY <1>4, <2>2
<1>10. EndGroupSlots[d] \in {Idle, slot[d]}
  BY DEF EndGroupSlots
<1>11. ASSUME NEW e \in Devices, StallEnd(e)
       PROVE  Goal
  <2>1. slot' = [EndGroupSlots EXCEPT ![e] = Idle] \/ slot' = [slot EXCEPT ![e] = Idle]
    BY <1>11 DEF StallEnd
  <2>2. DOMAIN EndGroupSlots = Devices
    BY DEF EndGroupSlots
  <2>. QED BY <1>1, <1>4, <1>10, <2>1, <2>2
<1>12. ASSUME NEW k, TakeLost(k)
       PROVE  Goal
  <2>1. UNCHANGED slot \/ \E e : slot' = [slot EXCEPT ![e] = Idle]
    BY <1>12 DEF TakeLost
  <2>. QED BY <1>2, <1>3, <1>4, <2>1
<1>13. CASE EndLost
  <2>1. UNCHANGED slot \/ slot' = EndGroupSlots
    BY <1>13 DEF EndLost, members
  <2>. QED BY <1>4, <1>10, <2>1
<1>14. ASSUME NEW e \in Devices,
              \/ SkipStale(e) \/ ScheduleJoin(e) \/ OwnerPlaying(e) \/ CheckOwner(e) \/ Promote(e)
              \/ NothingToPromote(e) \/ RedispatchPromoted(e) \/ DropEnded(e) \/ LeaveFollowers(e) \/ Reloaded(e)
              \/ OpenStream(e) \/ CloseStream(e)
       PROVE  UNCHANGED slot
  BY <1>14 DEF SkipStale, ScheduleJoin, OwnerPlaying, CheckOwner, Promote, NothingToPromote, OpenStream, CloseStream,
       RedispatchPromoted, DropEnded, LeaveFollowers, Reloaded, members
<1>15. ASSUME NEW t \in Tasks, Reconcile(t)
       PROVE  UNCHANGED slot
  BY <1>15 DEF Reconcile, Wake, Plan, Send, Answer, AnswerError, Refuse, Move, MoveFails, Finish, members
<1>16. ASSUME NEW k, CastLost(k)
       PROVE  UNCHANGED slot
  BY <1>16 DEF CastLost, members
<1>17. CASE UNCHANGED vars
  BY <1>17 DEF vars, members
<1>. QED BY <1>2, <1>5, <1>6, <1>7, <1>8, <1>9, <1>11, <1>12, <1>13, <1>14, <1>15, <1>16, <1>17 DEF Next, Worker

LEMMA LeftKept == TypeInv /\ LeftInv /\ [Next]_vars => LeftInv'
<1>. SUFFICES ASSUME TypeInv, LeftInv, [Next]_vars, NEW d \in Devices, worker'[d].pc = "left", slot'[d].st = "Following"
              PROVE  FALSE
  BY DEF LeftInv, IsFollowing
<1>1. TypeOK /\ worker \in [Devices -> Workers] /\ DOMAIN slot = Devices
  BY DEF TypeInv, TypeOK
<1>2. ASSUME NEW e \in Devices, NEW w, WorkerTo(e, w), w.pc # "left"
      PROVE  worker'[d] = worker[d] /\ d # e
  BY <1>1, <1>2 DEF WorkerTo
<1>3. ASSUME worker'[d] = worker[d]
      PROVE  FALSE
  <2>1. slot[d].st # "Following"
    BY <1>3 DEF LeftInv, IsFollowing
  <2>2. EnterFollowing(d)
    BY <2>1, SlotsFollow
  <2>3. WorkerTo(d, At("joined")) /\ At("joined").pc = "joined"
    BY <2>2, ValuesTyped DEF EnterFollowing
  <2>. QED BY <1>2, <2>3
<1>4. ASSUME NEW e \in Devices, EndFollowing(e)
      PROVE  FALSE
  <2>1. CASE e = d
    <3>1. slot'[d] = Idle
      BY <1>1, <1>4, <2>1 DEF EndFollowing
    <3>. QED BY <3>1 DEF Idle
  <2>2. CASE e # d
    <3>1. worker'[d] = worker[d]
      BY <1>1, <1>4, <2>2 DEF EndFollowing, WorkerTo
    <3>. QED BY <1>3, <3>1
  <2>. QED BY <2>1, <2>2
<1>5. ASSUME NEW e \in Devices, Worker(e), ~EndFollowing(e)
      PROVE  FALSE
  <2>1. CASE StartAlone(e) \/ EnterOwner(e)
    <3>1. PICK g : WorkerTo(e, [At("start") EXCEPT !.session = begun + 1, !.grouped = g])
      BY <2>1 DEF StartAlone, EnterOwner, Accept
    <3>2. [At("start") EXCEPT !.session = begun + 1, !.grouped = g].pc = "start"
      BY DEF At, Resting
    <3>. QED BY <1>2, <1>3, <3>1, <3>2
  <2>2. CASE Promote(e)
    <3>1. WorkerTo(e, [worker[e] EXCEPT !.pc = "redispatch", !.who = Head(group.followers)])
      BY <2>2 DEF Promote
    <3>2. [worker[e] EXCEPT !.pc = "redispatch", !.who = Head(group.followers)].pc = "redispatch"
      BY <1>1 DEF Workers
    <3>. QED BY <1>2, <1>3, <3>1, <3>2
  <2>3. CASE LeaveFollowers(e)
    <3>1. WorkerTo(e, [At("promote") EXCEPT !.then = TRUE]) /\ [At("promote") EXCEPT !.then = TRUE].pc = "promote"
      BY <2>3 DEF LeaveFollowers, At, Resting
    <3>. QED BY <1>2, <1>3, <3>1
  <2>4. CASE \/ SkipStale(e) \/ EnterFollowing(e) \/ ScheduleJoin(e) \/ StartFails(e) \/ Install(e)
             \/ OwnerPlaying(e) \/ EndPlaying(e) \/ CheckOwner(e) \/ NothingToPromote(e) \/ RedispatchPromoted(e)
    <3>1. WorkerTo(e, Resting) \/ \E pc \in {"playing", "joined", "check", "promote"} : WorkerTo(e, At(pc))
      BY <2>4 DEF SkipStale, EnterFollowing, ScheduleJoin, StartFails, Install, OwnerPlaying, EndPlaying,
                  CheckOwner, AfterCheck, NothingToPromote, RedispatchPromoted, Done
    <3>2. Resting.pc # "left" /\ \A pc : At(pc).pc = pc
      BY DEF Resting, At
    <3>. QED BY <1>2, <1>3, <3>1, <3>2
  <2>5. CASE DropEnded(e) \/ HandOver(e)
    BY <1>3, <2>5 DEF DropEnded, HandOver
  <2>. QED BY <1>5, <2>1, <2>2, <2>3, <2>4, <2>5 DEF Worker
<1>6. ASSUME NEW e \in Devices, Reloaded(e) \/ StallEnd(e) \/ CloseStream(e) \/ OpenStream(e)
      PROVE  FALSE
  BY <1>3, <1>6 DEF Reloaded, StallEnd, CloseStream, OpenStream
<1>7. ASSUME NEW t \in Tasks, Reconcile(t)
      PROVE  FALSE
  BY <1>3, <1>7 DEF Reconcile, Wake, Plan, Send, Answer, AnswerError, Refuse, Move, MoveFails, Finish
<1>8. ASSUME NEW k, CastLost(k) \/ TakeLost(k)
      PROVE  FALSE
  BY <1>3, <1>8 DEF CastLost, TakeLost
<1>9. CASE EndLost \/ UNCHANGED vars
  BY <1>3, <1>9 DEF EndLost, vars
<1>. QED BY <1>4, <1>5, <1>6, <1>7, <1>8, <1>9 DEF Next

\* What the steps of a task make of it; the other tasks stay as they are.
OthersStay(t) == \A u \in Tasks \ {t} : task'[u] = task[u]
SamePlan(x, y) == y.desired = x.desired /\ y.added = x.added

LEMMA PlanIs ==
  ASSUME TypeOK, NEW t \in Tasks, Plan(t)
  PROVE  /\ OthersStay(t) /\ task'[t].failed = {}
         /\ PlanDue => /\ task'[t].pc = "flight" /\ task'[t].desired = Desired
                       /\ task'[t].added = ToSet(Desired) \ (ToSet(group.cast) \cup {group.owner})
         /\ ~PlanDue => task'[t].pc = "finish"
<1>1. task \in [Tasks -> Passes]
  BY DEF TypeOK
<1>2. CASE PlanDue
  <2>. DEFINE x == [NoTask EXCEPT !.pc = "flight", !.session = slot[group.owner].session,
                                  !.owner = group.owner, !.desired = Desired,
                                  !.added = ToSet(Desired) \ (ToSet(group.cast) \cup {group.owner})]
  <2>1. task' = [task EXCEPT ![t] = x]
    BY <1>2 DEF Plan
  <2>2. /\ x.pc = "flight" /\ x.desired = Desired /\ x.failed = {}
        /\ x.added = ToSet(Desired) \ (ToSet(group.cast) \cup {group.owner})
    BY DEF NoTask
  <2>. HIDE DEF x
  <2>. QED BY <1>1, <1>2, <2>1, <2>2 DEF OthersStay
<1>3. CASE ~PlanDue
  <2>. DEFINE x == [NoTask EXCEPT !.pc = "finish"]
  <2>1. task' = [task EXCEPT ![t] = x] /\ x.pc = "finish" /\ x.failed = {}
    BY <1>3 DEF Plan, NoTask
  <2>. HIDE DEF x
  <2>. QED BY <1>1, <1>3, <2>1 DEF OthersStay
<1>. QED BY <1>2, <1>3

LEMMA StepsOn ==
  ASSUME TypeOK, NEW t \in Tasks, Send(t) \/ Refuse(t) \/ Move(t) \/ MoveFails(t)
  PROVE  /\ OthersStay(t) /\ SamePlan(task[t], task'[t]) /\ task'[t].failed = task[t].failed
         /\ Send(t) => task[t].pc = "flight" /\ task'[t].pc = "sent"
         /\ ~Send(t) => task[t].pc \in {"refused", "move"} /\ task'[t].pc \in {"move", "finish"}
<1>1. task \in [Tasks -> Passes]
  BY DEF TypeOK
<1>2. ASSUME NEW pc, task' = [task EXCEPT ![t].pc = pc]
      PROVE  OthersStay(t) /\ SamePlan(task[t], task'[t]) /\ task'[t].failed = task[t].failed /\ task'[t].pc = pc
  BY <1>1, <1>2 DEF OthersStay, SamePlan, Passes
<1>3. Send(t) => task[t].pc = "flight" /\ task' = [task EXCEPT ![t].pc = "sent"]
  BY DEF Send, TaskTo
<1>4. CASE ~Send(t)
  <2>1. \E pc \in {"move", "finish"} : task' = [task EXCEPT ![t].pc = pc]
    BY <1>4 DEF Refuse, Move, MoveFails, TaskTo
  <2>2. task[t].pc \in {"refused", "move"}
    BY <1>4 DEF Refuse, Move, MoveFails
  <2>. QED BY <1>2, <1>4, <2>1, <2>2
<1>. QED BY <1>2, <1>3, <1>4

LEMMA AnswerIs ==
  ASSUME TypeOK, NEW t \in Tasks, Answer(t) \/ AnswerError(t)
  PROVE  /\ OthersStay(t) /\ SamePlan(task[t], task'[t]) /\ task[t].pc = "sent" /\ task'[t].pc = "refused"
         /\ task'[t].failed \subseteq task[t].added
         /\ task'[t].failed # {} => Fault("refuse") \/ Fault("error")
         /\ UNCHANGED <<slot, worker>>
         /\ ~group.here => UNCHANGED group
         /\ group.here =>
              /\ group'.here /\ group'.owner = group.owner /\ group'.dirty = group.dirty
              /\ group'.promoting = group.promoting
              /\ ToSet(group'.followers) = ToSet(group.followers) \ task'[t].failed
              /\ group'.excluded = group.excluded \cup task'[t].failed
              /\ AnswerError(t) => group'.cast = group.cast /\ Fault("error") /\ task'[t].failed = task[t].added
              /\ ~AnswerError(t) => ToSet(group'.cast) = ToSet(task[t].desired) \ task'[t].failed
<1>1. task \in [Tasks -> Passes] /\ group \in Records
  BY DEF TypeOK
<1>2. task[t].pc = "sent" /\ UNCHANGED <<slot, worker>>
  BY DEF Answer, AnswerError
<1>3. \A S : ToSet(Without(group.followers, S)) = ToSet(group.followers) \ S
  BY GroupIs
<1>4. CASE AnswerError(t)
  <2>. DEFINE f == task[t].added
  <2>1. /\ group' = IF group.here
                      THEN [group EXCEPT !.followers = Without(@, f), !.excluded = @ \cup f]
                      ELSE group
        /\ task' = [task EXCEPT ![t].pc = "refused", ![t].failed = f] /\ Fault("error")
    BY <1>4 DEF AnswerError
  <2>2. OthersStay(t) /\ SamePlan(task[t], task'[t]) /\ task'[t].pc = "refused" /\ task'[t].failed = f
    BY <1>1, <2>1 DEF OthersStay, SamePlan, Passes
  <2>3. group.here =>
              /\ group'.here /\ group'.owner = group.owner /\ group'.dirty = group.dirty
              /\ group'.promoting = group.promoting /\ group'.cast = group.cast
              /\ group'.followers = Without(group.followers, f)
              /\ group'.excluded = group.excluded \cup f
    BY <1>1, <2>1 DEF Records
  <2>. QED BY <1>2, <1>3, <1>4, <2>1, <2>2, <2>3
<1>5. CASE ~AnswerError(t)
  <2>1. PICK f \in SUBSET task[t].added, m \in Hosts \cup {Nobody} :
          /\ f # {} => Fault("refuse")
          /\ group' = IF group.here
                     THEN [group EXCEPT !.cast = Confirms(t, f), !.followers = Without(@, f), !.excluded = @ \cup f]
                     ELSE group
          /\ task' = [task EXCEPT ![t].pc = "refused", ![t].failed = f, ![t].moved = m]
    BY <1>5 DEF Answer
  <2>2. OthersStay(t) /\ SamePlan(task[t], task'[t]) /\ task'[t].pc = "refused" /\ task'[t].failed = f
    BY <1>1, <2>1 DEF OthersStay, SamePlan, Passes
  <2>3. group.here =>
              /\ group'.here /\ group'.owner = group.owner /\ group'.dirty = group.dirty
              /\ group'.promoting = group.promoting /\ group'.cast = Confirms(t, f)
              /\ group'.followers = Without(group.followers, f)
              /\ group'.excluded = group.excluded \cup f
    BY <1>1, <2>1 DEF Records
  <2>4. ToSet(Confirms(t, f)) = ToSet(task[t].desired) \ f
    BY <1>1, WithoutIs DEF Confirms, Passes
  <2>. QED BY <1>2, <1>3, <1>5, <2>1, <2>2, <2>3, <2>4
<1>. QED BY <1>4, <1>5

\* Records that are not there hold nothing, and a running mark stands for a task.
Sound(g)   == ~g.here => g.owner = Nobody /\ ~g.running /\ ToSet(g.followers) = {}
SomeTask   == \E t \in Tasks : task[t].pc # "off"

LEMMA RecordKept == TypeInv /\ HereInv /\ RunInv /\ [Next]_vars => HereInv' /\ RunInv'
<1>. DEFINE Goal == HereInv' /\ RunInv'
<1>. SUFFICES ASSUME TypeInv, HereInv, RunInv, [Next]_vars
              PROVE  Goal
  OBVIOUS
<1>1. TypeOK /\ group \in Records /\ task \in [Tasks -> Passes]
  BY DEF TypeInv, TypeOK
<1>2. ToSet(<<>>) = {} /\ ToSet(group.followers) \subseteq Devices /\ group.followers \in Seq(Devices)
  BY <1>1, GroupIs
<1>3. \A S : Without(group.followers, S) \in Seq(Devices)
             /\ ToSet(Without(group.followers, S)) = ToSet(group.followers) \ S
  BY <1>1, GroupIs
<1>4. ASSUME NEW g \in Records, Schedule(g) \/ (group' = g /\ UNCHANGED task),
             Sound(g), g.running => SomeTask
      PROVE  Goal
  <2>1. /\ group'.here = g.here /\ group'.owner = g.owner /\ group'.followers = g.followers
        /\ group'.running => \E t \in Tasks : task'[t].pc # "off"
        /\ ~g.here => group' = g
    BY <1>1, <1>4, SchedulesIs DEF SomeTask
  <2>. QED BY <1>4, <2>1 DEF HereInv, RunInv, Sound
<1>5. Sound(group) /\ (group.running => SomeTask)
  BY DEF HereInv, RunInv, Sound, SomeTask
<1>6. ASSUME UNCHANGED <<group, task>>
      PROVE  Goal
  BY <1>1, <1>4, <1>5, <1>6
<1>7. ASSUME NEW g \in Records, group' = g, UNCHANGED task, Sound(g), g.running => group.running
      PROVE  Goal
  BY <1>4, <1>5, <1>7
<1>8. NoGroup \in Records /\ Sound(NoGroup) /\ ~NoGroup.running
  BY <1>2, ValuesTyped DEF NoGroup, Sound
<1>9. ASSUME NEW d \in Devices, EnterFollowing(d)
      PROVE  Goal
  <2>1. group' = [group EXCEPT !.followers = IF InFollowers(d) THEN @ ELSE Append(@, d)] /\ UNCHANGED task
        /\ group.owner # Nobody
    BY <1>9 DEF EnterFollowing, OwnerLive
  <2>2. group'.here = group.here /\ group'.running = group.running /\ group.here
    BY <1>1, <2>1 DEF Records, HereInv
  <2>. QED BY <2>1, <2>2 DEF HereInv, RunInv
<1>10. ASSUME NEW d \in Devices, EnterOwner(d)
       PROVE  Goal
  <2>. DEFINE g == IF group.here THEN group ELSE NewGroup
  <2>1. UNCHANGED task /\
        group' = [g EXCEPT !.owner = d, !.followers = Without(@, {d}),
                              !.promoting = IF @ = d THEN Nobody ELSE @,
                              !.cast = IF group.owner = d THEN @ ELSE <<>>,
                              !.host = IF group.owner = d THEN @ ELSE Nobody]
    BY <1>10 DEF EnterOwner
  <2>2. g \in Records /\ g.here /\ (g.running => group.running)
    BY <1>1, ValuesTyped DEF NewGroup, NoGroup
  <2>. HIDE DEF g
  <2>3. group'.here /\ group'.running = g.running
    BY <2>1, <2>2 DEF Records
  <2>. QED BY <2>1, <2>2, <2>3 DEF HereInv, RunInv
<1>11. ASSUME NEW d \in Devices, ScheduleJoin(d) \/ RedispatchPromoted(d)
       PROVE  Goal
  BY <1>1, <1>4, <1>5, <1>11 DEF ScheduleJoin, RedispatchPromoted, Done
<1>12. ASSUME NEW d \in Devices, OwnerPlaying(d) \/ Reloaded(d)
       PROVE  Goal
  <2>1. /\ Confirmed(group, d) \in Records
        /\ Confirmed(group, d).here = group.here /\ Confirmed(group, d).owner = group.owner
        /\ Confirmed(group, d).followers = group.followers /\ Confirmed(group, d).running = group.running
    BY <1>1, ConfirmedTyped DEF Confirmed, Records
  <2>2. Sound(Confirmed(group, d)) /\ (Confirmed(group, d).running => SomeTask)
    BY <1>5, <2>1 DEF Sound
  <2>3. UNCHANGED <<group, task>> \/ Schedule(Confirmed(group, d))
    BY <1>12 DEF OwnerPlaying, Reloaded
  <2>. QED BY <1>4, <1>6, <2>1, <2>2, <2>3
<1>13. ASSUME NEW d \in Devices, CheckOwner(d)
       PROVE  Goal
  <2>. DEFINE g == [group EXCEPT !.excluded = @ \ {d},
                                 !.owner = IF group.owner = d THEN Nobody ELSE @,
                                 !.cast = IF group.owner = d THEN <<>> ELSE @,
                                 !.host = IF group.owner = d THEN Nobody ELSE @]
  <2>1. group' \in {group, NoGroup, g} /\ UNCHANGED task
    BY <1>13 DEF CheckOwner
  <2>2. <<>> \in Seq(Devices)
    OBVIOUS
  <2>3. g \in Records /\ g.here = group.here /\ g.running = group.running /\ g.followers = group.followers
        /\ g.owner \in {group.owner, Nobody}
    BY <1>1, <2>2 DEF Records
  <2>. HIDE DEF g
  <2>4. Sound(g)
    BY <1>5, <2>3 DEF Sound
  <2>. QED BY <1>1, <1>5, <1>7, <1>8, <2>1, <2>3, <2>4
<1>14. ASSUME NEW d \in Devices, Promote(d)
       PROVE  Goal
  <2>1. group' = [group EXCEPT !.promoting = Head(group.followers)] /\ UNCHANGED task
    BY <1>14 DEF Promote
  <2>2. group'.here = group.here /\ group'.owner = group.owner /\ group'.followers = group.followers
        /\ group'.running = group.running
    BY <1>1, <2>1 DEF Records
  <2>. QED BY <2>1, <2>2 DEF HereInv, RunInv
<1>15. ASSUME NEW d \in Devices, NothingToPromote(d)
       PROVE  Goal
  <2>. DEFINE g == [group EXCEPT !.host = Nobody]
  <2>1. g \in Records /\ g.here = group.here /\ g.running = group.running /\ g.followers = group.followers
        /\ g.owner = group.owner
    BY <1>1 DEF Records
  <2>2. Done(d, group) \/ Done(d, NoGroup) \/ Done(d, g)
    BY <1>15 DEF NothingToPromote
  <2>. HIDE DEF g
  <2>3. Sound(g)
    BY <1>5, <2>1 DEF Sound
  <2>. QED BY <1>1, <1>4, <1>5, <1>8, <2>1, <2>2, <2>3 DEF Done
<1>16. ASSUME NEW d \in Devices, LeaveFollowers(d)
       PROVE  Goal
  <2>1. group' = [group EXCEPT !.followers = Without(@, {d})] /\ UNCHANGED task
    BY <1>16 DEF LeaveFollowers
  <2>2. group'.here = group.here /\ group'.owner = group.owner /\ group'.running = group.running
        /\ ToSet(group'.followers) \subseteq ToSet(group.followers)
    BY <1>1, <1>3, <2>1 DEF Records
  <2>. QED BY <2>1, <2>2 DEF HereInv, RunInv
<1>17. ASSUME NEW d \in Devices, HandOver(d)
       PROVE  Goal
  <2>1. group.here /\ \E f \in Devices : Schedule([group EXCEPT !.owner = f, !.followers = Without(@, {f})])
    BY <1>17 DEF HandOver, Survivors, Owns
  <2>2. PICK f \in Devices : Schedule([group EXCEPT !.owner = f, !.followers = Without(@, {f})])
    BY <2>1
  <2>3. /\ [group EXCEPT !.owner = f, !.followers = Without(@, {f})] \in Records
        /\ [group EXCEPT !.owner = f, !.followers = Without(@, {f})].here
        /\ [group EXCEPT !.owner = f, !.followers = Without(@, {f})].running = group.running
    BY <1>1, <1>3, <2>1 DEF Records
  <2>. QED BY <1>4, <1>5, <2>2, <2>3 DEF Sound
<1>18. ASSUME NEW d \in Devices, StallEnd(d)
       PROVE  Goal
  <2>1. group' \in {group, NoGroup} /\ UNCHANGED task
    BY <1>18 DEF StallEnd
  <2>. QED BY <1>1, <1>5, <1>7, <1>8, <2>1
<1>19. ASSUME NEW t \in Tasks, Wake(t)
       PROVE  Goal
  <2>1. CASE group.here
    <3>1. group' = [group EXCEPT !.dirty = FALSE] /\ task' = [task EXCEPT ![t].pc = "plan"]
      BY <1>19, <2>1 DEF Wake, TaskTo
    <3>2. group'.here /\ task'[t].pc = "plan"
      BY <1>1, <2>1, <3>1 DEF Records, Passes
    <3>. QED BY <3>2 DEF HereInv, RunInv
  <2>2. CASE ~group.here
    <3>1. UNCHANGED group
      BY <1>19, <2>2 DEF Wake
    <3>. QED BY <2>2, <3>1 DEF HereInv, RunInv
  <2>. QED BY <2>1, <2>2
<1>20. ASSUME NEW t \in Tasks, Finish(t)
       PROVE  Goal
  <2>1. CASE group.here /\ group.dirty
    <3>1. UNCHANGED group /\ task' = [task EXCEPT ![t].pc = "sleep"]
      BY <1>20, <2>1 DEF Finish, TaskTo
    <3>2. task'[t].pc = "sleep"
      BY <1>1, <3>1 DEF Passes
    <3>. QED BY <2>1, <3>1, <3>2 DEF HereInv, RunInv
  <2>2. CASE group.here /\ ~group.dirty
    <3>1. group' = [group EXCEPT !.running = FALSE]
      BY <1>20, <2>2 DEF Finish
    <3>2. group'.here /\ ~group'.running
      BY <1>1, <2>2, <3>1 DEF Records
    <3>. QED BY <3>2 DEF HereInv, RunInv
  <2>3. CASE ~group.here
    <3>1. UNCHANGED group
      BY <1>20, <2>3 DEF Finish
    <3>. QED BY <2>3, <3>1 DEF HereInv, RunInv
  <2>. QED BY <2>1, <2>2, <2>3
<1>21. ASSUME NEW t \in Tasks,
              Plan(t) \/ Send(t) \/ Answer(t) \/ AnswerError(t) \/ Refuse(t) \/ Move(t) \/ MoveFails(t)
       PROVE  Goal
  <2>1. task'[t].pc # "off"
    BY <1>1, <1>21, PlanIs, StepsOn, AnswerIs
  <2>2. \/ UNCHANGED group
        \/ group.here /\ \E x, y, z : group' = [group EXCEPT !.cast = x, !.followers = y, !.excluded = z]
        \/ group.here /\ \E x, y : group' = [group EXCEPT !.followers = x, !.excluded = y]
        \/ group.here /\ \E x : group' = [group EXCEPT !.host = x]
        \/ group.here /\ \E x, y : group' = [group EXCEPT !.cast = x, !.host = y]
    <3>1. CASE Answer(t)
      <4>1. \E f : group' = IF group.here
                     THEN [group EXCEPT !.cast = Confirms(t, f), !.followers = Without(@, f), !.excluded = @ \cup f]
                     ELSE group
        BY <3>1 DEF Answer
      <4>. QED BY <4>1
    <3>2. CASE Plan(t) \/ Send(t) \/ AnswerError(t) \/ Refuse(t) \/ Move(t) \/ MoveFails(t)
      BY <3>2 DEF Plan, Send, AnswerError, Refuse, Move, MoveFails, members
    <3>. QED BY <1>21, <3>1, <3>2
  <2>3. UNCHANGED group \/ group'.here
    BY <1>1, <2>2 DEF Records
  <2>. QED BY <2>1, <2>3 DEF HereInv, RunInv
<1>22. CASE EndLost
  <2>1. group' \in {group, NoGroup} /\ UNCHANGED task
    BY <1>22 DEF EndLost, members
  <2>. QED BY <1>1, <1>5, <1>7, <1>8, <2>1
<1>23. ASSUME NEW d \in Devices,
              \/ SkipStale(d) \/ StartAlone(d) \/ StartFails(d) \/ Install(d) \/ DropEnded(d) \/ EndFollowing(d)
              \/ EndPlaying(d) \/ CloseStream(d) \/ OpenStream(d)
       PROVE  UNCHANGED <<group, task>>
  BY <1>23 DEF SkipStale, StartAlone, StartFails, Install, DropEnded, EndFollowing, EndPlaying,
               CloseStream, OpenStream, members
<1>24. ASSUME NEW k, CastLost(k) \/ TakeLost(k)
       PROVE  UNCHANGED <<group, task>>
  BY <1>24 DEF CastLost, TakeLost, members
<1>25. CASE UNCHANGED vars
  BY <1>6, <1>25 DEF vars, members
<1>. QED BY <1>6, <1>9, <1>10, <1>11, <1>12, <1>13, <1>14, <1>15, <1>16, <1>17, <1>18, <1>19, <1>20, <1>21, <1>22,
            <1>23, <1>24, <1>25 DEF Next, Worker, Reconcile

\* The queue of a member that follows keeps what is on its way, but for a stale start and an
\* end that is dropped.
LEMMA QueuesKeep ==
  ASSUME TypeInv, [Next]_vars, NEW d \in Devices, slot'[d].st = "Following"
  PROVE  \/ ToSet(inbox[d]) \subseteq ToSet(inbox'[d])
         \/ EnterFollowing(d)
         \/ /\ SkipStale(d) \/ DropEnded(d)
            /\ ToSet(inbox[d]) \subseteq {Head(inbox[d])} \cup ToSet(inbox'[d])
<1>. DEFINE Grows == ToSet(inbox[d]) \subseteq ToSet(inbox'[d])
            Drops == (SkipStale(d) \/ DropEnded(d)) /\ ToSet(inbox[d]) \subseteq {Head(inbox[d])} \cup ToSet(inbox'[d])
            Goal  == Grows \/ EnterFollowing(d) \/ Drops
<1>1. TypeOK /\ inbox \in [Devices -> Seq(Events)] /\ DOMAIN slot = Devices
  BY DEF TypeInv, TypeOK
<1>2. ASSUME NEW e, NEW q, inbox' = [inbox EXCEPT ![e] = q], e = d => ToSet(inbox[d]) \subseteq ToSet(q)
      PROVE  Goal
  BY <1>1, <1>2
<1>3. ASSUME UNCHANGED inbox
      PROVE  Goal
  BY <1>3
<1>4. ASSUME NEW e \in Devices, OpenStream(e) \/ CloseStream(e)
      PROVE  Goal
  <2>1. PICK x : inbox' = [inbox EXCEPT ![e] = Append(inbox[e], x)] /\ x \in {Started(opened + 1), Ended}
    BY <1>4 DEF OpenStream, CloseStream
  <2>2. x \in {x} \cup Events /\ inbox[e] \in Seq({x} \cup Events)
    BY <1>1
  <2>3. ToSet(Append(inbox[e], x)) = ToSet(inbox[e]) \cup {x}
    BY <2>2, AppendIs
  <2>. QED BY <1>2, <2>1, <2>3
<1>5. ASSUME NEW e \in Devices, Takes(e, "Started") \/ Takes(e, "Ended"), e # d
      PROVE  Goal
  BY <1>2, <1>5 DEF Takes
<1>6. ASSUME SkipStale(d) \/ DropEnded(d)
      PROVE  Goal
  <2>1. inbox[d] # <<>> /\ inbox' = [inbox EXCEPT ![d] = Tail(inbox[d])]
    BY <1>6 DEF SkipStale, DropEnded, Takes
  <2>2. ToSet(inbox[d]) \subseteq {Head(inbox[d])} \cup ToSet(Tail(inbox[d]))
    BY <1>1, <2>1, TailIs
  <2>3. inbox'[d] = Tail(inbox[d])
    BY <1>1, <2>1
  <2>. QED BY <1>6, <2>2, <2>3
<1>7. ASSUME StartAlone(d) \/ EnterOwner(d) \/ EndFollowing(d) \/ HandOver(d) \/ EndPlaying(d)
      PROVE  FALSE
  <2>1. CASE StartAlone(d) \/ EnterOwner(d)
    <3>1. slot'[d] = Starting(ring[d])
      BY <1>1, <2>1 DEF StartAlone, EnterOwner, Accept
    <3>. QED BY <3>1 DEF Starting
  <2>2. CASE EndFollowing(d) \/ EndPlaying(d)
    <3>1. slot'[d] = Idle
      BY <1>1, <2>2 DEF EndFollowing, EndPlaying
    <3>. QED BY <3>1 DEF Idle
  <2>3. CASE HandOver(d)
    <3>1. PICK f \in Survivors : slot' = [slot EXCEPT ![d] = Idle, ![f] = Playing(slot[f].ring, slot[d].session, TRUE)]
      BY <2>3 DEF HandOver
    <3>2. slot'[d] \in {Idle, Playing(slot[f].ring, slot[d].session, TRUE)}
      BY <1>1, <3>1
    <3>. QED BY <3>2 DEF Idle, Playing
  <2>. QED BY <1>7, <2>1, <2>2, <2>3
<1>8. ASSUME NEW e \in Devices,
             \/ SkipStale(e) \/ StartAlone(e) \/ EnterFollowing(e) \/ EnterOwner(e) \/ DropEnded(e)
             \/ EndFollowing(e) \/ HandOver(e) \/ EndPlaying(e)
      PROVE  Goal
  <2>1. Takes(e, "Started") \/ Takes(e, "Ended")
    BY <1>8 DEF SkipStale, StartAlone, EnterFollowing, EnterOwner, DropEnded, EndFollowing, HandOver, EndPlaying
  <2>. QED BY <1>5, <1>6, <1>7, <1>8, <2>1
<1>9. ASSUME NEW e \in Devices, RedispatchPromoted(e)
      PROVE  Goal
  <2>. DEFINE p == worker[e].who
  <2>1. UNCHANGED inbox \/ \E first \in BOOLEAN : inbox' = [inbox EXCEPT ![p] = Redispatched(p, first)]
    BY <1>9 DEF RedispatchPromoted
  <2>2. \A first \in BOOLEAN : p = d => ToSet(inbox[d]) \subseteq ToSet(Redispatched(p, first))
    BY <1>1, RedispatchedIs
  <2>. QED BY <1>2, <1>3, <2>1, <2>2
<1>10. ASSUME NEW t \in Tasks, Refuse(t)
       PROVE  Goal
  <2>1. PICK first \in BOOLEAN : inbox' = [x \in Devices |->
           IF x \in task[t].failed /\ slot[x].st = "Following" THEN Redispatched(x, first) ELSE inbox[x]]
    BY <1>10 DEF Refuse
  <2>2. ToSet(inbox[d]) \subseteq ToSet(Redispatched(d, first))
    BY <1>1, RedispatchedIs
  <2>. QED BY <2>1, <2>2
<1>11. ASSUME NEW e \in Devices,
              \/ ScheduleJoin(e) \/ StartFails(e) \/ Install(e) \/ OwnerPlaying(e) \/ CheckOwner(e) \/ Promote(e)
              \/ NothingToPromote(e) \/ LeaveFollowers(e) \/ Reloaded(e) \/ StallEnd(e)
       PROVE  UNCHANGED inbox
  BY <1>11 DEF ScheduleJoin, StartFails, Install, OwnerPlaying, CheckOwner, Promote, NothingToPromote,
               LeaveFollowers, Reloaded, StallEnd
<1>12. ASSUME NEW t \in Tasks,
              \/ Wake(t) \/ Plan(t) \/ Send(t) \/ Answer(t) \/ AnswerError(t) \/ Move(t) \/ MoveFails(t) \/ Finish(t)
       PROVE  UNCHANGED inbox
  BY <1>12 DEF Wake, Plan, Send, Answer, AnswerError, Move, MoveFails, Finish
<1>13. ASSUME NEW k, CastLost(k) \/ TakeLost(k)
       PROVE  UNCHANGED inbox
  BY <1>13 DEF CastLost, TakeLost
<1>14. CASE EndLost \/ UNCHANGED vars
  BY <1>3, <1>14 DEF EndLost, vars
<1>15. ASSUME NEW e \in Devices, Worker(e)
       PROVE  Goal
  BY <1>3, <1>8, <1>9, <1>11, <1>15 DEF Worker
<1>16. ASSUME NEW t \in Tasks, Reconcile(t)
       PROVE  Goal
  BY <1>3, <1>10, <1>12, <1>16 DEF Reconcile
<1>17. Goal
  BY <1>3, <1>4, <1>11, <1>13, <1>14, <1>15, <1>16 DEF Next
<1>. QED BY <1>17 DEF Goal

\* A member that follows stays in the record, unless Cast refuses it.
LEMMA MembersKeep ==
  ASSUME TypeInv, HereInv, RunInv, LeftInv, [Next]_vars, NEW d \in Devices, InFollowers(d), slot'[d].st = "Following"
  PROVE  InFollowers(d)' \/ Refused(d)'
<1>. DEFINE Goal == InFollowers(d)' \/ Refused(d)'
<1>1. TypeOK /\ group \in Records /\ DOMAIN slot = Devices
  BY DEF TypeInv, TypeOK
<1>2. d \in ToSet(group.followers) /\ group.here /\ ToSet(<<>>) = {} /\ group.followers # <<>>
  BY GroupIs, <1>1 DEF InFollowers, HereInv
<1>3. \A S : d \notin S => d \in ToSet(Without(group.followers, S))
  BY <1>1, <1>2, GroupIs
<1>4. ASSUME UNCHANGED group
      PROVE  Goal
  BY <1>2, <1>4 DEF InFollowers
<1>5. ASSUME group'.followers = group.followers
      PROVE  Goal
  BY <1>2, <1>5 DEF InFollowers
<1>6. ASSUME NEW g \in Records, Schedule(g) \/ (group' = g /\ UNCHANGED task), d \in ToSet(g.followers), g.running = group.running
      PROVE  Goal
  <2>1. g.running => \E t \in Tasks : task[t].pc # "off"
    BY <1>6 DEF RunInv
  <2>2. group'.followers = g.followers
    BY <1>1, <1>6, <2>1, SchedulesIs
  <2>. QED BY <1>6, <2>2 DEF InFollowers
<1>7. ASSUME NEW e \in Devices, EnterFollowing(e)
      PROVE  Goal
  <2>1. group' = [group EXCEPT !.followers = IF InFollowers(e) THEN @ ELSE Append(@, e)]
    BY <1>7 DEF EnterFollowing
  <2>2. ToSet(Append(group.followers, e)) = ToSet(group.followers) \cup {e}
    BY <1>1, GroupIs, AppendIs
  <2>3. group'.followers \in {group.followers, Append(group.followers, e)}
    BY <1>1, <2>1 DEF Records
  <2>. QED BY <1>2, <2>2, <2>3 DEF InFollowers
<1>8. ASSUME NEW e \in Devices, EnterOwner(e)
      PROVE  Goal
  <2>1. e # d
    <3>1. slot' = [slot EXCEPT ![e] = Starting(ring[e])]
      BY <1>8 DEF EnterOwner, Accept
    <3>. QED BY <1>1, <3>1 DEF Starting
  <2>2. group' = [group EXCEPT !.owner = e, !.followers = Without(@, {e}),
                              !.promoting = IF @ = e THEN Nobody ELSE @,
                              !.cast = IF group.owner = e THEN @ ELSE <<>>,
                              !.host = IF group.owner = e THEN @ ELSE Nobody]
    BY <1>2, <1>8 DEF EnterOwner
  <2>3. group'.followers = Without(group.followers, {e})
    BY <1>1, <2>2 DEF Records
  <2>. QED BY <1>3, <2>1, <2>3 DEF InFollowers
<1>9. ASSUME NEW e \in Devices, ScheduleJoin(e) \/ RedispatchPromoted(e)
      PROVE  Goal
  BY <1>1, <1>2, <1>6, <1>9 DEF ScheduleJoin, RedispatchPromoted, Done
<1>10. ASSUME NEW e \in Devices, OwnerPlaying(e) \/ Reloaded(e)
       PROVE  Goal
  <2>1. Confirmed(group, e) \in Records /\ Confirmed(group, e).followers = group.followers
        /\ Confirmed(group, e).running = group.running
    BY <1>1, ConfirmedTyped DEF Confirmed, Records
  <2>. QED BY <1>2, <1>4, <1>6, <1>10, <2>1 DEF OwnerPlaying, Reloaded
<1>11. ASSUME NEW e \in Devices, CheckOwner(e)
       PROVE  Goal
  <2>. DEFINE g == [group EXCEPT !.excluded = @ \ {e},
                                 !.owner = IF group.owner = e THEN Nobody ELSE @,
                                 !.cast = IF group.owner = e THEN <<>> ELSE @,
                                 !.host = IF group.owner = e THEN Nobody ELSE @]
  <2>1. group' = group \/ group' = IF IsEmpty(g) THEN NoGroup ELSE g
    BY <1>11 DEF CheckOwner
  <2>2. g.followers = group.followers
    BY <1>1 DEF Records
  <2>3. ~IsEmpty(g)
    BY <1>2, <2>2 DEF IsEmpty
  <2>. QED BY <1>5, <2>1, <2>2, <2>3
<1>12. ASSUME NEW e \in Devices, Promote(e)
       PROVE  Goal
  <2>1. group'.followers = group.followers
    BY <1>1, <1>12 DEF Promote, Records
  <2>. QED BY <1>5, <2>1
<1>13. ASSUME NEW e \in Devices, NothingToPromote(e)
       PROVE  Goal
  <2>. DEFINE g == [group EXCEPT !.host = Nobody]
  <2>1. g \in Records /\ g.followers = group.followers /\ g.running = group.running
    BY <1>1 DEF Records
  <2>2. ~IsEmpty(group)
    BY <1>2 DEF IsEmpty
  <2>3. Done(e, group) \/ Done(e, g)
    BY <1>13, <2>2 DEF NothingToPromote
  <2>. HIDE DEF g
  <2>. QED BY <1>1, <1>2, <1>6, <2>1, <2>3 DEF Done
<1>14. ASSUME NEW e \in Devices, LeaveFollowers(e)
       PROVE  Goal
  <2>1. e # d
    BY <1>14 DEF LeaveFollowers, LeftInv, IsFollowing
  <2>2. group'.followers = Without(group.followers, {e})
    BY <1>1, <1>14 DEF LeaveFollowers, Records
  <2>. QED BY <1>3, <2>1, <2>2 DEF InFollowers
<1>15. ASSUME NEW e \in Devices, HandOver(e)
       PROVE  Goal
  <2>1. PICK f \in Devices : /\ slot' = [slot EXCEPT ![e] = Idle, ![f] = Playing(slot[f].ring, slot[e].session, TRUE)]
                             /\ Schedule([group EXCEPT !.owner = f, !.followers = Without(@, {f})])
    BY <1>15 DEF HandOver, Survivors
  <2>2. f # d
    BY <1>1, <2>1 DEF Playing
  <2>3. /\ [group EXCEPT !.owner = f, !.followers = Without(@, {f})] \in Records
        /\ [group EXCEPT !.owner = f, !.followers = Without(@, {f})].followers = Without(group.followers, {f})
        /\ [group EXCEPT !.owner = f, !.followers = Without(@, {f})].running = group.running
    <3>1. Without(group.followers, {f}) \in Seq(Devices)
      BY <1>1, GroupIs
    <3>. QED BY <1>1, <3>1 DEF Records
  <2>. QED BY <1>3, <1>6, <2>1, <2>2, <2>3
<1>16. EndGroupSlots[d].st # "Following"
  BY <1>2 DEF EndGroupSlots, InFollowers, Idle
<1>17. ASSUME NEW e \in Devices, StallEnd(e)
       PROVE  Goal
  <2>1. CASE slot[e].grouped
    <3>1. slot' = [EndGroupSlots EXCEPT ![e] = Idle]
      BY <1>17, <2>1 DEF StallEnd
    <3>2. slot'[d] \in {EndGroupSlots[d], Idle}
      BY <3>1 DEF EndGroupSlots
    <3>. QED BY <1>16, <3>2 DEF Idle
  <2>2. CASE ~slot[e].grouped
    BY <1>4, <1>17, <2>2 DEF StallEnd
  <2>. QED BY <2>1, <2>2
<1>18. CASE EndLost
  <2>1. UNCHANGED group \/ slot' = EndGroupSlots
    BY <1>18 DEF EndLost, members
  <2>. QED BY <1>4, <1>16, <2>1
<1>19. ASSUME NEW t \in Tasks, Answer(t) \/ AnswerError(t)
       PROVE  Goal
  <2>1. ToSet(group'.followers) = ToSet(group.followers) \ task'[t].failed /\ task'[t].pc = "refused"
    BY <1>1, <1>2, <1>19, AnswerIs
  <2>. QED BY <1>2, <2>1 DEF InFollowers, Refused
<1>20. ASSUME NEW t \in Tasks,
              Wake(t) \/ Plan(t) \/ Send(t) \/ Refuse(t) \/ Move(t) \/ MoveFails(t) \/ Finish(t)
       PROVE  Goal
  <2>1. \/ UNCHANGED group
        \/ group' = [group EXCEPT !.dirty = FALSE]
        \/ group' = [group EXCEPT !.running = FALSE]
        \/ \E x : group' = [group EXCEPT !.host = x]
        \/ \E x, y : group' = [group EXCEPT !.cast = x, !.host = y]
    BY <1>20 DEF Wake, Plan, Send, Refuse, Move, MoveFails, Finish, members
  <2>2. group'.followers = group.followers
    BY <1>1, <2>1 DEF Records
  <2>. QED BY <1>5, <2>2
<1>21. ASSUME NEW e \in Devices,
              \/ SkipStale(e) \/ StartAlone(e) \/ StartFails(e) \/ Install(e) \/ DropEnded(e) \/ EndFollowing(e)
              \/ EndPlaying(e) \/ CloseStream(e) \/ OpenStream(e)
       PROVE  UNCHANGED group
  BY <1>21 DEF SkipStale, StartAlone, StartFails, Install, DropEnded, EndFollowing, EndPlaying,
               CloseStream, OpenStream, members
<1>22. ASSUME NEW k, CastLost(k) \/ TakeLost(k)
       PROVE  UNCHANGED group
  BY <1>22 DEF CastLost, TakeLost, members
<1>23. CASE UNCHANGED vars
  BY <1>4, <1>23 DEF vars, members
<1>24. ASSUME NEW e \in Devices, Worker(e)
       PROVE  Goal
  BY <1>4, <1>7, <1>8, <1>9, <1>10, <1>11, <1>12, <1>13, <1>14, <1>15, <1>21, <1>24 DEF Worker
<1>25. ASSUME NEW t \in Tasks, Reconcile(t)
       PROVE  Goal
  BY <1>4, <1>19, <1>20, <1>25 DEF Reconcile
<1>26. Goal
  BY <1>4, <1>10, <1>17, <1>18, <1>21, <1>22, <1>23, <1>24, <1>25 DEF Next
<1>. QED BY <1>26 DEF Goal

\* A member Cast refused stays so until it is sent a start of its own.
LEMMA RefusedKeep ==
  ASSUME TypeInv, RunInv, [Next]_vars, NEW d \in Devices, Refused(d), slot[d].st = "Following"
  PROVE  Refused(d)' \/ Comes(d, Started(slot[d].ring))'
<1>. DEFINE Goal == Refused(d)' \/ Comes(d, Started(slot[d].ring))'
<1>1. TypeOK /\ group \in Records /\ task \in [Tasks -> Passes]
  BY DEF TypeInv, TypeOK
<1>2. PICK t \in Tasks : task[t].pc = "refused" /\ d \in task[t].failed
  BY DEF Refused
<1>3. ASSUME task'[t] = task[t]
      PROVE  Goal
  BY <1>2, <1>3 DEF Refused
<1>4. ASSUME NEW g \in Records, Schedule(g) \/ (group' = g /\ UNCHANGED task), g.running = group.running
      PROVE  Goal
  <2>1. g.running => \E u \in Tasks : task[u].pc # "off"
    BY <1>4 DEF RunInv
  <2>2. task'[t] = task[t]
    BY <1>1, <1>2, <1>4, <2>1, SchedulesIs
  <2>. QED BY <1>3, <2>2
<1>5. ASSUME NEW e \in Devices, ScheduleJoin(e) \/ RedispatchPromoted(e)
      PROVE  Goal
  BY <1>1, <1>4, <1>5 DEF ScheduleJoin, RedispatchPromoted, Done
<1>6. ASSUME NEW e \in Devices, OwnerPlaying(e) \/ Reloaded(e)
      PROVE  Goal
  <2>1. Confirmed(group, e) \in Records /\ Confirmed(group, e).running = group.running
    BY <1>1, ConfirmedTyped DEF Confirmed, Records
  <2>. QED BY <1>3, <1>4, <1>6, <2>1 DEF OwnerPlaying, Reloaded
<1>7. ASSUME NEW e \in Devices, NothingToPromote(e)
      PROVE  Goal
  <2>1. task'[t] = task[t]
    <3>1. UNCHANGED task \/ \E g : Schedule(g)
      BY <1>7 DEF NothingToPromote, Done
    <3>2. UNCHANGED task \/ \E u \in Tasks : \E x : task[u].pc = "off" /\ task' = [task EXCEPT ![u] = x]
      BY <3>1 DEF Schedule
    <3>. QED BY <1>1, <1>2, <3>2
  <2>. QED BY <1>3, <2>1
<1>8. ASSUME NEW e \in Devices, HandOver(e)
      PROVE  Goal
  <2>1. UNCHANGED task \/ \E u \in Tasks : \E x : task[u].pc = "off" /\ task' = [task EXCEPT ![u] = x]
    <3>1. \E g : Schedule(g)
      BY <1>8 DEF HandOver
    <3>. QED BY <3>1 DEF Schedule
  <2>. QED BY <1>1, <1>2, <1>3, <2>1
<1>9. ASSUME NEW e \in Devices,
             \/ SkipStale(e) \/ StartAlone(e) \/ EnterFollowing(e) \/ EnterOwner(e) \/ StartFails(e) \/ Install(e)
             \/ CheckOwner(e) \/ Promote(e) \/ DropEnded(e) \/ EndFollowing(e) \/ LeaveFollowers(e) \/ EndPlaying(e)
             \/ StallEnd(e) \/ CloseStream(e) \/ OpenStream(e)
      PROVE  UNCHANGED task
  BY <1>9 DEF SkipStale, StartAlone, EnterFollowing, EnterOwner, StartFails, Install, CheckOwner, Promote, DropEnded,
       EndFollowing, LeaveFollowers, EndPlaying, StallEnd, CloseStream, OpenStream
<1>10. ASSUME NEW u \in Tasks, Wake(u) \/ Finish(u) \/ Plan(u) \/ Send(u) \/ Answer(u) \/ AnswerError(u) \/ Move(u) \/ MoveFails(u)
       PROVE  Goal
  <2>1. u # t
    BY <1>2, <1>10 DEF Wake, Finish, Plan, Send, Answer, AnswerError, Move, MoveFails
  <2>2. Wake(u) \/ Finish(u) => task'[t] = task[t]
    BY <1>1, <2>1 DEF Wake, Finish, TaskTo
  <2>3. ~(Wake(u) \/ Finish(u)) => OthersStay(u)
    BY <1>1, <1>10, PlanIs, StepsOn, AnswerIs
  <2>. QED BY <1>3, <2>1, <2>2, <2>3 DEF OthersStay
<1>11. ASSUME NEW u \in Tasks, Refuse(u)
       PROVE  Goal
  <2>1. CASE u = t
    <3>1. PICK first \in BOOLEAN : inbox' = [x \in Devices |->
            IF x \in task[t].failed /\ slot[x].st = "Following" THEN Redispatched(x, first) ELSE inbox[x]]
      BY <1>11, <2>1 DEF Refuse
    <3>2. inbox'[d] = Redispatched(d, first)
      BY <1>2, <3>1
    <3>3. Started(slot[d].ring) \in ToSet(Redispatched(d, first))
      BY <1>1, RedispatchedIs
    <3>4. slot'[d] = slot[d]
      BY <1>11 DEF Refuse, members
    <3>. QED BY <3>2, <3>3, <3>4 DEF Comes
  <2>2. CASE u # t
    BY <1>1, <1>3, <1>11, <2>2, StepsOn DEF OthersStay
  <2>. QED BY <2>1, <2>2
<1>12. ASSUME NEW k, CastLost(k) \/ TakeLost(k)
       PROVE  UNCHANGED task
  BY <1>12 DEF CastLost, TakeLost
<1>13. CASE EndLost \/ UNCHANGED vars
  BY <1>3, <1>13 DEF EndLost, vars
<1>14. ASSUME NEW e \in Devices, Worker(e)
       PROVE  Goal
  BY <1>3, <1>5, <1>6, <1>7, <1>8, <1>9, <1>14 DEF Worker
<1>15. ASSUME NEW u \in Tasks, Reconcile(u)
       PROVE  Goal
  BY <1>10, <1>11, <1>15 DEF Reconcile
<1>. QED BY <1>3, <1>6, <1>9, <1>12, <1>13, <1>14, <1>15 DEF Next

LEMMA AirplayIs ==
  ASSUME [Next]_vars
  PROVE  UNCHANGED airplay \/ \E d \in Devices : OpenStream(d) \/ CloseStream(d)
<1>1. ASSUME NEW d \in Devices, Worker(d) \/ Reloaded(d) \/ StallEnd(d)
      PROVE  UNCHANGED airplay
  BY <1>1 DEF Worker, SkipStale, StartAlone, EnterFollowing, EnterOwner, ScheduleJoin, StartFails, Install,
        OwnerPlaying, CheckOwner, Promote, NothingToPromote, RedispatchPromoted, DropEnded, EndFollowing,
        LeaveFollowers, HandOver, EndPlaying, Reloaded, StallEnd
<1>2. ASSUME NEW t \in Tasks, Reconcile(t)
      PROVE  UNCHANGED airplay
  BY <1>2 DEF Reconcile, Wake, Plan, Send, Answer, AnswerError, Refuse, Move, MoveFails, Finish
<1>3. ASSUME NEW k, CastLost(k) \/ TakeLost(k)
      PROVE  UNCHANGED airplay
  BY <1>3 DEF CastLost, TakeLost
<1>4. CASE EndLost \/ UNCHANGED vars
  BY <1>4 DEF EndLost, vars, airplay
<1>. QED BY <1>1, <1>2, <1>3, <1>4 DEF Next

\* What reaches a queue: the events of its member's streams, and starts sent again to one
\* that follows.
LEMMA QueuesGrow ==
  ASSUME TypeInv, [Next]_vars, NEW d \in Devices, NEW x \in ToSet(inbox'[d])
  PROVE  \/ x \in ToSet(inbox[d]) \/ x = Ended
         \/ IsFollowing(d) /\ x = Started(slot[d].ring)
         \/ OpenStream(d) /\ x = Started(opened + 1)
<1>. DEFINE Goal == \/ x \in ToSet(inbox[d]) \/ x = Ended
                    \/ IsFollowing(d) /\ x = Started(slot[d].ring)
                    \/ OpenStream(d) /\ x = Started(opened + 1)
<1>1. TypeOK /\ inbox \in [Devices -> Seq(Events)]
  BY DEF TypeInv, TypeOK
<1>2. ASSUME NEW e, NEW q, inbox' = [inbox EXCEPT ![e] = q], e = d /\ x \in ToSet(q) => Goal
      PROVE  Goal
  BY <1>1, <1>2
<1>3. ASSUME UNCHANGED inbox
      PROVE  Goal
  BY <1>3
<1>4. ASSUME NEW e \in Devices, OpenStream(e) \/ CloseStream(e)
      PROVE  Goal
  <2>1. PICK y : /\ inbox' = [inbox EXCEPT ![e] = Append(inbox[e], y)]
                 /\ (OpenStream(e) /\ y = Started(opened + 1)) \/ y = Ended
    BY <1>4 DEF OpenStream, CloseStream
  <2>2. y \in {y} \cup Events /\ inbox[e] \in Seq({y} \cup Events)
    BY <1>1
  <2>3. ToSet(Append(inbox[e], y)) = ToSet(inbox[e]) \cup {y}
    BY <2>2, AppendIs
  <2>. QED BY <1>2, <2>1, <2>3
<1>5. ASSUME NEW e \in Devices,
             \/ SkipStale(e) \/ StartAlone(e) \/ EnterFollowing(e) \/ EnterOwner(e) \/ DropEnded(e)
             \/ EndFollowing(e) \/ HandOver(e) \/ EndPlaying(e)
      PROVE  Goal
  <2>1. inbox[e] # <<>> /\ inbox' = [inbox EXCEPT ![e] = Tail(inbox[e])]
    BY <1>5 DEF SkipStale, StartAlone, EnterFollowing, EnterOwner, DropEnded, EndFollowing, HandOver, EndPlaying, Takes
  <2>2. ToSet(Tail(inbox[e])) \subseteq ToSet(inbox[e])
    BY <1>1, <2>1, TailIs
  <2>. QED BY <1>2, <2>1, <2>2
<1>6. ASSUME NEW e \in Devices, RedispatchPromoted(e)
      PROVE  Goal
  <2>. DEFINE p == worker[e].who
  <2>1. \/ UNCHANGED inbox
        \/ slot[p].st = "Following" /\ \E first \in BOOLEAN : inbox' = [inbox EXCEPT ![p] = Redispatched(p, first)]
    BY <1>6 DEF RedispatchPromoted
  <2>2. \A first \in BOOLEAN : p = d => ToSet(Redispatched(p, first)) = ToSet(inbox[d]) \cup {Started(slot[d].ring)}
    BY <1>1, RedispatchedIs
  <2>. QED BY <1>2, <1>3, <2>1, <2>2 DEF IsFollowing
<1>7. ASSUME NEW t \in Tasks, Refuse(t)
      PROVE  Goal
  <2>1. PICK first \in BOOLEAN : inbox' = [z \in Devices |->
           IF z \in task[t].failed /\ slot[z].st = "Following" THEN Redispatched(z, first) ELSE inbox[z]]
    BY <1>7 DEF Refuse
  <2>2. ToSet(Redispatched(d, first)) = ToSet(inbox[d]) \cup {Started(slot[d].ring)}
    BY <1>1, RedispatchedIs
  <2>. QED BY <2>1, <2>2 DEF IsFollowing
<1>8. ASSUME NEW e \in Devices,
             \/ ScheduleJoin(e) \/ StartFails(e) \/ Install(e) \/ OwnerPlaying(e) \/ CheckOwner(e) \/ Promote(e)
             \/ NothingToPromote(e) \/ LeaveFollowers(e) \/ Reloaded(e) \/ StallEnd(e)
      PROVE  UNCHANGED inbox
  BY <1>8 DEF ScheduleJoin, StartFails, Install, OwnerPlaying, CheckOwner, Promote, NothingToPromote,
              LeaveFollowers, Reloaded, StallEnd
<1>9. ASSUME NEW t \in Tasks,
             \/ Wake(t) \/ Plan(t) \/ Send(t) \/ Answer(t) \/ AnswerError(t) \/ Move(t) \/ MoveFails(t) \/ Finish(t)
      PROVE  UNCHANGED inbox
  BY <1>9 DEF Wake, Plan, Send, Answer, AnswerError, Move, MoveFails, Finish
<1>10. ASSUME NEW k, CastLost(k) \/ TakeLost(k)
       PROVE  UNCHANGED inbox
  BY <1>10 DEF CastLost, TakeLost
<1>11. CASE EndLost \/ UNCHANGED vars
  BY <1>3, <1>11 DEF EndLost, vars
<1>12. ASSUME NEW e \in Devices, Worker(e)
       PROVE  Goal
  BY <1>3, <1>5, <1>6, <1>8, <1>12 DEF Worker
<1>13. ASSUME NEW t \in Tasks, Reconcile(t)
       PROVE  Goal
  BY <1>3, <1>7, <1>9, <1>13 DEF Reconcile
<1>. QED BY <1>3, <1>4, <1>8, <1>10, <1>11, <1>12, <1>13 DEF Next

\* Streams are numbered as they open, and an event names one that was opened.
LEMMA StreamsKept == TypeInv /\ StreamsInv /\ [Next]_vars => StreamsInv'
<1>. SUFFICES ASSUME TypeInv, StreamsInv, [Next]_vars
              PROVE  StreamsInv'
  OBVIOUS
<1>1. /\ TypeOK /\ inbox \in [Devices -> Seq(Events)] /\ slot \in [Devices -> Slots]
      /\ opened \in Nat /\ opened' \in Nat /\ \A d \in Devices : ring[d] \in Nat /\ ring'[d] \in Nat
  <2>1. ring \in [Devices -> Nat] /\ ring' \in [Devices -> Nat]
    BY OpenKept, BoundsAssumption DEF TypeInv, TypeOK, BoundsAssumption
  <2>. QED BY <2>1, OpenKept, BoundsAssumption DEF TypeInv, TypeOK, BoundsAssumption
<1>2. opened' \in {opened, opened + 1} /\ \A d \in Devices : ring'[d] \in {ring[d], 0, opened'}
  <2>1. CASE UNCHANGED airplay
    BY <2>1 DEF airplay
  <2>2. ASSUME NEW d \in Devices, OpenStream(d) \/ CloseStream(d)
        PROVE  opened' \in {opened, opened + 1} /\ \A e \in Devices : ring'[e] \in {ring[e], 0, opened'}
    <3>1. CASE OpenStream(d)
      BY <1>1, <3>1 DEF OpenStream, TypeOK
    <3>2. CASE CloseStream(d)
      BY <1>1, <3>2 DEF CloseStream, TypeOK
    <3>. QED BY <2>2, <3>1, <3>2
  <2>. QED BY <2>1, <2>2, AirplayIs
<1>3. 1..opened \subseteq 1..opened'
  BY <1>1, <1>2
<1>4. ASSUME NEW d \in Devices
      PROVE  ring'[d] <= opened'
  <2>1. ring[d] <= opened
    BY DEF StreamsInv
  <2>. QED BY <1>1, <1>2, <2>1
<1>5. ASSUME NEW d \in Devices, NEW x \in ToSet(inbox'[d]), x.kind = "Started"
      PROVE  x.ring \in 1..opened'
  <2>1. CASE x \in ToSet(inbox[d])
    BY <1>3, <1>5, <2>1 DEF StreamsInv
  <2>2. CASE IsFollowing(d) /\ x = Started(slot[d].ring)
    BY <1>3, <2>2 DEF StreamsInv, Started
  <2>3. CASE OpenStream(d) /\ x = Started(opened + 1)
    BY <1>1, <2>3 DEF OpenStream, Started
  <2>4. x # Ended
    BY <1>5 DEF Ended
  <2>. QED BY <2>1, <2>2, <2>3, <2>4, QueuesGrow
<1>6. ASSUME NEW d \in Devices, slot'[d].st = "Following"
      PROVE  slot'[d].ring \in 1..opened'
  <2>1. CASE slot'[d] = slot[d]
    BY <1>3, <1>6, <2>1 DEF StreamsInv, IsFollowing
  <2>2. CASE EnterFollowing(d)
    <3>1. /\ inbox[d] # <<>> /\ Head(inbox[d]).kind = "Started" /\ Head(inbox[d]).ring = ring[d]
          /\ slot' = [slot EXCEPT ![d] = Following(ring[d])]
      BY <2>2 DEF EnterFollowing, Takes
    <3>2. Head(inbox[d]) \in ToSet(inbox[d])
      BY <1>1, <3>1, TailIs
    <3>3. slot'[d].ring = ring[d]
      BY <1>1, <3>1 DEF Following
    <3>. QED BY <1>3, <3>1, <3>2, <3>3 DEF StreamsInv
  <2>. QED BY <1>6, <2>1, <2>2, SlotsFollow
<1>. QED BY <1>4, <1>5, <1>6 DEF StreamsInv, IsFollowing

\* A member that follows keeps its place, or the event that makes it leave its place.
LEMMA FollowKept == TypeInv /\ RecordInv /\ FollowInv /\ [Next]_vars => FollowInv'
<1>. SUFFICES ASSUME TypeInv, RecordInv, FollowInv, [Next]_vars
              PROVE  FollowInv'
  OBVIOUS
<1>1. StreamsInv /\ StreamsInv' /\ TypeOK /\ inbox \in [Devices -> Seq(Events)] /\ HereInv /\ RunInv /\ LeftInv
  BY StreamsKept DEF FollowInv, RecordInv, TypeInv, TypeOK
<1>2. ASSUME NEW d \in Devices, slot'[d].st = "Following", EnterFollowing(d)
      PROVE  Reported(d)' /\ Listed(d)'
  <2>1. /\ slot' = [slot EXCEPT ![d] = Following(ring[d])] /\ UNCHANGED ring
        /\ group' = [group EXCEPT !.followers = IF InFollowers(d) THEN @ ELSE Append(@, d)]
    BY <1>2 DEF EnterFollowing, airplay
  <2>2. slot'[d].ring = ring'[d]
    BY <1>1, <2>1 DEF TypeOK, Following
  <2>3. InFollowers(d)'
    <3>1. ToSet(Append(group.followers, d)) = ToSet(group.followers) \cup {d}
      BY <1>1, GroupIs, AppendIs
    <3>2. group'.followers = IF InFollowers(d) THEN group.followers ELSE Append(group.followers, d)
      BY <1>1, <2>1 DEF TypeOK, Records
    <3>. QED BY <3>1, <3>2 DEF InFollowers
  <2>. QED BY <2>2, <2>3 DEF Reported, Listed
<1>3. ASSUME NEW d \in Devices, slot'[d] = slot[d], slot[d].st = "Following", OpenStream(d) \/ CloseStream(d)
      PROVE  Reported(d)' /\ Listed(d)'
  <2>1. slot[d].ring \in 1..opened /\ opened \in Nat
    BY <1>1, <1>3, BoundsAssumption DEF StreamsInv, IsFollowing, TypeOK, BoundsAssumption
  <2>2. PICK x \in {Started(opened + 1), Ended} : inbox' = [inbox EXCEPT ![d] = Append(inbox[d], x)]
                     /\ (OpenStream(d) => x = Started(opened + 1)) /\ (~OpenStream(d) => x = Ended)
    BY <1>3 DEF OpenStream, CloseStream
  <2>3. x \in ToSet(inbox'[d])
    <3>1. x \in {x} \cup Events /\ inbox[d] \in Seq({x} \cup Events)
      BY <1>1
    <3>2. ToSet(Append(inbox[d], x)) = ToSet(inbox[d]) \cup {x}
      BY <3>1, AppendIs
    <3>. QED BY <1>1, <2>2, <3>2
  <2>4. CASE OpenStream(d)
    <3>1. ring'[d] = opened + 1
      BY <1>1, <2>4 DEF OpenStream, TypeOK
    <3>2. slot'[d].ring # ring'[d]
      BY <1>3, <2>1, <3>1
    <3>. QED BY <2>2, <2>3, <2>4, <3>1, <3>2 DEF Reported, Listed, Comes
  <2>5. CASE ~OpenStream(d)
    <3>1. ring'[d] = 0
      BY <1>1, <1>3, <2>5 DEF CloseStream, TypeOK
    <3>2. slot'[d].ring # ring'[d]
      BY <1>3, <2>1, <3>1
    <3>. QED BY <2>2, <2>3, <2>5, <3>2 DEF Reported, Listed, Comes
  <2>. QED BY <2>4, <2>5
<1>4. ASSUME NEW d \in Devices, slot'[d] = slot[d], slot[d].st = "Following", ~(OpenStream(d) \/ CloseStream(d)),
             ~EnterFollowing(d)
      PROVE  Reported(d)' /\ Listed(d)'
  <2>1. ring'[d] = ring[d]
    <3>1. CASE UNCHANGED airplay
      BY <3>1 DEF airplay
    <3>2. ASSUME NEW e \in Devices, OpenStream(e) \/ CloseStream(e)
          PROVE  ring'[d] = ring[d]
      <4>1. \E x : ring' = [ring EXCEPT ![e] = x]
        BY <3>2 DEF OpenStream, CloseStream
      <4>. QED BY <1>1, <1>4, <3>2, <4>1 DEF TypeOK
    <3>. QED BY <3>1, <3>2, AirplayIs
  <2>2. Reported(d) /\ Listed(d) /\ IsFollowing(d)
    BY <1>4 DEF FollowInv, IsFollowing
  <2>3. slot[d].ring # ring[d] => Comes(d, Ended)' \/ Comes(d, Started(ring[d]))'
    <3>. SUFFICES ASSUME slot[d].ring # ring[d]
                  PROVE  Comes(d, Ended)' \/ Comes(d, Started(ring[d]))'
      OBVIOUS
    <3>1. Ended \in ToSet(inbox[d]) \/ Started(ring[d]) \in ToSet(inbox[d])
      BY <2>2 DEF Reported, Comes
    <3>2. CASE ToSet(inbox[d]) \subseteq ToSet(inbox'[d])
      BY <2>1, <3>1, <3>2 DEF Comes
    <3>3. CASE SkipStale(d) /\ ToSet(inbox[d]) \subseteq {Head(inbox[d])} \cup ToSet(inbox'[d])
      <4>1. Head(inbox[d]).ring # ring[d] /\ Head(inbox[d]).kind = "Started"
        BY <3>3 DEF SkipStale, Takes
      <4>2. Head(inbox[d]) # Ended /\ Head(inbox[d]) # Started(ring[d])
        BY <4>1 DEF Ended, Started
      <4>. QED BY <2>1, <3>1, <3>3, <4>2 DEF Comes
    <3>4. ~DropEnded(d)
      BY <1>4 DEF DropEnded
    <3>. QED BY <1>4, <3>2, <3>3, <3>4, QueuesKeep
  <2>4. slot[d].ring = ring[d] => InFollowers(d)' \/ Refused(d)' \/ Comes(d, Started(ring[d]))'
    <3>. SUFFICES ASSUME slot[d].ring = ring[d]
                  PROVE  InFollowers(d)' \/ Refused(d)' \/ Comes(d, Started(ring[d]))'
      OBVIOUS
    <3>1. CASE InFollowers(d)
      BY <1>1, <1>4, <3>1, MembersKeep
    <3>2. CASE Refused(d)
      <4>1. Refused(d)' \/ Comes(d, Started(slot[d].ring))'
        BY <1>1, <1>4, <3>2, RefusedKeep
      <4>. QED BY <1>4, <2>1, <4>1
    <3>3. CASE Started(ring[d]) \in ToSet(inbox[d])
      <4>1. CASE ToSet(inbox[d]) \subseteq ToSet(inbox'[d])
        BY <2>1, <3>3, <4>1 DEF Comes
      <4>2. CASE SkipStale(d) /\ ToSet(inbox[d]) \subseteq {Head(inbox[d])} \cup ToSet(inbox'[d])
        <5>1. Head(inbox[d]) # Started(ring[d])
          BY <4>2 DEF SkipStale, Started
        <5>. QED BY <2>1, <3>3, <4>2, <5>1 DEF Comes
      <4>3. CASE DropEnded(d) /\ ToSet(inbox[d]) \subseteq {Head(inbox[d])} \cup ToSet(inbox'[d])
        <5>1. Head(inbox[d]) # Started(ring[d])
          BY <4>3 DEF DropEnded, Takes, Started
        <5>. QED BY <2>1, <3>3, <4>3, <5>1 DEF Comes
      <4>. QED BY <1>4, <4>1, <4>2, <4>3, QueuesKeep
    <3>. QED BY <2>2, <3>1, <3>2, <3>3 DEF Listed, Comes
  <2>. QED BY <1>4, <2>1, <2>3, <2>4 DEF Reported, Listed
<1>5. ASSUME NEW d \in Devices
      PROVE  Reported(d)' /\ Listed(d)'
  <2>1. CASE slot'[d].st # "Following"
    BY <2>1 DEF Reported, Listed, IsFollowing
  <2>2. CASE slot'[d].st = "Following"
    BY <1>2, <1>3, <1>4, <2>2, SlotsFollow
  <2>. QED BY <2>1, <2>2
<1>. QED BY <1>1, <1>5 DEF FollowInv


-----------------------------------------------------------------------------
(***************************************************************************)
(* Members that wait for an owner.  As long as Cast refuses nobody, every  *)
(* session and every start is the group's (GroupedInv), an owner that does *)
(* not play is about to be checked or dropped (OwnerKeptInv), and a group  *)
(* without one has promoted a member or is about to (PromotedInv).         *)
(***************************************************************************)
GroupedInv ==
  /\ group.excluded = {} /\ \A t \in Tasks : task[t].failed = {}
  /\ \A d \in Devices : (worker[d].pc = "start" => worker[d].grouped) /\ (slot[d].st = "Playing" => slot[d].grouped)

Lost == ending.on /\ ending.grouped
\* How an owner may be found: x is its slot, w where its worker is.
Kept(x, pc, lost) ==
  x.st # "Following" /\ (x.st = "Starting" => pc = "start") /\ (x.st = "Idle" => pc \in {"start", "check"} \/ lost)
OwnerKeptInv == group.owner # Nobody => Kept(slot[group.owner], worker[group.owner].pc, Lost)

PromotedInv ==
  group.owner = Nobody /\ ToSet(group.followers) # {} =>
    InFollowers(group.promoting) \/ \E d \in Devices : worker[d].pc = "promote"

WaitInv == Unrefused => GroupedInv /\ OwnerKeptInv /\ PromotedInv

LEMMA NoRefusals ==
  ASSUME TypeOK, Unrefused'
  PROVE  ~Fault("refuse") /\ ~Fault("error")
<1>1. faults \in [Kinds -> Nat] /\ "refuse" \in Kinds /\ "error" \in Kinds
  BY DEF TypeOK, Kinds
<1>2. ASSUME NEW k \in Kinds, Fault(k)
      PROVE  faults'[k] # 0
  <2>1. faults' = [faults EXCEPT ![k] = faults[k] + 1] /\ faults[k] \in Nat
    BY <1>1, <1>2 DEF Fault
  <2>2. faults'[k] = faults[k] + 1
    BY <1>1, <2>1
  <2>. QED BY <2>1, <2>2
<1>. QED BY <1>1, <1>2 DEF Unrefused

\* What a step makes of the members Cast refused and of the reconcile tasks' refusals.
LEMMA NobodyRefused ==
  ASSUME TypeInv, RunInv, Unrefused', GroupedInv, [Next]_vars
  PROVE  group'.excluded = {} /\ \A t \in Tasks : task'[t].failed = {}
<1>. DEFINE Goal == group'.excluded = {} /\ \A t \in Tasks : task'[t].failed = {}
<1>1. TypeOK /\ group \in Records /\ task \in [Tasks -> Passes] /\ group.excluded = {} /\ \A t \in Tasks : task[t].failed = {}
  BY DEF TypeInv, TypeOK, GroupedInv
<1>2. NoGroup.excluded = {} /\ NewGroup.excluded = {} /\ NoGroup \in Records /\ NewGroup \in Records
  BY ValuesTyped DEF NoGroup, NewGroup
<1>3. ASSUME NEW g \in Records, Schedule(g) \/ (group' = g /\ UNCHANGED task), g.excluded = {}
      PROVE  Goal
  <2>1. group'.excluded = {}
    BY <1>3 DEF Schedule, Records
  <2>2. UNCHANGED task \/ \E u \in Tasks : task' = [task EXCEPT ![u] = [NoTask EXCEPT !.pc = "sleep"]]
    BY <1>3 DEF Schedule
  <2>3. [NoTask EXCEPT !.pc = "sleep"].failed = {}
    BY DEF NoTask
  <2>. QED BY <1>1, <2>1, <2>2, <2>3
<1>4. ASSUME UNCHANGED <<group, task>>
      PROVE  Goal
  BY <1>1, <1>3, <1>4
<1>5. ASSUME NEW g \in Records, group' = g, UNCHANGED task, g.excluded = {}
      PROVE  Goal
  BY <1>3, <1>5
<1>6. ASSUME NEW d \in Devices, EnterFollowing(d) \/ LeaveFollowers(d) \/ Promote(d)
      PROVE  Goal
  <2>1. UNCHANGED task
        /\ \/ \E x : group' = [group EXCEPT !.followers = x]
           \/ \E x : group' = [group EXCEPT !.promoting = x]
    BY <1>6 DEF EnterFollowing, LeaveFollowers, Promote
  <2>2. group'.excluded = group.excluded
    BY <1>1, <2>1 DEF Records
  <2>. QED BY <1>1, <2>1, <2>2
<1>7. ASSUME NEW d \in Devices, EnterOwner(d)
      PROVE  Goal
  <2>. DEFINE g == IF group.here THEN group ELSE NewGroup
  <2>1. UNCHANGED task /\ \E w, x, y, z : group' = [g EXCEPT !.owner = d, !.followers = w, !.promoting = x, !.cast = y, !.host = z]
    BY <1>7 DEF EnterOwner
  <2>2. g.excluded = {} /\ g \in Records
    BY <1>1, <1>2
  <2>. HIDE DEF g
  <2>3. group'.excluded = g.excluded
    BY <2>1, <2>2 DEF Records
  <2>. QED BY <1>1, <2>1, <2>2, <2>3
<1>8. ASSUME NEW d \in Devices, ScheduleJoin(d) \/ RedispatchPromoted(d)
      PROVE  Goal
  BY <1>1, <1>3, <1>8 DEF ScheduleJoin, RedispatchPromoted, Done
<1>9. ASSUME NEW d \in Devices, OwnerPlaying(d) \/ Reloaded(d)
      PROVE  Goal
  <2>1. Confirmed(group, d) \in Records /\ Confirmed(group, d).excluded = group.excluded
    BY <1>1, ConfirmedTyped DEF Confirmed, Records
  <2>. QED BY <1>1, <1>3, <1>4, <1>9, <2>1 DEF OwnerPlaying, Reloaded
<1>10. ASSUME NEW d \in Devices, CheckOwner(d)
       PROVE  Goal
  <2>. DEFINE g == [group EXCEPT !.excluded = @ \ {d},
                                 !.owner = IF group.owner = d THEN Nobody ELSE @,
                                 !.cast = IF group.owner = d THEN <<>> ELSE @,
                                 !.host = IF group.owner = d THEN Nobody ELSE @]
  <2>1. group' \in {group, NoGroup, g} /\ UNCHANGED task
    BY <1>10 DEF CheckOwner
  <2>2. g.excluded = group.excluded \ {d}
    BY <1>1 DEF Records
  <2>. HIDE DEF g
  <2>. QED BY <1>1, <1>2, <2>1, <2>2
<1>11. ASSUME NEW d \in Devices, NothingToPromote(d)
       PROVE  Goal
  <2>. DEFINE g == [group EXCEPT !.host = Nobody]
  <2>1. g \in Records /\ g.excluded = group.excluded
    BY <1>1 DEF Records
  <2>2. Done(d, group) \/ Done(d, NoGroup) \/ Done(d, g)
    BY <1>11 DEF NothingToPromote
  <2>. HIDE DEF g
  <2>. QED BY <1>1, <1>2, <1>3, <2>1, <2>2 DEF Done
<1>12. ASSUME NEW d \in Devices, HandOver(d)
       PROVE  Goal
  <2>1. PICK f \in Devices : Schedule([group EXCEPT !.owner = f, !.followers = Without(@, {f})])
    BY <1>12 DEF HandOver, Survivors
  <2>2. /\ [group EXCEPT !.owner = f, !.followers = Without(@, {f})] \in Records
        /\ [group EXCEPT !.owner = f, !.followers = Without(@, {f})].excluded = group.excluded
    <3>1. Without(group.followers, {f}) \in Seq(Devices)
      BY <1>1, GroupIs
    <3>. QED BY <1>1, <3>1 DEF Records
  <2>. QED BY <1>1, <1>3, <2>1, <2>2
<1>13. ASSUME NEW t \in Tasks, Answer(t) \/ AnswerError(t)
       PROVE  Goal
  <2>1. ~Fault("refuse") /\ ~Fault("error")
    BY <1>1, NoRefusals
  <2>2. task'[t].failed = {} /\ OthersStay(t)
    BY <1>1, <1>13, <2>1, AnswerIs
  <2>3. group'.excluded = group.excluded
    BY <1>1, <1>13, <2>2, AnswerIs
  <2>. QED BY <1>1, <2>2, <2>3 DEF OthersStay
<1>14. ASSUME NEW t \in Tasks, Wake(t) \/ Finish(t)
       PROVE  Goal
  <2>1. \/ UNCHANGED group \/ group' = [group EXCEPT !.dirty = FALSE] \/ group' = [group EXCEPT !.running = FALSE]
    BY <1>14 DEF Wake, Finish
  <2>2. task' = [task EXCEPT ![t] = NoTask] \/ \E pc : task' = [task EXCEPT ![t].pc = pc]
    BY <1>14 DEF Wake, Finish, TaskTo
  <2>3. group'.excluded = group.excluded
    BY <1>1, <2>1 DEF Records
  <2>4. NoTask.failed = {} /\ \A pc : [task[t] EXCEPT !.pc = pc].failed = task[t].failed
    BY <1>1, <1>14 DEF NoTask, Passes
  <2>5. PICK x : task' = [task EXCEPT ![t] = x] /\ x.failed = {}
    <3>1. CASE task' = [task EXCEPT ![t] = NoTask]
      BY <2>4, <3>1
    <3>2. ASSUME NEW pc, task' = [task EXCEPT ![t].pc = pc]
          PROVE  task' = [task EXCEPT ![t] = [task[t] EXCEPT !.pc = pc]] /\ [task[t] EXCEPT !.pc = pc].failed = {}
      BY <1>1, <2>4, <3>2
    <3>. QED BY <2>2, <3>1, <3>2
  <2>6. \A u \in Tasks : task'[u].failed = {}
    BY <1>1, <2>5
  <2>. QED BY <1>1, <2>3, <2>6
<1>15. ASSUME NEW t \in Tasks, Plan(t) \/ Send(t) \/ Refuse(t) \/ Move(t) \/ MoveFails(t)
       PROVE  Goal
  <2>1. OthersStay(t) /\ task'[t].failed = {}
    BY <1>1, <1>15, PlanIs, StepsOn
  <2>2. \/ UNCHANGED group
        \/ \E x : group' = [group EXCEPT !.host = x]
        \/ \E x, y : group' = [group EXCEPT !.cast = x, !.host = y]
    BY <1>15 DEF Plan, Send, Refuse, Move, MoveFails, members
  <2>3. group'.excluded = group.excluded
    BY <1>1, <2>2 DEF Records
  <2>. QED BY <1>1, <2>1, <2>3 DEF OthersStay
<1>16. ASSUME NEW d \in Devices, StallEnd(d)
       PROVE  Goal
  <2>1. group' \in {group, NoGroup} /\ UNCHANGED task
    BY <1>16 DEF StallEnd
  <2>. QED BY <1>1, <1>2, <1>5, <2>1
<1>17. CASE EndLost
  <2>1. group' \in {group, NoGroup} /\ UNCHANGED task
    BY <1>17 DEF EndLost, members
  <2>. QED BY <1>1, <1>2, <1>5, <2>1
<1>18. ASSUME NEW d \in Devices,
              \/ SkipStale(d) \/ StartAlone(d) \/ StartFails(d) \/ Install(d) \/ DropEnded(d) \/ EndFollowing(d)
              \/ EndPlaying(d) \/ CloseStream(d) \/ OpenStream(d)
       PROVE  UNCHANGED <<group, task>>
  BY <1>18 DEF SkipStale, StartAlone, StartFails, Install, DropEnded, EndFollowing, EndPlaying,
               CloseStream, OpenStream, members
<1>19. ASSUME NEW k, CastLost(k) \/ TakeLost(k)
       PROVE  UNCHANGED <<group, task>>
  BY <1>19 DEF CastLost, TakeLost, members
<1>20. CASE UNCHANGED vars
  BY <1>4, <1>20 DEF vars, members
<1>. QED BY <1>4, <1>6, <1>7, <1>8, <1>9, <1>10, <1>11, <1>12, <1>13, <1>14, <1>15, <1>16, <1>17, <1>18, <1>19, <1>20
         DEF Next, Worker, Reconcile

\* Who starts or plays for itself was refused.
LEMMA GroupedKept == TypeInv /\ RunInv /\ Unrefused' /\ GroupedInv /\ [Next]_vars => GroupedInv'
<1>. SUFFICES ASSUME TypeInv, RunInv, Unrefused', GroupedInv, [Next]_vars, NEW d \in Devices
              PROVE  (worker'[d].pc = "start" => worker'[d].grouped) /\ (slot'[d].st = "Playing" => slot'[d].grouped)
  BY NobodyRefused DEF GroupedInv
<1>. DEFINE StartOk == worker'[d].pc = "start" => worker'[d].grouped
            PlayOk  == slot'[d].st = "Playing" => slot'[d].grouped
<1>1. /\ TypeOK /\ WorkType /\ DOMAIN worker = Devices /\ DOMAIN slot = Devices /\ group.excluded = {}
      /\ (worker[d].pc = "start" => worker[d].grouped) /\ (slot[d].st = "Playing" => slot[d].grouped)
  BY TypesGive DEF TypeInv, TypeOK, GroupedInv
<1>2. ASSUME worker'[d] = worker[d] \/ worker'[d].pc # "start"
      PROVE  StartOk
  BY <1>1, <1>2
<1>3. ASSUME slot'[d] = slot[d] \/ slot'[d].st # "Playing"
      PROVE  PlayOk
  BY <1>1, <1>3
<1>4. Idle.st # "Playing" /\ (\A r : Starting(r).st # "Playing" /\ Following(r).st # "Playing")
      /\ \A r, s : Playing(r, s, TRUE).grouped
  BY DEF Idle, Starting, Following, Playing
<1>5. ASSUME NEW e \in Devices, StartAlone(e)
      PROVE  FALSE
  BY <1>1, <1>5 DEF StartAlone
<1>6. ASSUME NEW e \in Devices, EnterOwner(e)
      PROVE  StartOk /\ PlayOk
  <2>1. WorkerTo(e, [At("start") EXCEPT !.session = begun + 1, !.grouped = TRUE])
        /\ slot' = [slot EXCEPT ![e] = Starting(ring[e])]
    BY <1>6 DEF EnterOwner, Accept
  <2>2. [At("start") EXCEPT !.session = begun + 1, !.grouped = TRUE].grouped
    BY DEF At, Resting
  <2>. QED BY <1>1, <1>3, <1>4, <2>1, <2>2 DEF WorkerTo
<1>7. ASSUME NEW e \in Devices, Install(e)
      PROVE  StartOk /\ PlayOk
  <2>1. StartOk
    BY <1>1, <1>2, <1>7, NothingStarts
  <2>2. worker[e].grouped = TRUE
    BY <1>1, <1>7 DEF Install, GroupedInv, WorkType, IsWork
  <2>3. UNCHANGED slot \/ slot' = [slot EXCEPT ![e] = Playing(slot[e].ring, worker[e].session, worker[e].grouped)]
    BY <1>7 DEF Install
  <2>4. slot'[d] = slot[d] \/ slot'[d] = Playing(slot[e].ring, worker[e].session, TRUE)
    BY <1>1, <2>2, <2>3
  <2>5. PlayOk
    BY <1>3, <1>4, <2>4
  <2>. QED BY <2>1, <2>5
<1>8. ASSUME NEW e \in Devices, HandOver(e)
      PROVE  StartOk /\ PlayOk
  <2>1. PICK f \in Devices : slot' = [slot EXCEPT ![e] = Idle, ![f] = Playing(slot[f].ring, slot[e].session, TRUE)]
    BY <1>8 DEF HandOver, Survivors
  <2>2. slot'[d] \in {slot[d], Idle, Playing(slot[f].ring, slot[e].session, TRUE)}
    BY <1>1, <2>1
  <2>3. StartOk
    BY <1>2, <1>8 DEF HandOver
  <2>4. PlayOk
    BY <1>3, <1>4, <2>2
  <2>. QED BY <2>3, <2>4
<1>9. EndGroupSlots[d] \in {Idle, slot[d]} /\ DOMAIN EndGroupSlots = Devices
  BY DEF EndGroupSlots
<1>10. ASSUME NEW e \in Devices, EnterFollowing(e) \/ StartFails(e) \/ EndFollowing(e) \/ EndPlaying(e) \/ StallEnd(e)
       PROVE  StartOk /\ PlayOk
  <2>1. StartOk
    BY <1>1, <1>2, <1>10, NothingStarts
  <2>2. \/ \E x \in {Following(ring[e]), Idle, slot[e]} : slot' = [slot EXCEPT ![e] = x]
        \/ slot' = [EndGroupSlots EXCEPT ![e] = Idle]
    BY <1>10 DEF EnterFollowing, StartFails, EndFollowing, EndPlaying, StallEnd
  <2>3. slot'[d] = slot[d] \/ slot'[d].st # "Playing"
    BY <1>1, <1>4, <1>9, <2>2
  <2>. QED BY <1>3, <2>1, <2>3
<1>11. ASSUME NEW e \in Devices,
              \/ SkipStale(e) \/ ScheduleJoin(e) \/ OwnerPlaying(e) \/ CheckOwner(e) \/ Promote(e) \/ NothingToPromote(e)
              \/ RedispatchPromoted(e) \/ DropEnded(e) \/ LeaveFollowers(e) \/ Reloaded(e) \/ CloseStream(e) \/ OpenStream(e)
       PROVE  StartOk /\ PlayOk
  <2>1. UNCHANGED slot
    BY <1>11 DEF SkipStale, ScheduleJoin, OwnerPlaying, CheckOwner, Promote, NothingToPromote, RedispatchPromoted,
                 DropEnded, LeaveFollowers, Reloaded, CloseStream, OpenStream, members
  <2>2. StartOk
    BY <1>1, <1>2, <1>11, NothingStarts
  <2>. QED BY <1>3, <2>1, <2>2
<1>12. ASSUME NEW k, CastLost(k) \/ TakeLost(k)
       PROVE  StartOk /\ PlayOk
  <2>1. UNCHANGED worker /\ (UNCHANGED slot \/ \E e : slot' = [slot EXCEPT ![e] = Idle])
    BY <1>12 DEF CastLost, TakeLost, members
  <2>. QED BY <1>1, <1>2, <1>3, <1>4, <2>1
<1>13. CASE EndLost
  <2>1. UNCHANGED worker /\ (UNCHANGED slot \/ slot' = EndGroupSlots)
    BY <1>13 DEF EndLost, members
  <2>. QED BY <1>1, <1>2, <1>3, <1>4, <1>9, <2>1
<1>14. ASSUME NEW t \in Tasks, Reconcile(t)
       PROVE  StartOk /\ PlayOk
  <2>1. UNCHANGED <<slot, worker>>
    BY <1>14, TypesGive, TasksKeep
  <2>. QED BY <1>2, <1>3, <2>1
<1>15. CASE UNCHANGED vars
  BY <1>2, <1>3, <1>15 DEF vars, members
<1>16. StartOk /\ PlayOk
  BY <1>5, <1>6, <1>7, <1>8, <1>10, <1>11, <1>12, <1>13, <1>14, <1>15 DEF Next, Worker
<1>. QED BY <1>16

\* Who owns the record that a step leaves: its owner, a member that starts to, or one that
\* took the session over.
LEMMA OwnersAre ==
  ASSUME TypeInv, RunInv, [Next]_vars
  PROVE  \/ group'.owner = Nobody
         \/ group'.owner = group.owner
         \/ EnterOwner(group'.owner) /\ group'.owner \in Devices
         \/ \E d \in Devices : HandOver(d) /\ group'.owner \in Devices /\ slot'[group'.owner].st = "Playing"
<1>. DEFINE Goal == \/ group'.owner = Nobody
                    \/ group'.owner = group.owner
                    \/ EnterOwner(group'.owner) /\ group'.owner \in Devices
                    \/ \E d \in Devices : HandOver(d) /\ group'.owner \in Devices /\ slot'[group'.owner].st = "Playing"
<1>1. TypeOK /\ Shape /\ group \in Records /\ DOMAIN slot = Devices
  BY TypesGive DEF TypeInv, TypeOK
<1>2. NoGroup.owner = Nobody /\ NoGroup \in Records /\ NewGroup \in Records
  BY ValuesTyped DEF NoGroup
<1>3. ASSUME OwnerStays
      PROVE  Goal
  BY <1>3 DEF OwnerStays
<1>4. ASSUME NEW d \in Devices,
             \/ SkipStale(d) \/ StartAlone(d) \/ EnterFollowing(d) \/ ScheduleJoin(d) \/ StartFails(d) \/ Install(d)
             \/ OwnerPlaying(d) \/ Promote(d) \/ RedispatchPromoted(d) \/ DropEnded(d) \/ EndFollowing(d)
             \/ LeaveFollowers(d) \/ EndPlaying(d) \/ Reloaded(d) \/ CloseStream(d) \/ OpenStream(d)
      PROVE  Goal
  BY <1>1, <1>3, <1>4, OtherWorkersKeep
<1>5. ASSUME NEW t \in Tasks, Reconcile(t)
      PROVE  Goal
  BY <1>1, <1>3, <1>5, TasksKeep
<1>6. ASSUME NEW d \in Devices, EnterOwner(d)
      PROVE  Goal
  <2>. DEFINE g == IF group.here THEN group ELSE NewGroup
  <2>1. \E w, x, y, z : group' = [g EXCEPT !.owner = d, !.followers = w, !.promoting = x, !.cast = y, !.host = z]
    BY <1>6 DEF EnterOwner
  <2>2. g \in Records
    BY <1>1, <1>2
  <2>. HIDE DEF g
  <2>3. group'.owner = d
    BY <2>1, <2>2 DEF Records
  <2>. QED BY <1>6, <2>3
<1>7. ASSUME NEW d \in Devices, HandOver(d)
      PROVE  Goal
  <2>1. PICK f \in Devices : /\ Schedule([group EXCEPT !.owner = f, !.followers = Without(@, {f})])
                             /\ slot' = [slot EXCEPT ![d] = Idle, ![f] = Playing(slot[f].ring, slot[d].session, TRUE)]
    BY <1>7 DEF HandOver, Survivors
  <2>2. group'.owner = f
    BY <1>1, <2>1 DEF Schedule, Records
  <2>3. slot'[f].st = "Playing"
    BY <1>1, <2>1 DEF Playing
  <2>. QED BY <1>7, <2>2, <2>3
<1>8. ASSUME NEW d \in Devices, CheckOwner(d)
      PROVE  Goal
  <2>. DEFINE g == [group EXCEPT !.excluded = @ \ {d},
                                 !.owner = IF group.owner = d THEN Nobody ELSE @,
                                 !.cast = IF group.owner = d THEN <<>> ELSE @,
                                 !.host = IF group.owner = d THEN Nobody ELSE @]
  <2>1. group' \in {group, NoGroup, g}
    BY <1>8 DEF CheckOwner
  <2>2. g.owner \in {group.owner, Nobody}
    BY <1>1 DEF Records
  <2>. HIDE DEF g
  <2>. QED BY <1>2, <2>1, <2>2
<1>9. ASSUME NEW d \in Devices, NothingToPromote(d)
      PROVE  Goal
  <2>. DEFINE g == [group EXCEPT !.host = Nobody]
  <2>1. g \in Records /\ g.owner = group.owner
    BY <1>1 DEF Records
  <2>2. Done(d, group) \/ Done(d, NoGroup) \/ Done(d, g)
    BY <1>9 DEF NothingToPromote
  <2>3. \A x \in Records : Done(d, x) => group'.owner = x.owner
    BY DEF Done, Schedule, Records
  <2>. HIDE DEF g
  <2>. QED BY <1>1, <1>2, <2>1, <2>2, <2>3
<1>10. ASSUME NEW d \in Devices, StallEnd(d)
       PROVE  Goal
  BY <1>2, <1>10 DEF StallEnd
<1>11. CASE EndLost
  BY <1>2, <1>11 DEF EndLost, members
<1>12. ASSUME NEW k, CastLost(k) \/ TakeLost(k)
       PROVE  Goal
  BY <1>12 DEF CastLost, TakeLost, members
<1>13. CASE UNCHANGED vars
  BY <1>13 DEF vars, members
<1>14. Goal
  BY <1>4, <1>5, <1>6, <1>7, <1>8, <1>9, <1>10, <1>11, <1>12, <1>13 DEF Next, Worker
<1>. QED BY <1>14 DEF Goal

\* The slot and the worker of an owner, as a step that keeps the owner leaves them.
LEMMA OwnerKeeps ==
  ASSUME TypeInv, RunInv, GroupedInv, [Next]_vars, NEW o \in Devices, group.owner = o, group'.owner = o,
         Kept(slot[o], worker[o].pc, Lost)
  PROVE  Kept(slot'[o], worker'[o].pc, Lost')
<1>. DEFINE Goal == Kept(slot'[o], worker'[o].pc, Lost')
<1>1. /\ TypeOK /\ DOMAIN worker = Devices /\ DOMAIN slot = Devices /\ o # Nobody /\ slot[o] \in Slots
      /\ group.excluded = {} /\ worker \in [Devices -> Workers]
      /\ \A d \in Devices : slot[d].st = "Playing" => slot[d].grouped
  BY NobodyAssumption DEF TypeInv, TypeOK, GroupedInv
<1>2. Idle.st = "Idle" /\ (\A r : Starting(r).st = "Starting") /\ Resting.pc = "idle" /\ (\A pc : At(pc).pc = pc)
  BY DEF Idle, Starting, Resting, At
<1>3. ASSUME slot'[o] = slot[o], worker'[o] = worker[o], Lost' = Lost
      PROVE  Goal
  BY <1>3
<1>4. ASSUME NEW d \in Devices, d # o, Worker(d), ~HandOver(d)
      PROVE  Goal
  <2>1. \/ UNCHANGED worker \/ \E w : worker' = [worker EXCEPT ![d] = w]
    BY <1>4 DEF Worker, SkipStale, StartAlone, EnterFollowing, EnterOwner, ScheduleJoin, StartFails, Install, Accept,
         OwnerPlaying, CheckOwner, Promote, NothingToPromote, RedispatchPromoted, Done, DropEnded, EndFollowing,
         LeaveFollowers, EndPlaying, WorkerTo
  <2>2. \/ UNCHANGED slot \/ \E x : slot' = [slot EXCEPT ![d] = x]
    BY <1>4 DEF Worker, SkipStale, StartAlone, EnterFollowing, EnterOwner, ScheduleJoin, StartFails, Install, Accept,
         OwnerPlaying, CheckOwner, Promote, NothingToPromote, RedispatchPromoted, DropEnded, EndFollowing,
         LeaveFollowers, EndPlaying, members
  <2>3. UNCHANGED ending
    BY <1>4 DEF Worker, SkipStale, StartAlone, EnterFollowing, EnterOwner, ScheduleJoin, StartFails, Install,
         OwnerPlaying, CheckOwner, Promote, NothingToPromote, RedispatchPromoted, DropEnded, EndFollowing,
         LeaveFollowers, EndPlaying, losses
  <2>. QED BY <1>1, <1>3, <1>4, <2>1, <2>2, <2>3 DEF Lost
<1>5. ASSUME NEW d \in Devices, HandOver(d)
      PROVE  Goal
  <2>1. group.owner = d /\ slot[d].st = "Playing"
    BY <1>5 DEF HandOver, Owns
  <2>2. PICK f \in Devices : slot[f].st = "Following" /\ Schedule([group EXCEPT !.owner = f, !.followers = Without(@, {f})])
    BY <1>5 DEF HandOver, Survivors
  <2>3. group'.owner = f
    BY <1>1, <2>2 DEF Schedule, TypeOK, Records
  <2>. QED BY <2>1, <2>2, <2>3
<1>6. Worker(o) => UNCHANGED ending
  BY DEF Worker, SkipStale, StartAlone, EnterFollowing, EnterOwner, ScheduleJoin, StartFails, Install,
         OwnerPlaying, CheckOwner, Promote, NothingToPromote, RedispatchPromoted, DropEnded, EndFollowing,
         LeaveFollowers, HandOver, EndPlaying, losses
<1>7. CASE Worker(o)
  <2>. DEFINE KeptHere == Kept(slot'[o], worker'[o].pc, Lost)
  <2>. SUFFICES KeptHere
    BY <1>6, <1>7 DEF Lost
  <2>1. ASSUME slot'[o] = slot[o], worker[o].pc # "start", worker'[o].pc = "check" \/ worker[o].pc # "check"
        PROVE  KeptHere
    BY <2>1 DEF Kept
  <2>2. ASSUME UNCHANGED slot, NEW w, WorkerTo(o, w), worker[o].pc \notin {"start", "check"}
        PROVE  KeptHere
    BY <2>1, <2>2
  <2>3. ASSUME slot'[o].st = "Idle", worker'[o].pc = "check"
        PROVE  KeptHere
    BY <2>3 DEF Kept
  <2>4. ASSUME slot'[o] = slot[o], slot[o].st # "Starting", worker'[o].pc = "check"
        PROVE  KeptHere
    BY <2>4 DEF Kept
  <2>5. CASE SkipStale(o) \/ ScheduleJoin(o) \/ OwnerPlaying(o) \/ NothingToPromote(o) \/ RedispatchPromoted(o)
             \/ LeaveFollowers(o) \/ Promote(o)
    BY <2>2, <2>5 DEF SkipStale, Takes, ScheduleJoin, OwnerPlaying, NothingToPromote, RedispatchPromoted,
                      LeaveFollowers, Promote, Done, members
  <2>6. ~StartAlone(o) /\ ~EnterFollowing(o) /\ ~EndFollowing(o)
    BY <1>1 DEF StartAlone, EnterFollowing, OwnerLive, EndFollowing, Kept
  <2>7. CASE EnterOwner(o)
    <3>1. WorkerTo(o, [At("start") EXCEPT !.session = begun + 1, !.grouped = TRUE]) /\ slot' = [slot EXCEPT ![o] = Starting(ring[o])]
      BY <2>7 DEF EnterOwner, Accept
    <3>2. [At("start") EXCEPT !.session = begun + 1, !.grouped = TRUE].pc = "start"
      BY DEF At, Resting
    <3>. QED BY <1>1, <1>2, <3>1, <3>2 DEF WorkerTo, Kept
  <2>8. CASE StartFails(o)
    <3>1. worker'[o].pc = "check" /\ slot'[o] = IF slot[o].st = "Starting" THEN Idle ELSE slot[o]
      BY <1>1, <1>2, <2>8 DEF StartFails, WorkerTo
    <3>. QED BY <1>2, <2>3, <2>4, <3>1
  <2>9. CASE Install(o)
    <3>1. CASE slot[o].st = "Starting"
      <4>1. slot'[o].st = "Playing"
        BY <1>1, <2>9, <3>1 DEF Install, Playing
      <4>. QED BY <4>1 DEF Kept
    <3>2. CASE slot[o].st # "Starting"
      <4>1. slot'[o] = slot[o] /\ worker'[o].pc = "check"
        BY <1>1, <1>2, <2>9, <3>2 DEF Install, WorkerTo
      <4>. QED BY <2>4, <3>2, <4>1
    <3>. QED BY <3>1, <3>2
  <2>10. CASE CheckOwner(o)
    <3>1. CASE IsLive(o)
      <4>1. UNCHANGED slot /\ slot[o].st # "Idle" /\ worker[o].pc = "check"
        BY <2>10, <3>1 DEF CheckOwner, IsLive
      <4>. QED BY <4>1 DEF Kept
    <3>2. CASE ~IsLive(o)
      <4>. DEFINE g == [group EXCEPT !.excluded = @ \ {o}, !.owner = Nobody, !.cast = <<>>, !.host = Nobody]
      <4>1. group' \in {NoGroup, g}
        BY <2>10, <3>2 DEF CheckOwner
      <4>2. NoGroup.owner = Nobody /\ g.owner = Nobody
        BY <1>1 DEF NoGroup, TypeOK, Records
      <4>. QED BY <1>1, <4>1, <4>2
    <3>. QED BY <3>1, <3>2
  <2>11. CASE DropEnded(o)
    BY <2>11 DEF DropEnded, members
  <2>12. CASE EndPlaying(o)
    <3>1. slot'[o].st = "Idle" /\ worker'[o].pc = "check"
      BY <1>1, <1>2, <2>12 DEF EndPlaying, WorkerTo
    <3>. QED BY <2>3, <3>1
  <2>13. CASE HandOver(o)
    BY <1>5, <1>6, <1>7, <2>13 DEF Lost
  <2>. QED BY <1>7, <2>5, <2>6, <2>7, <2>8, <2>9, <2>10, <2>11, <2>12, <2>13 DEF Worker
<1>8. ASSUME NEW d \in Devices, Reloaded(d) \/ CloseStream(d) \/ OpenStream(d)
      PROVE  Goal
  <2>1. UNCHANGED <<slot, worker, ending>>
    BY <1>8 DEF Reloaded, CloseStream, OpenStream, members, losses
  <2>. QED BY <1>3, <2>1 DEF Lost
<1>9. ASSUME NEW d \in Devices, StallEnd(d)
      PROVE  Goal
  <2>1. group' = NoGroup
    BY <1>1, <1>9 DEF StallEnd
  <2>. QED BY <1>1, <2>1 DEF NoGroup
<1>10. ASSUME NEW t \in Tasks, Reconcile(t)
       PROVE  Goal
  <2>1. UNCHANGED <<slot, worker>>
    BY <1>10, TypesGive, TasksKeep
  <2>2. UNCHANGED ending
    BY <1>10 DEF Reconcile, Wake, Plan, Send, Answer, AnswerError, Refuse, Move, MoveFails, Finish, losses
  <2>. QED BY <1>3, <2>1, <2>2 DEF Lost
<1>11. ASSUME NEW k, CastLost(k)
       PROVE  Goal
  BY <1>3, <1>11 DEF CastLost, members, Lost
<1>12. ASSUME NEW k \in Keys, TakeLost(k)
       PROVE  Goal
  <2>1. UNCHANGED worker /\ ~Lost
    BY <1>12 DEF TakeLost, Lost
  <2>2. CASE UNCHANGED slot /\ UNCHANGED ending
    BY <1>3, <2>1, <2>2 DEF Lost
  <2>3. CASE \E d \in Devices : /\ ending' = [on |-> TRUE, grouped |-> slot[d].st = "Playing" /\ slot[d].grouped]
                                /\ slot' = [slot EXCEPT ![d] = Idle]
    <3>1. PICK d \in Devices : /\ ending' = [on |-> TRUE, grouped |-> slot[d].st = "Playing" /\ slot[d].grouped]
                               /\ slot' = [slot EXCEPT ![d] = Idle]
      BY <2>3
    <3>2. CASE d = o
      <4>1. slot'[o].st = "Idle"
        BY <1>1, <1>2, <3>1, <3>2
      <4>2. CASE slot[o].st = "Playing"
        BY <1>1, <2>1, <3>1, <3>2, <4>1, <4>2 DEF Lost, Kept
      <4>3. CASE slot[o].st \in {"Starting", "Idle"}
        BY <2>1, <4>1, <4>3 DEF Kept
      <4>. QED BY <1>1, <4>2, <4>3 DEF Kept, Slots
    <3>3. CASE d # o
      <4>1. slot'[o] = slot[o]
        BY <1>1, <3>1, <3>3
      <4>. QED BY <2>1, <4>1 DEF Kept
    <3>. QED BY <3>2, <3>3
  <2>. QED BY <1>12, <2>2, <2>3 DEF TakeLost, PlayingOn
<1>13. CASE EndLost
  <2>1. CASE ending.grouped
    <3>1. group' = NoGroup
      BY <1>13, <2>1 DEF EndLost
    <3>. QED BY <1>1, <3>1 DEF NoGroup
  <2>2. CASE ~ending.grouped
    <3>1. UNCHANGED <<slot, worker>> /\ ~Lost
      BY <1>13, <2>2 DEF EndLost, members, Lost
    <3>. QED BY <3>1 DEF Kept
  <2>. QED BY <2>1, <2>2
<1>14. CASE UNCHANGED vars
  BY <1>3, <1>14 DEF vars, members, losses, Lost
<1>15. ASSUME NEW d \in Devices, Worker(d)
       PROVE  Goal
  BY <1>4, <1>5, <1>7, <1>15
<1>16. Goal
  BY <1>8, <1>9, <1>10, <1>11, <1>12, <1>13, <1>14, <1>15 DEF Next
<1>. QED BY <1>16 DEF Goal

\* An owner plays, or it is about to be found out.
LEMMA OwnerKeptKept == TypeInv /\ RunInv /\ GroupedInv /\ OwnerKeptInv /\ [Next]_vars => OwnerKeptInv'
<1>. SUFFICES ASSUME TypeInv, RunInv, GroupedInv, OwnerKeptInv, [Next]_vars, group'.owner # Nobody
              PROVE  Kept(slot'[group'.owner], worker'[group'.owner].pc, Lost')
  BY DEF OwnerKeptInv
<1>1. TypeOK /\ DOMAIN worker = Devices /\ DOMAIN slot = Devices /\ group.owner \in Devices \cup {Nobody}
  BY DEF TypeInv, TypeOK, Records
<1>2. CASE group'.owner = group.owner
  <2>1. Kept(slot[group.owner], worker[group.owner].pc, Lost)
    BY <1>2 DEF OwnerKeptInv
  <2>. QED BY <1>1, <1>2, <2>1, OwnerKeeps
<1>3. ASSUME NEW o \in Devices, EnterOwner(o)
      PROVE  Kept(slot'[o], worker'[o].pc, Lost')
  <2>1. WorkerTo(o, [At("start") EXCEPT !.session = begun + 1, !.grouped = TRUE]) /\ slot' = [slot EXCEPT ![o] = Starting(ring[o])]
    BY <1>3 DEF EnterOwner, Accept
  <2>2. [At("start") EXCEPT !.session = begun + 1, !.grouped = TRUE].pc = "start" /\ Starting(ring[o]).st = "Starting"
    BY DEF At, Resting, Starting
  <2>. QED BY <1>1, <2>1, <2>2 DEF WorkerTo, Kept
<1>4. ASSUME slot'[group'.owner].st = "Playing"
      PROVE  Kept(slot'[group'.owner], worker'[group'.owner].pc, Lost')
  BY <1>4 DEF Kept
<1>. QED BY <1>2, <1>3, <1>4, OwnersAre

\* A group without an owner has promoted one of its members, or is about to.
LEMMA PromotedKept ==
  TypeInv /\ HereInv /\ RunInv /\ Unrefused' /\ GroupedInv /\ PromotedInv /\ [Next]_vars => PromotedInv'
<1>. DEFINE Goal == PromotedInv'
            SameMembers(g) == /\ g.owner = group.owner /\ ToSet(g.followers) = ToSet(group.followers)
                              /\ g.promoting = group.promoting
            StillPromote == \A e \in Devices : worker[e].pc = "promote" => worker'[e].pc = "promote"
<1>. SUFFICES ASSUME TypeInv, HereInv, RunInv, Unrefused', GroupedInv, PromotedInv, [Next]_vars
              PROVE  Goal
  OBVIOUS
<1>1. /\ TypeOK /\ group \in Records /\ DOMAIN worker = Devices /\ ToSet(<<>>) = {}
      /\ \A S : ToSet(Without(group.followers, S)) = ToSet(group.followers) \ S
  BY GroupIs DEF TypeInv, TypeOK
<1>2. ASSUME SameMembers(group'), StillPromote
      PROVE  Goal
  BY <1>2 DEF PromotedInv, InFollowers
<1>3. ASSUME group'.owner # Nobody \/ group'.followers = <<>>
      PROVE  Goal
  BY <1>1, <1>3 DEF PromotedInv
<1>4. ASSUME NEW d \in Devices, worker'[d].pc = "promote"
      PROVE  Goal
  BY <1>4 DEF PromotedInv
<1>5. ASSUME NEW d \in Devices, NEW w, WorkerTo(d, w), worker[d].pc # "promote"
      PROVE  StillPromote
  BY <1>1, <1>5 DEF WorkerTo
<1>6. ASSUME NEW g \in Records, Schedule(g) \/ (group' = g /\ UNCHANGED task)
      PROVE  group'.owner = g.owner /\ group'.followers = g.followers /\ group'.promoting = g.promoting
  BY <1>6 DEF Schedule, Records
<1>7. ASSUME UNCHANGED group, StillPromote
      PROVE  Goal
  BY <1>2, <1>7
<1>8. NoGroup \in Records /\ NoGroup.followers = <<>>
  BY ValuesTyped DEF NoGroup
<1>9. ASSUME NEW d \in Devices,
             SkipStale(d) \/ StartAlone(d) \/ StartFails(d) \/ Install(d) \/ EndFollowing(d) \/ EndPlaying(d)
      PROVE  Goal
  <2>1. UNCHANGED group /\ worker[d].pc # "promote"
    BY <1>9 DEF SkipStale, StartAlone, StartFails, Install, EndFollowing, EndPlaying, Takes, members
  <2>2. \E w : WorkerTo(d, w)
    BY <1>9 DEF SkipStale, StartAlone, StartFails, Install, EndFollowing, EndPlaying, Accept
  <2>. QED BY <1>5, <1>7, <2>1, <2>2
<1>10. ASSUME NEW d \in Devices, EnterFollowing(d)
       PROVE  Goal
  <2>1. group.owner # Nobody /\ \E x : group' = [group EXCEPT !.followers = x]
    BY <1>10 DEF EnterFollowing, OwnerLive
  <2>2. group'.owner = group.owner
    BY <1>1, <2>1 DEF Records
  <2>. QED BY <1>3, <2>1, <2>2
<1>11. ASSUME NEW d \in Devices, EnterOwner(d) \/ HandOver(d)
       PROVE  Goal
  <2>1. CASE EnterOwner(d)
    <3>. DEFINE g == IF group.here THEN group ELSE NewGroup
    <3>1. \E w, x, y, z : group' = [g EXCEPT !.owner = d, !.followers = w, !.promoting = x, !.cast = y, !.host = z]
      BY <2>1 DEF EnterOwner
    <3>2. g \in Records
      BY <1>1, ValuesTyped
    <3>. HIDE DEF g
    <3>3. group'.owner = d
      BY <3>1, <3>2 DEF Records
    <3>. QED BY <1>3, <3>3, NobodyAssumption
  <2>2. CASE HandOver(d)
    <3>1. PICK f \in Devices : Schedule([group EXCEPT !.owner = f, !.followers = Without(@, {f})])
      BY <2>2 DEF HandOver, Survivors
    <3>2. group'.owner = f
      BY <1>1, <3>1 DEF Schedule, Records
    <3>. QED BY <1>3, <3>2, NobodyAssumption
  <2>. QED BY <1>11, <2>1, <2>2
<1>12. ASSUME NEW d \in Devices, ScheduleJoin(d) \/ RedispatchPromoted(d)
       PROVE  Goal
  <2>1. Schedule(group) \/ (group' = group /\ UNCHANGED task)
    BY <1>12 DEF ScheduleJoin, RedispatchPromoted, Done
  <2>2. worker[d].pc # "promote" /\ \E w : WorkerTo(d, w)
    BY <1>12 DEF ScheduleJoin, RedispatchPromoted, Done
  <2>3. SameMembers(group')
    BY <1>1, <1>6, <2>1
  <2>. QED BY <1>2, <1>5, <2>2, <2>3
<1>13. ASSUME NEW d \in Devices, OwnerPlaying(d) \/ Reloaded(d)
       PROVE  Goal
  <2>1. /\ Confirmed(group, d) \in Records /\ Confirmed(group, d).followers = group.followers
        /\ Confirmed(group, d).owner = group.owner /\ Confirmed(group, d).promoting = group.promoting
    BY <1>1, ConfirmedTyped DEF Confirmed, Records
  <2>2. UNCHANGED group \/ Schedule(Confirmed(group, d))
    BY <1>13 DEF OwnerPlaying, Reloaded
  <2>3. SameMembers(group')
    BY <1>1, <1>6, <2>1, <2>2
  <2>4. UNCHANGED worker \/ (worker[d].pc # "promote" /\ \E w : WorkerTo(d, w))
    BY <1>13 DEF OwnerPlaying, Reloaded
  <2>. QED BY <1>2, <1>5, <2>3, <2>4
<1>14. ASSUME NEW d \in Devices, CheckOwner(d)
       PROVE  Goal
  <2>1. worker[d].pc # "promote" /\ \E w : WorkerTo(d, w)
    BY <1>14 DEF CheckOwner
  <2>2. CASE IsLive(d)
    BY <1>5, <1>7, <1>14, <2>1, <2>2 DEF CheckOwner
  <2>3. CASE ~IsLive(d) /\ group.owner = d
    <3>1. WorkerTo(d, At("promote"))
      BY <1>14, <2>3 DEF CheckOwner, AfterCheck
    <3>2. worker'[d].pc = "promote"
      BY <1>1, <3>1 DEF WorkerTo, At, Resting
    <3>. QED BY <1>4, <3>2
  <2>4. CASE ~IsLive(d) /\ group.owner # d
    <3>. DEFINE g == [group EXCEPT !.excluded = @ \ {d},
                                 !.owner = IF group.owner = d THEN Nobody ELSE @,
                                 !.cast = IF group.owner = d THEN <<>> ELSE @,
                                 !.host = IF group.owner = d THEN Nobody ELSE @]
    <3>1. group' \in {NoGroup, g}
      BY <1>14, <2>4 DEF CheckOwner
    <3>2. SameMembers(g)
      BY <1>1, <2>4 DEF Records
    <3>. HIDE DEF g
    <3>3. StillPromote
      BY <1>5, <2>1
    <3>. QED BY <1>2, <1>3, <1>8, <3>1, <3>2, <3>3
  <2>. QED BY <2>2, <2>3, <2>4
<1>15. ASSUME NEW d \in Devices, Promote(d)
       PROVE  Goal
  <2>1. group.followers # <<>> /\ group' = [group EXCEPT !.promoting = Head(group.followers)]
    BY <1>15 DEF Promote
  <2>2. Head(group.followers) \in ToSet(group.followers)
    BY <1>1, <2>1, GroupIs, TailIs
  <2>3. group'.promoting \in ToSet(group'.followers)
    BY <1>1, <2>1, <2>2 DEF Records
  <2>. QED BY <2>3 DEF PromotedInv, InFollowers
<1>16. ASSUME NEW d \in Devices, NothingToPromote(d)
       PROVE  Goal
  <2>. DEFINE g == [group EXCEPT !.host = Nobody]
  <2>1. g \in Records /\ g.followers = group.followers /\ g.owner = group.owner /\ g.promoting = group.promoting
    BY <1>1 DEF Records
  <2>2. Done(d, group) \/ (group.followers = <<>> /\ (Done(d, NoGroup) \/ Done(d, g)))
    BY <1>16 DEF NothingToPromote
  <2>. HIDE DEF g
  <2>3. CASE group.followers = <<>>
    <3>1. group'.followers = <<>>
      BY <1>1, <1>6, <1>8, <2>1, <2>2, <2>3 DEF Done
    <3>. QED BY <1>3, <3>1
  <2>4. CASE group.followers # <<>>
    <3>1. ~Promotable /\ SameMembers(group')
      BY <1>1, <1>6, <1>16, <2>2, <2>4 DEF Done, NothingToPromote
    <3>2. CASE ~group.here \/ group.owner # Nobody
      BY <3>1, <3>2 DEF HereInv, PromotedInv
    <3>3. CASE InFollowers(group.promoting)
      BY <3>1, <3>3 DEF InFollowers, PromotedInv
    <3>. QED BY <3>1, <3>2, <3>3 DEF Promotable
  <2>. QED BY <2>3, <2>4
<1>17. ASSUME NEW d \in Devices, LeaveFollowers(d)
       PROVE  Goal
  <2>1. WorkerTo(d, [At("promote") EXCEPT !.then = TRUE])
    BY <1>17 DEF LeaveFollowers
  <2>2. worker'[d].pc = "promote"
    BY <1>1, <2>1 DEF WorkerTo, At, Resting
  <2>. QED BY <1>4, <2>2
<1>18. ASSUME NEW d \in Devices, StallEnd(d)
       PROVE  Goal
  <2>1. group' \in {group, NoGroup} /\ UNCHANGED worker
    BY <1>18 DEF StallEnd
  <2>. QED BY <1>3, <1>7, <1>8, <2>1
<1>19. CASE EndLost
  <2>1. group' \in {group, NoGroup} /\ UNCHANGED worker
    BY <1>19 DEF EndLost, members
  <2>. QED BY <1>3, <1>7, <1>8, <2>1
<1>20. ASSUME NEW t \in Tasks, Answer(t) \/ AnswerError(t)
       PROVE  Goal
  <2>1. task'[t].failed = {}
    BY <1>1, <1>20, AnswerIs, NoRefusals
  <2>2. SameMembers(group') /\ UNCHANGED worker
    BY <1>1, <1>20, <2>1, AnswerIs
  <2>. QED BY <1>2, <2>2
<1>21. ASSUME NEW t \in Tasks, Wake(t) \/ Plan(t) \/ Send(t) \/ Refuse(t) \/ Move(t) \/ MoveFails(t) \/ Finish(t)
       PROVE  Goal
  <2>1. \/ UNCHANGED group
        \/ group' = [group EXCEPT !.dirty = FALSE]
        \/ group' = [group EXCEPT !.running = FALSE]
        \/ \E x : group' = [group EXCEPT !.host = x]
        \/ \E x, y : group' = [group EXCEPT !.cast = x, !.host = y]
    BY <1>21 DEF Wake, Plan, Send, Refuse, Move, MoveFails, Finish, members
  <2>2. SameMembers(group')
    BY <1>1, <2>1 DEF Records
  <2>3. UNCHANGED worker
    BY <1>21 DEF Wake, Plan, Send, Refuse, Move, MoveFails, Finish
  <2>. QED BY <1>2, <2>2, <2>3
<1>22. ASSUME NEW d \in Devices, DropEnded(d) \/ CloseStream(d) \/ OpenStream(d)
       PROVE  Goal
  BY <1>7, <1>22 DEF DropEnded, CloseStream, OpenStream, members
<1>23. ASSUME NEW k, CastLost(k) \/ TakeLost(k)
       PROVE  Goal
  BY <1>7, <1>23 DEF CastLost, TakeLost, members
<1>24. CASE UNCHANGED vars
  BY <1>7, <1>24 DEF vars, members
<1>25. ASSUME NEW d \in Devices, Worker(d)
       PROVE  Goal
  BY <1>9, <1>10, <1>11, <1>12, <1>13, <1>14, <1>15, <1>16, <1>17, <1>22, <1>25 DEF Worker
<1>26. ASSUME NEW t \in Tasks, Reconcile(t)
       PROVE  Goal
  BY <1>20, <1>21, <1>26 DEF Reconcile
<1>27. Goal
  BY <1>13, <1>18, <1>19, <1>22, <1>23, <1>24, <1>25, <1>26 DEF Next
<1>. QED BY <1>27 DEF Goal

LEMMA FollowInit == Init => RecordInv /\ FollowInv /\ WaitInv
<1>. SUFFICES ASSUME Init
              PROVE  RecordInv /\ FollowInv /\ WaitInv
  OBVIOUS
<1>1. /\ \A d \in Devices : slot[d] = Idle /\ worker[d] = Resting /\ ring[d] = 0 /\ inbox[d] = <<>>
      /\ group = NoGroup /\ opened = 0 /\ \A t \in Tasks : task[t] = NoTask
  BY DEF Init
<1>2. Idle.st = "Idle" /\ Resting.pc = "idle" /\ ToSet(<<>>) = {} /\ NoTask.failed = {}
  BY DEF Idle, Resting, ToSet, NoTask
<1>3. RecordInv
  BY <1>1, <1>2 DEF RecordInv, HereInv, RunInv, LeftInv, IsFollowing, NoGroup
<1>4. FollowInv
  BY <1>1, <1>2 DEF FollowInv, StreamsInv, Reported, Listed, IsFollowing
<1>5. WaitInv
  BY <1>1, <1>2 DEF WaitInv, GroupedInv, OwnerKeptInv, PromotedInv, NoGroup
<1>. QED BY <1>3, <1>4, <1>5

LEMMA WaitKept == TypeInv /\ RecordInv /\ WaitInv /\ [Next]_vars => WaitInv'
<1>. SUFFICES ASSUME TypeInv, RecordInv, WaitInv, [Next]_vars, Unrefused'
              PROVE  GroupedInv' /\ OwnerKeptInv' /\ PromotedInv'
  BY DEF WaitInv
<1>1. Unrefused
  <2>1. /\ faults["refuse"] \in Nat /\ faults["error"] \in Nat
        /\ faults'["refuse"] >= faults["refuse"] /\ faults'["error"] >= faults["error"]
    BY FaultsKept DEF TypeInv, TypeOK, GrowsFaults, Kinds
  <2>. QED BY <2>1 DEF Unrefused
<1>. QED BY <1>1, GroupedKept, OwnerKeptKept, PromotedKept DEF WaitInv, RecordInv

\* Members in the record, their streams and their owner agree, in every behaviour.
THEOREM FollowInvariant == Spec => [](TypeInv /\ RecordInv /\ FollowInv /\ WaitInv)
<1>1. Init => TypeInv /\ RecordInv /\ FollowInv /\ WaitInv
  BY TypesInit, FollowInit
<1>2. TypeInv /\ RecordInv /\ FollowInv /\ WaitInv /\ [Next]_vars => (TypeInv /\ RecordInv /\ FollowInv /\ WaitInv)'
  BY TypesKept, RecordKept, LeftKept, FollowKept, WaitKept DEF RecordInv
<1>. QED BY <1>1, <1>2, PTL DEF Spec

\* For every number of members, streams, sessions and tasks, and with sessions moved, stolen and
\* stalled at any step: as long as Cast refuses no member, nobody that follows is left with
\* neither an owner that plays nor a promoted member to start.
THEOREM NobodyIsForgotten == Spec => []FollowersWait
<1>1. TypeInv /\ RecordInv /\ FollowInv /\ WaitInv => FollowersWait
  <2>. SUFFICES ASSUME TypeInv, RecordInv, FollowInv, WaitInv, Unrefused, Quiescent,
                       NEW d \in Devices, IsFollowing(d), ~InFollowers(group.promoting)
                PROVE  OwnerPlays
    BY DEF FollowersWait
  <2>1. /\ \A e \in Devices : inbox[e] = <<>> /\ worker[e].pc = "idle"
        /\ (\A t \in Tasks : task[t].pc = "off") /\ ~Lost /\ ToSet(<<>>) = {}
    BY DEF Quiescent, Resting, Lost, ToSet
  <2>2. InFollowers(d)
    <3>1. slot[d].ring = ring[d]
      BY <2>1 DEF FollowInv, Reported, Comes
    <3>. QED BY <2>1, <3>1 DEF FollowInv, Listed, Refused, Comes
  <2>3. group.here /\ group.owner # Nobody
    BY <2>1, <2>2 DEF RecordInv, HereInv, InFollowers, WaitInv, PromotedInv
  <2>4. group.owner \in Devices /\ slot[group.owner].st \in {"Idle", "Starting", "Following", "Playing"}
    BY <2>3 DEF TypeInv, TypeOK, Records, Slots
  <2>5. slot[group.owner].st = "Playing"
    BY <2>1, <2>3, <2>4 DEF WaitInv, OwnerKeptInv, Kept
  <2>. QED BY <2>3, <2>5 DEF OwnerPlays
<1>. QED BY <1>1, FollowInvariant, PTL

-----------------------------------------------------------------------------
(***************************************************************************)
(* Members that play.  While the owner plays for the group, a reconcile is *)
(* due, or the record's Cast members are what its membership asks for: up  *)
(* to a request under way, which asks for the membership of now.  That     *)
(* takes one task at a time (OneTask): the older of two asks for a         *)
(* membership of its own time.                                             *)
(***************************************************************************)
OneTask == \A t, u \in Tasks : task[t].pc # "off" /\ task[u].pc # "off" => t = u

\* A reconcile is due: from member d, whose worker is w, or by the task x.
WorkerDue(d, w, owner) ==
  \/ w.pc = "joined" \/ (w.pc = "playing" /\ owner = d) \/ (w.pc \in {"promote", "redispatch"} /\ w.then)
TaskDue(x, dirty) == x.pc \in {"sleep", "plan"} \/ (x.pc # "off" /\ dirty)
Due ==
  \/ \E d \in Devices : WorkerDue(d, worker[d], group.owner)
  \/ \E t \in Tasks : TaskDue(task[t], group.dirty)

Flying(x)  == x.pc \in {"flight", "sent"}
Members    == {group.owner} \cup ToSet(group.followers)
Follows(d) == IsFollowing(d) /\ InFollowers(d)

AsksForAll == \A t \in Tasks : Flying(task[t]) =>
  /\ \A d \in Devices : Follows(d) => d \in ToSet(task[t].desired)
  /\ group.owner \in ToSet(task[t].desired) /\ ToSet(task[t].desired) \subseteq Members
  /\ group.owner \notin task[t].added
AllPlay == \A d \in Devices : Follows(d) =>
  \/ group.cast = <<>> \/ d \in ToSet(group.cast)
  \/ \E t \in Tasks : Flying(task[t]) /\ d \in task[t].added
NoneElse ==
  \/ group.cast = <<>> \/ \E t \in Tasks : Flying(task[t])
  \/ group.owner \in ToSet(group.cast) /\ ToSet(group.cast) \subseteq Members

PlayInv == GroupPlays /\ ~Due => AsksForAll /\ AllPlay /\ (faults["error"] = 0 => NoneElse)

\* A step that changes neither the members nor what is asked for.
SameGroup(g) ==
  /\ g.owner = group.owner /\ g.dirty = group.dirty
  /\ ToSet(g.followers) = ToSet(group.followers) /\ g.cast \in {group.cast, <<>>}
SameTask(x, y) ==
  /\ Flying(y) <=> Flying(x)
  /\ Flying(y) => SamePlan(x, y)
  /\ TaskDue(x, group.dirty) => TaskDue(y, group.dirty)
Calm ==
  /\ GroupPlays /\ ~Due /\ SameGroup(group')
  /\ \A t \in Tasks : SameTask(task[t], task'[t])

LEMMA CalmIs ==
  ASSUME TypeInv, HereInv, GroupPlays', ~Due', SameGroup(group'),
         slot'[group.owner] = slot[group.owner] \/ slot'[group.owner].st # "Playing",
         \A d \in Devices : worker'[d] = worker[d] \/ ~WorkerDue(d, worker[d], group.owner),
         \A t \in Tasks : SameTask(task[t], task'[t])
  PROVE  Calm
<1>1. group'.owner = group.owner /\ group'.dirty = group.dirty /\ group.dirty \in BOOLEAN
  BY DEF SameGroup, TypeInv, TypeOK, Records
<1>2. GroupPlays
  BY <1>1 DEF GroupPlays, HereInv
<1>3. ASSUME NEW d \in Devices, WorkerDue(d, worker[d], group.owner)
      PROVE  FALSE
  BY <1>1, <1>3 DEF Due
<1>4. ASSUME NEW t \in Tasks, TaskDue(task[t], group.dirty)
      PROVE  FALSE
  <2>1. TaskDue(task'[t], group.dirty)
    BY <1>1, <1>4 DEF SameTask
  <2>. QED BY <1>1, <2>1 DEF Due
<1>. QED BY <1>2, <1>3, <1>4 DEF Calm, Due

\* A reconcile that is scheduled for a record that stays is due.
LEMMA ScheduledIsDue ==
  ASSUME TypeInv, NEW g \in Records, Schedule(g), g.running => \E t \in Tasks : task[t].pc # "off"
  PROVE  Due' \/ ~GroupPlays'
<1>1. TypeOK
  BY DEF TypeInv
<1>2. CASE g.here
  <2>1. \/ \E t \in Tasks : task'[t].pc = "sleep"
        \/ \E t \in Tasks : task'[t].pc # "off" /\ group'.dirty
    BY <1>1, <1>2, SchedulesIs
  <2>. QED BY <2>1 DEF Due, TaskDue
<1>3. CASE ~g.here
  BY <1>3 DEF Schedule, GroupPlays
<1>. QED BY <1>2, <1>3

LEMMA WorkersCalm ==
  ASSUME TypeInv, HereInv, RunInv, GroupPlays', ~Due', NEW d \in Devices, Worker(d)
  PROVE  Calm
<1>1. /\ TypeOK /\ group \in Records /\ task \in [Tasks -> Passes] /\ DOMAIN worker = Devices /\ DOMAIN slot = Devices
      /\ worker[d] \in Workers
  BY DEF TypeInv, TypeOK
<1>2. \A t \in Tasks : SameTask(task[t], task[t])
  BY DEF SameTask, SamePlan
<1>3. ASSUME UNCHANGED task, SameGroup(group'),
             slot'[group.owner] = slot[group.owner] \/ slot'[group.owner].st # "Playing",
             UNCHANGED worker \/ ((\E w : WorkerTo(d, w)) /\ ~WorkerDue(d, worker[d], group.owner))
      PROVE  Calm
  <2>1. \A e \in Devices : worker'[e] = worker[e] \/ ~WorkerDue(e, worker[e], group.owner)
    BY <1>1, <1>3 DEF WorkerTo
  <2>2. \A t \in Tasks : SameTask(task[t], task'[t])
    BY <1>2, <1>3
  <2>. QED BY <1>3, <2>1, <2>2, CalmIs
<1>4. SameGroup(group)
  BY DEF SameGroup
<1>5. group'.owner # Nobody /\ group'.here /\ slot'[group'.owner].st = "Playing" /\ slot'[group'.owner].grouped
  BY DEF GroupPlays
<1>6. Idle.st = "Idle" /\ (\A r : Starting(r).st = "Starting" /\ Following(r).st = "Following") /\ (\A pc : At(pc).pc = pc)
      /\ \A r, s, g : Playing(r, s, g).st = "Playing" /\ Playing(r, s, FALSE).grouped = FALSE
  BY DEF Idle, Starting, Following, At, Resting, Playing
<1>7. ASSUME SkipStale(d) \/ StartAlone(d) \/ StartFails(d) \/ DropEnded(d) \/ EndFollowing(d) \/ EndPlaying(d)
      PROVE  Calm
  <2>1. UNCHANGED <<group, task>>
    BY <1>7 DEF SkipStale, StartAlone, StartFails, DropEnded, EndFollowing, EndPlaying, members
  <2>2. UNCHANGED worker \/ ((\E w : WorkerTo(d, w)) /\ worker[d].pc \in {"idle", "start"})
    BY <1>7 DEF SkipStale, StartAlone, StartFails, DropEnded, EndFollowing, EndPlaying, Takes, Accept
  <2>3. UNCHANGED slot \/ \E x \in {Starting(ring[d]), Idle, slot[d]} : slot' = [slot EXCEPT ![d] = x]
    BY <1>7 DEF SkipStale, StartAlone, StartFails, DropEnded, EndFollowing, EndPlaying, Accept, members
  <2>4. slot'[group.owner] = slot[group.owner] \/ slot'[group.owner].st # "Playing"
    <3>1. CASE UNCHANGED slot
      BY <3>1
    <3>2. ASSUME NEW x \in {Starting(ring[d]), Idle, slot[d]}, slot' = [slot EXCEPT ![d] = x], group.owner = d
          PROVE  slot'[d] = slot[d] \/ slot'[d].st # "Playing"
      BY <1>1, <1>6, <3>2
    <3>3. ASSUME NEW x, slot' = [slot EXCEPT ![d] = x], group.owner # d
          PROVE  slot'[group.owner] = slot[group.owner]
      BY <3>3
    <3>. QED BY <2>3, <3>1, <3>2, <3>3
  <2>. QED BY <1>3, <1>4, <2>1, <2>2, <2>4 DEF WorkerDue
<1>8. ASSUME Install(d)
      PROVE  Calm
  <2>1. UNCHANGED <<group, task>> /\ worker[d].pc = "start" /\ \E w : WorkerTo(d, w)
    BY <1>8 DEF Install
  <2>2. slot'[group.owner] = slot[group.owner]
    <3>1. CASE group.owner # d \/ slot[d].st # "Starting"
      <4>1. UNCHANGED slot \/ (group.owner # d /\ \E x : slot' = [slot EXCEPT ![d] = x])
        BY <1>8, <3>1 DEF Install
      <4>2. ASSUME NEW x, slot' = [slot EXCEPT ![d] = x], group.owner # d
            PROVE  slot'[group.owner] = slot[group.owner]
        BY <4>2
      <4>. QED BY <4>1, <4>2
    <3>2. CASE group.owner = d /\ slot[d].st = "Starting"
      <4>1. /\ slot' = [slot EXCEPT ![d] = Playing(slot[d].ring, worker[d].session, worker[d].grouped)]
            /\ WorkerTo(d, At(IF worker[d].grouped THEN "playing" ELSE "check"))
        BY <1>8, <3>2 DEF Install
      <4>2. CASE worker[d].grouped
        <5>1. worker'[d].pc = "playing" /\ group'.owner = d
          BY <1>1, <1>6, <2>1, <3>2, <4>1, <4>2 DEF WorkerTo
        <5>. QED BY <5>1 DEF Due, WorkerDue
      <4>3. CASE ~worker[d].grouped
        <5>1. worker[d].grouped = FALSE
          BY <1>1, <4>3 DEF Workers
        <5>2. slot'[d] = Playing(slot[d].ring, worker[d].session, FALSE)
          BY <1>1, <4>1, <5>1
        <5>3. slot'[d].grouped = FALSE
          <6>1. \A r, s : Playing(r, s, FALSE).grouped = FALSE
            BY DEF Playing
          <6>. QED BY <5>2, <6>1
        <5>4. group'.owner = d
          BY <2>1, <3>2
        <5>. QED BY <1>5, <5>3, <5>4
      <4>. QED BY <4>2, <4>3
    <3>. QED BY <3>1, <3>2
  <2>. QED BY <1>3, <1>4, <2>1, <2>2 DEF WorkerDue
<1>9. ASSUME EnterFollowing(d) \/ LeaveFollowers(d)
      PROVE  FALSE
  <2>1. WorkerTo(d, At("joined")) \/ WorkerTo(d, [At("promote") EXCEPT !.then = TRUE])
    BY <1>9 DEF EnterFollowing, LeaveFollowers
  <2>2. worker'[d].pc = "joined" \/ (worker'[d].pc = "promote" /\ worker'[d].then)
    BY <1>1, <2>1 DEF WorkerTo, At, Resting
  <2>. QED BY <2>2 DEF Due, WorkerDue
<1>10. ASSUME EnterOwner(d)
       PROVE  FALSE
  <2>. DEFINE g == IF group.here THEN group ELSE NewGroup
  <2>1. /\ \E w, x, y, z : group' = [g EXCEPT !.owner = d, !.followers = w, !.promoting = x, !.cast = y, !.host = z]
        /\ slot' = [slot EXCEPT ![d] = Starting(ring[d])]
    BY <1>10 DEF EnterOwner, Accept
  <2>2. g \in Records
    BY <1>1, ValuesTyped
  <2>. HIDE DEF g
  <2>3. group'.owner = d /\ slot'[d].st = "Starting"
    BY <1>1, <1>6, <2>1, <2>2 DEF Records
  <2>. QED BY <1>5, <2>3
<1>11. ASSUME NEW g \in Records, Schedule(g), g.running => group.running
       PROVE  FALSE
  BY <1>11, ScheduledIsDue DEF RunInv
<1>12. ASSUME ScheduleJoin(d)
       PROVE  FALSE
  BY <1>1, <1>11, <1>12 DEF ScheduleJoin
<1>13. ASSUME OwnerPlaying(d)
       PROVE  Calm
  <2>1. /\ Confirmed(group, d) \in Records /\ Confirmed(group, d).running = group.running
    BY <1>1, ConfirmedTyped DEF Confirmed, Records
  <2>2. ~Schedule(Confirmed(group, d))
    BY <1>11, <2>1
  <2>3. UNCHANGED <<group, task, slot>> /\ (\E w : WorkerTo(d, w)) /\ worker[d].pc = "playing" /\ ~(group.here /\ group.owner = d)
    BY <1>13, <2>2 DEF OwnerPlaying
  <2>4. ~WorkerDue(d, worker[d], group.owner)
    BY <2>3, NobodyAssumption DEF HereInv, WorkerDue
  <2>. QED BY <1>3, <1>4, <2>3, <2>4
<1>14. ASSUME CheckOwner(d)
       PROVE  Calm
  <2>. DEFINE g == [group EXCEPT !.excluded = @ \ {d},
                                 !.owner = IF group.owner = d THEN Nobody ELSE @,
                                 !.cast = IF group.owner = d THEN <<>> ELSE @,
                                 !.host = IF group.owner = d THEN Nobody ELSE @]
  <2>1. UNCHANGED <<task, slot>> /\ worker[d].pc = "check" /\ (\E w : WorkerTo(d, w)) /\ group' \in {group, NoGroup, g}
    BY <1>14 DEF CheckOwner
  <2>2. group.owner # d => SameGroup(g)
    BY <1>1 DEF Records, SameGroup
  <2>3. group.owner = d => g.owner = Nobody
    BY <1>1 DEF Records
  <2>4. ~NoGroup.here
    BY DEF NoGroup
  <2>. HIDE DEF g
  <2>5. SameGroup(group')
    BY <1>4, <1>5, <2>1, <2>2, <2>3, <2>4
  <2>. QED BY <1>3, <2>1, <2>5 DEF WorkerDue
<1>15. ASSUME Promote(d)
       PROVE  FALSE
  <2>1. group.owner = Nobody /\ group' = [group EXCEPT !.promoting = Head(group.followers)]
    BY <1>15 DEF Promote, Promotable
  <2>2. group'.owner = group.owner
    BY <1>1, <2>1 DEF Records
  <2>. QED BY <1>5, <2>1, <2>2
<1>16. ASSUME NothingToPromote(d) \/ RedispatchPromoted(d)
       PROVE  Calm
  <2>. DEFINE g == [group EXCEPT !.host = Nobody]
  <2>1. /\ \/ Done(d, group)
           \/ group.owner = Nobody /\ (Done(d, NoGroup) \/ Done(d, g))
        /\ UNCHANGED slot
    BY <1>16 DEF NothingToPromote, RedispatchPromoted, Promotable
  <2>2. g \in Records /\ g.running = group.running /\ g.owner = group.owner
    BY <1>1 DEF Records
  <2>3. NoGroup \in Records /\ ~NoGroup.running /\ ~NoGroup.here
    BY ValuesTyped DEF NoGroup
  <2>. HIDE DEF g
  <2>4. ~worker[d].then
    BY <1>1, <1>11, <2>1, <2>2, <2>3 DEF Done
  <2>5. UNCHANGED task /\ WorkerTo(d, Resting) /\ group' \in {group, NoGroup, g} /\ (group' = group \/ group.owner = Nobody)
    BY <2>1, <2>4 DEF Done
  <2>6. group' = group
    BY <1>5, <2>2, <2>3, <2>5
  <2>7. ~WorkerDue(d, worker[d], group.owner)
    BY <1>16, <2>4 DEF NothingToPromote, RedispatchPromoted, WorkerDue
  <2>. QED BY <1>3, <1>4, <2>1, <2>5, <2>6, <2>7
<1>17. ASSUME HandOver(d)
       PROVE  FALSE
  <2>1. PICK f \in Devices : Schedule([group EXCEPT !.owner = f, !.followers = Without(@, {f})])
    BY <1>17 DEF HandOver, Survivors
  <2>2. /\ [group EXCEPT !.owner = f, !.followers = Without(@, {f})] \in Records
        /\ [group EXCEPT !.owner = f, !.followers = Without(@, {f})].running = group.running
    <3>1. Without(group.followers, {f}) \in Seq(Devices)
      BY <1>1, GroupIs
    <3>. QED BY <1>1, <3>1 DEF Records
  <2>. QED BY <1>11, <2>1, <2>2
<1>. QED BY <1>7, <1>8, <1>9, <1>10, <1>12, <1>13, <1>14, <1>15, <1>16, <1>17 DEF Worker

\* What a task does besides planning and taking an answer changes no member.
LEMMA TasksCalmly ==
  ASSUME TypeInv, HereInv, GroupPlays', ~Due', NEW t \in Tasks,
         Wake(t) \/ Send(t) \/ Refuse(t) \/ Move(t) \/ MoveFails(t) \/ Finish(t)
  PROVE  Calm
<1>1. /\ TypeOK /\ Shape /\ group \in Records /\ task \in [Tasks -> Passes] /\ group'.here /\ group'.owner # Nobody
  BY TypesGive DEF TypeInv, TypeOK, GroupPlays
<1>2. \A u \in Tasks : SameTask(task[u], task[u])
  BY DEF SameTask, SamePlan
<1>3. UNCHANGED <<slot, worker>>
  BY <1>1, TasksKeep DEF Reconcile
<1>4. ASSUME SameGroup(group'), OthersStay(t), SameTask(task[t], task'[t])
      PROVE  Calm
  <2>1. \A u \in Tasks : SameTask(task[u], task'[u])
    BY <1>2, <1>4 DEF OthersStay
  <2>. QED BY <1>3, <1>4, <2>1, CalmIs
<1>5. CASE Wake(t)
  <2>1. CASE group.here
    <3>1. task' = [task EXCEPT ![t].pc = "plan"]
      BY <1>5, <2>1 DEF Wake, TaskTo
    <3>2. task'[t].pc = "plan"
      BY <1>1, <3>1 DEF Passes
    <3>. QED BY <3>2 DEF Due, TaskDue
  <2>2. CASE ~group.here
    BY <1>1, <1>5, <2>2 DEF Wake
  <2>. QED BY <2>1, <2>2
<1>6. CASE Send(t) \/ Refuse(t) \/ Move(t) \/ MoveFails(t)
  <2>1. /\ OthersStay(t) /\ SamePlan(task[t], task'[t])
        /\ \/ task[t].pc = "flight" /\ task'[t].pc = "sent"
           \/ task[t].pc \in {"refused", "move"} /\ task'[t].pc \in {"move", "finish"}
    BY <1>1, <1>6, StepsOn
  <2>2. SameTask(task[t], task'[t])
    BY <2>1 DEF SameTask, Flying, TaskDue
  <2>3. \/ UNCHANGED group
        \/ \E x : group' = [group EXCEPT !.host = x]
        \/ group' = [group EXCEPT !.cast = <<>>, !.host = Nobody]
    BY <1>6 DEF Send, Refuse, Move, MoveFails, members
  <2>4. SameGroup(group')
    BY <1>1, <2>3 DEF SameGroup, Records
  <2>. QED BY <1>4, <2>1, <2>2, <2>4
<1>7. CASE Finish(t)
  <2>1. CASE group.here /\ group.dirty
    <3>1. task' = [task EXCEPT ![t].pc = "sleep"]
      BY <1>7, <2>1 DEF Finish, TaskTo
    <3>2. task'[t].pc = "sleep"
      BY <1>1, <3>1 DEF Passes
    <3>. QED BY <3>2 DEF Due, TaskDue
  <2>2. CASE group.here /\ ~group.dirty
    <3>1. task[t].pc = "finish" /\ group' = [group EXCEPT !.running = FALSE] /\ task' = [task EXCEPT ![t] = NoTask]
      BY <1>7, <2>2 DEF Finish
    <3>2. SameGroup(group')
      BY <1>1, <3>1 DEF SameGroup, Records
    <3>3. NoTask.pc = "off" /\ OthersStay(t) /\ task'[t] = NoTask
      BY <1>1, <3>1 DEF NoTask, OthersStay
    <3>4. SameTask(task[t], NoTask)
      BY <2>2, <3>1, <3>3 DEF SameTask, Flying, TaskDue
    <3>. QED BY <1>4, <3>2, <3>3, <3>4
  <2>3. CASE ~group.here
    BY <1>1, <1>7, <2>3 DEF Finish
  <2>. QED BY <2>1, <2>2, <2>3
<1>. QED BY <1>5, <1>6, <1>7

\* Who follows after a step that is calm did so before.
LEMMA CalmFollows ==
  ASSUME TypeInv, [Next]_vars, SameGroup(group'), ~Due', NEW d \in Devices, Follows(d)'
  PROVE  Follows(d)
<1>1. InFollowers(d)
  BY DEF Follows, InFollowers, SameGroup
<1>2. slot'[d].st = "Following"
  BY DEF Follows, IsFollowing
<1>3. ~EnterFollowing(d)
  <2>. SUFFICES ASSUME EnterFollowing(d)
                PROVE  FALSE
    OBVIOUS
  <2>1. worker'[d] = At("joined")
    BY DEF EnterFollowing, WorkerTo, TypeInv, TypeOK
  <2>2. worker'[d].pc = "joined"
    BY <2>1 DEF At, Resting
  <2>. QED BY <2>2 DEF Due, WorkerDue
<1>. QED BY <1>1, <1>2, <1>3, SlotsFollow DEF Follows, IsFollowing

LEMMA CalmKeepsPlay ==
  ASSUME TypeInv, [Next]_vars, PlayInv, Calm, ~Due'
  PROVE  PlayInv'
<1>1. /\ GroupPlays /\ ~Due /\ SameGroup(group') /\ AsksForAll /\ AllPlay /\ (faults["error"] = 0 => NoneElse)
      /\ \A t \in Tasks : SameTask(task[t], task'[t])
  BY DEF Calm, PlayInv
<1>2. faults'["error"] = 0 => faults["error"] = 0
  <2>1. faults["error"] \in Nat /\ faults'["error"] \in Nat /\ faults'["error"] >= faults["error"]
    BY FaultsKept DEF TypeInv, TypeOK, GrowsFaults, Kinds, FaultType
  <2>. QED BY <2>1
<1>3. /\ group'.owner = group.owner /\ Members' = Members /\ group'.cast \in {group.cast, <<>>}
      /\ \A d \in Devices : Follows(d)' => Follows(d)
  BY <1>1, CalmFollows DEF SameGroup, Members
<1>4. \A t \in Tasks : /\ Flying(task'[t]) <=> Flying(task[t])
                       /\ Flying(task'[t]) => task'[t].desired = task[t].desired /\ task'[t].added = task[t].added
  BY <1>1 DEF SameTask, SamePlan
<1>5. AsksForAll'
  BY <1>1, <1>3, <1>4 DEF AsksForAll
<1>6. AllPlay'
  BY <1>1, <1>3, <1>4 DEF AllPlay
<1>7. faults'["error"] = 0 => NoneElse'
  BY <1>1, <1>2, <1>3, <1>4 DEF NoneElse
<1>. QED BY <1>5, <1>6, <1>7 DEF PlayInv

\* A plan asks for every member that follows, and for nobody else.
LEMMA PlanKeepsPlay ==
  ASSUME TypeInv, OneTask', NEW t \in Tasks, Plan(t)
  PROVE  PlayInv'
<1>. SUFFICES ASSUME GroupPlays', ~Due'
              PROVE  AsksForAll' /\ AllPlay' /\ NoneElse'
  BY DEF PlayInv
<1>1. /\ TypeOK /\ UNCHANGED <<group, slot>> /\ GroupPlays /\ group.owner \in Devices
      /\ slot[group.owner].st = "Playing"
  BY DEF Plan, members, GroupPlays, TypeInv, TypeOK, Records
<1>2. ToSet(Desired) = {group.owner} \cup {f \in ToSet(group.followers) : slot[f].st = "Following"}
  BY <1>1, DesiredIs
<1>3. \A d \in Devices : (Follows(d)' <=> Follows(d)) /\ (Follows(d) => d \in ToSet(Desired) /\ d # group.owner)
  BY <1>1, <1>2 DEF Follows, IsFollowing, InFollowers
<1>4. ToSet(Desired) \subseteq Members /\ Members' = Members
  BY <1>1, <1>2 DEF Members
<1>5. \A u \in Tasks : Flying(task'[u]) => u = t
  <2>1. task'[t].pc \in {"flight", "finish"}
    BY <1>1, PlanIs
  <2>. QED BY <2>1 DEF OneTask, Flying
<1>6. CASE PlanDue
  <2>1. /\ task'[t].pc = "flight" /\ task'[t].desired = Desired
        /\ task'[t].added = ToSet(Desired) \ (ToSet(group.cast) \cup {group.owner})
    BY <1>1, <1>6, PlanIs
  <2>2. AsksForAll'
    BY <1>1, <1>2, <1>3, <1>4, <1>5, <2>1 DEF AsksForAll
  <2>3. AllPlay' /\ NoneElse'
    BY <1>1, <1>3, <2>1 DEF AllPlay, NoneElse, Flying
  <2>. QED BY <2>2, <2>3
<1>7. CASE ~PlanDue
  <2>1. task'[t].pc = "finish"
    BY <1>1, <1>7, PlanIs
  <2>2. AsksForAll'
    BY <1>5, <2>1 DEF AsksForAll, Flying
  <2>3. group.cast = <<>> \/ Desired = group.cast
    BY <1>1, <1>7 DEF PlanDue
  <2>4. AllPlay'
    BY <1>1, <1>3, <2>3 DEF AllPlay
  <2>5. NoneElse'
    BY <1>1, <1>2, <1>4, <2>3 DEF NoneElse
  <2>. QED BY <2>2, <2>4, <2>5
<1>. QED BY <1>6, <1>7

\* An answer makes the members of now the Cast members, but for those it refuses, which
\* leave the record.
LEMMA AnswerKeepsPlay ==
  ASSUME TypeInv, HereInv, [Next]_vars, OneTask, PlayInv, NEW t \in Tasks, Answer(t) \/ AnswerError(t)
  PROVE  PlayInv'
<1>. SUFFICES ASSUME GroupPlays', ~Due'
              PROVE  AsksForAll' /\ AllPlay' /\ (faults'["error"] = 0 => NoneElse')
  BY DEF PlayInv
<1>. DEFINE failed == task'[t].failed
<1>1. /\ TypeOK /\ UNCHANGED <<slot, worker>> /\ OthersStay(t) /\ task[t].pc = "sent" /\ task'[t].pc = "refused"
      /\ failed \subseteq task[t].added
      /\ ~group.here => UNCHANGED group
  BY AnswerIs DEF TypeInv
<1>2. group.here /\ group'.here
  BY <1>1 DEF GroupPlays
<1>3. /\ group'.owner = group.owner /\ group'.dirty = group.dirty
      /\ ToSet(group'.followers) = ToSet(group.followers) \ failed
      /\ AnswerError(t) => group'.cast = group.cast /\ Fault("error") /\ failed = task[t].added
      /\ ~AnswerError(t) => ToSet(group'.cast) = ToSet(task[t].desired) \ failed
  BY <1>1, <1>2, AnswerIs
<1>. HIDE DEF failed
<1>4. GroupPlays
  BY <1>1, <1>2, <1>3 DEF GroupPlays
<1>5. ~Due
  <2>1. ASSUME NEW d \in Devices, WorkerDue(d, worker[d], group.owner)
        PROVE  FALSE
    BY <1>1, <1>3, <2>1 DEF Due
  <2>2. ASSUME NEW u \in Tasks, TaskDue(task[u], group.dirty)
        PROVE  FALSE
    <3>1. TaskDue(task'[u], group'.dirty)
      BY <1>1, <1>3, <2>2 DEF TaskDue, OthersStay
    <3>. QED BY <3>1 DEF Due
  <2>. QED BY <2>1, <2>2 DEF Due
<1>6. AsksForAll /\ AllPlay /\ Flying(task[t])
  BY <1>1, <1>4, <1>5 DEF PlayInv, Flying
<1>7. /\ \A d \in Devices : Follows(d) => d \in ToSet(task[t].desired)
      /\ group.owner \in ToSet(task[t].desired) /\ ToSet(task[t].desired) \subseteq Members
      /\ group.owner \notin failed
  BY <1>1, <1>6 DEF AsksForAll
<1>8. \A u \in Tasks : Flying(task[u]) => u = t
  BY <1>1 DEF OneTask, Flying
<1>9. \A u \in Tasks : ~Flying(task'[u])
  BY <1>1, <1>8 DEF OthersStay, Flying
<1>10. AsksForAll'
  BY <1>9 DEF AsksForAll
<1>11. ASSUME NEW d \in Devices, Follows(d)'
       PROVE  Follows(d) /\ d \notin failed
  BY <1>1, <1>3, <1>11 DEF Follows, IsFollowing, InFollowers
<1>12. AllPlay'
  <2>. SUFFICES ASSUME NEW d \in Devices, Follows(d)'
                PROVE  group'.cast = <<>> \/ d \in ToSet(group'.cast)
    BY DEF AllPlay
  <2>1. CASE AnswerError(t)
    BY <1>3, <1>6, <1>8, <1>11, <2>1 DEF AllPlay
  <2>2. CASE ~AnswerError(t)
    BY <1>3, <1>7, <1>11, <2>2
  <2>. QED BY <2>1, <2>2
<1>13. ASSUME faults'["error"] = 0
       PROVE  NoneElse'
  <2>1. ~AnswerError(t)
    <3>1. AnswerError(t) => Fault("error")
      BY <1>3
    <3>2. Fault("error") => faults'["error"] # 0
      <4>. SUFFICES ASSUME Fault("error")
                    PROVE  faults'["error"] # 0
        OBVIOUS
      <4>1. faults \in [Kinds -> Nat] /\ "error" \in Kinds /\ faults' = [faults EXCEPT !["error"] = faults["error"] + 1]
        BY <1>1 DEF TypeOK, Kinds, Fault
      <4>2. faults["error"] \in Nat /\ faults'["error"] = faults["error"] + 1
        BY <4>1
      <4>. QED BY <4>2
    <3>. QED BY <1>13, <3>1, <3>2
  <2>2. ToSet(group'.cast) = ToSet(task[t].desired) \ failed
    BY <1>3, <2>1
  <2>. QED BY <1>3, <1>7, <2>2 DEF NoneElse, Members
<1>. QED BY <1>10, <1>12, <1>13

\* What happens to a member from outside its worker.
LEMMA OutsideCalm ==
  ASSUME TypeInv, HereInv, RunInv, GroupPlays', ~Due',
         \/ \E d \in Devices : Reloaded(d) \/ StallEnd(d) \/ CloseStream(d) \/ OpenStream(d)
         \/ \E k \in Keys : CastLost(k) \/ TakeLost(k)
         \/ EndLost \/ UNCHANGED vars
  PROVE  Calm
<1>1. /\ TypeOK /\ group \in Records /\ DOMAIN slot = Devices /\ group'.here /\ group'.owner \in Devices
      /\ slot'[group'.owner].st = "Playing"
  BY GroupKept DEF TypeInv, TypeOK, GroupPlays, Records, Next
<1>2. ASSUME UNCHANGED <<group, task, worker>>,
             slot'[group.owner] = slot[group.owner] \/ slot'[group.owner].st # "Playing"
      PROVE  Calm
  <2>1. SameGroup(group') /\ \A t \in Tasks : SameTask(task[t], task'[t])
    BY <1>2 DEF SameGroup, SameTask, SamePlan
  <2>. QED BY <1>2, <2>1, CalmIs
<1>3. Idle.st # "Playing" /\ ~NoGroup.here
  BY DEF Idle, NoGroup
<1>4. ASSUME NEW e, slot' = [slot EXCEPT ![e] = Idle], group' = group
      PROVE  slot'[group.owner] = slot[group.owner] \/ slot'[group.owner].st # "Playing"
  BY <1>1, <1>3, <1>4
<1>5. ASSUME NEW d \in Devices, Reloaded(d)
      PROVE  FALSE
  <2>1. Confirmed(group, d) \in Records /\ Confirmed(group, d).running = group.running
    BY <1>1, ConfirmedTyped DEF Confirmed, Records
  <2>2. Schedule(Confirmed(group, d))
    BY <1>5 DEF Reloaded
  <2>. QED BY <2>1, <2>2, ScheduledIsDue DEF RunInv
<1>6. ASSUME NEW d \in Devices, StallEnd(d)
      PROVE  Calm
  <2>1. slot' = [slot EXCEPT ![d] = Idle] /\ UNCHANGED <<group, task, worker>>
    BY <1>1, <1>3, <1>6 DEF StallEnd
  <2>. QED BY <1>2, <1>4, <2>1
<1>7. ASSUME NEW d \in Devices, CloseStream(d) \/ OpenStream(d)
      PROVE  Calm
  BY <1>2, <1>7 DEF CloseStream, OpenStream, members
<1>8. ASSUME NEW k \in Keys, CastLost(k) \/ TakeLost(k)
      PROVE  Calm
  <2>1. UNCHANGED <<group, task, worker>> /\ (UNCHANGED slot \/ \E e : slot' = [slot EXCEPT ![e] = Idle])
    BY <1>8 DEF CastLost, TakeLost, members
  <2>. QED BY <1>2, <1>4, <2>1
<1>9. CASE EndLost
  BY <1>1, <1>2, <1>3, <1>9 DEF EndLost, members
<1>10. CASE UNCHANGED vars
  BY <1>2, <1>10 DEF vars, members
<1>. QED BY <1>5, <1>6, <1>7, <1>8, <1>9, <1>10

LEMMA PlayKept ==
  TypeInv /\ HereInv /\ RunInv /\ OneTask /\ OneTask' /\ PlayInv /\ [Next]_vars => PlayInv'
<1>. SUFFICES ASSUME TypeInv, HereInv, RunInv, OneTask, OneTask', PlayInv, [Next]_vars, GroupPlays', ~Due'
              PROVE  PlayInv'
  BY DEF PlayInv
<1>1. ASSUME Calm
      PROVE  PlayInv'
  BY <1>1, CalmKeepsPlay
<1>2. ASSUME NEW d \in Devices, Worker(d)
      PROVE  PlayInv'
  BY <1>1, <1>2, WorkersCalm
<1>3. ASSUME NEW t \in Tasks, Reconcile(t)
      PROVE  PlayInv'
  <2>1. CASE Plan(t)
    BY <2>1, PlanKeepsPlay
  <2>2. CASE Answer(t) \/ AnswerError(t)
    BY <2>2, AnswerKeepsPlay
  <2>3. CASE Wake(t) \/ Send(t) \/ Refuse(t) \/ Move(t) \/ MoveFails(t) \/ Finish(t)
    BY <1>1, <2>3, TasksCalmly
  <2>. QED BY <1>3, <2>1, <2>2, <2>3 DEF Reconcile
<1>4. CASE \/ \E d \in Devices : Reloaded(d) \/ StallEnd(d) \/ CloseStream(d) \/ OpenStream(d)
           \/ \E k \in Keys : CastLost(k) \/ TakeLost(k)
           \/ EndLost \/ UNCHANGED vars
  BY <1>1, <1>4, OutsideCalm
<1>. QED BY <1>2, <1>3, <1>4 DEF Next

\* The Cast members and the members agree, in every behaviour with one task at a time.
THEOREM PlayInvariant ==
  Spec /\ []OneTask => [](TypeInv /\ RecordInv /\ FollowInv /\ PlayInv)
<1>1. Init => PlayInv
  BY DEF Init, PlayInv, GroupPlays, NoGroup
<1>2. RecordInv => HereInv /\ RunInv
  BY DEF RecordInv
<1>3. TypeInv /\ RecordInv /\ OneTask /\ OneTask' /\ PlayInv /\ [Next]_vars => PlayInv'
  BY <1>2, PlayKept
<1>4. Spec => [](TypeInv /\ RecordInv /\ FollowInv /\ WaitInv)
  BY FollowInvariant
<1>. QED BY <1>1, <1>3, <1>4, PTL DEF Spec

\* What is at rest: the owner's session has members, and who follows is in the record.
LEMMA AtRest ==
  ASSUME TypeInv, FollowInv, Quiescent, GroupPlays
  PROVE  /\ ~Due /\ group.cast # <<>> /\ \A t \in Tasks : ~Flying(task[t])
         /\ \A d \in Devices : IsFollowing(d) => Follows(d)
<1>1. /\ \A d \in Devices : inbox[d] = <<>> /\ worker[d].pc = "idle" /\ ~Unconfirmed(d)
      /\ (\A t \in Tasks : task[t].pc = "off") /\ ToSet(<<>>) = {}
  BY DEF Quiescent, Resting, ToSet
<1>2. ~Due /\ \A t \in Tasks : ~Flying(task[t])
  BY <1>1 DEF Due, WorkerDue, TaskDue, Flying
<1>3. group.cast # <<>>
  <2>1. group.owner \in Devices
    BY DEF GroupPlays, TypeInv, TypeOK, Records
  <2>. QED BY <1>1, <2>1 DEF GroupPlays, Unconfirmed, Owns
<1>4. ASSUME NEW d \in Devices, IsFollowing(d)
      PROVE  Follows(d)
  <2>1. slot[d].ring = ring[d]
    BY <1>1, <1>4 DEF FollowInv, Reported, Comes
  <2>. QED BY <1>1, <1>4, <2>1 DEF FollowInv, Listed, Refused, Comes, Follows
<1>. QED BY <1>2, <1>3, <1>4

\* For every number of members, streams, sessions and faults, and with members that join while a
\* request is in flight at whatever step of the task: as long as the record has one reconcile
\* task at a time, every member that follows ends up in the Cast session.
THEOREM JoinersArePlayed == Spec /\ []OneTask => []FollowersPlay
<1>1. TypeInv /\ RecordInv /\ FollowInv /\ PlayInv => FollowersPlay
  <2>. SUFFICES ASSUME TypeInv, FollowInv, PlayInv, Quiescent, GroupPlays, NEW d \in Devices, IsFollowing(d)
                PROVE  d \in ToSet(group.cast)
    BY DEF FollowersPlay
  <2>. QED BY AtRest DEF PlayInv, AllPlay
<1>. QED BY <1>1, PlayInvariant, PTL

\* And a member that left ends up out of it, unless Cast failed a request.
THEOREM LeaversAreDropped == Spec /\ []OneTask => []CastMatches
<1>1. TypeInv /\ RecordInv /\ FollowInv /\ PlayInv => CastMatches
  <2>. SUFFICES ASSUME TypeInv, FollowInv, PlayInv, Quiescent, GroupPlays, faults["error"] = 0
                PROVE  /\ group.owner \in ToSet(group.cast)
                       /\ ToSet(group.cast) \subseteq {group.owner} \cup ToSet(group.followers)
    BY DEF CastMatches
  <2>. QED BY AtRest DEF PlayInv, NoneElse, Members
<1>. QED BY <1>1, PlayInvariant, PTL

=============================================================================
