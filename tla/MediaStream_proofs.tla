-------------------------- MODULE MediaStream_proofs --------------------------
(***************************************************************************)
(* The bodies of /stream share one ring and one generation counter: for    *)
(* every size of ring, chunk, frame and Content-Length and any number of   *)
(* GETs, no body takes more than a chunk after it lost its generation, no  *)
(* WAV body passes its Content-Length, each that reaches it is signalled   *)
(* once and the signal is not slept through, and no flushed audio is sent. *)
(*                                                                         *)
(* None of this is inductive alone.  That a chunk fits is decided before   *)
(* the pop and used after it (LengthInv); a body that went stale is past   *)
(* the check it could take frames after (StaleInv); what a body holds      *)
(* between pop and send is younger than its GET (FlushInv).                *)
(***************************************************************************)
EXTENDS MediaStream, FiniteSetTheorems, SequenceTheorems, TLAPS

\* The bodies are numbered in the order of their GETs.
OrderInv == \E n \in 0..MaxGets : \A b \in Bodies : body[b].pc = "none" <=> b > n

\* What a body sent has room for what it is about to send.
LengthOf(r) ==
  /\ r.pc = "none" => r.kind = "none"
  /\ r.pc \in {"none", "asked", "head"} \/ r.kind # "wav" => r.sent = 0
  /\ r.kind = "wav" /\ r.pc = "pop" => (Limit - r.sent) \div FrameBytes > 0
  /\ r.kind = "wav" /\ r.pc = "pace" => Len(r.hand) \in 1..((Limit - r.sent) \div FrameBytes)
LengthInv == \A b \in Bodies : LengthOf(body[b])

\* A body that took frames after it lost its generation is past its only chance to.
StaleOf(r, held) ==
  r.stale > 0 => r.stale <= Chunk /\ ~held /\ r.pc \in {"loop", "pace", "ended"}
StaleInv == \A b \in Bodies : StaleOf(body[b], current = b)

\* Only the sender's thread fills the ring it clears: what is in it follows the last flush, and
\* what a body holds follows its GET.
YoungOf(r) ==
  /\ r.pc # "pace" => r.hand = <<>>
  /\ ~budget.pump => \A i \in DOMAIN r.hand : r.hand[i] >= r.born
FlushInv ==
  /\ \A b \in Bodies : YoungOf(body[b])
  /\ ~budget.pump => ~oldSent /\ source = <<>> /\ \A i \in DOMAIN ring : ring[i] = era

StreamInv == TypeOK /\ OrderInv /\ LengthInv /\ EndsAtItsLength /\ StaleInv /\ FlushInv /\ NoLostSignal

-----------------------------------------------------------------------------
(***************************************************************************)
(* Numbers, sequences and counts.                                          *)
(***************************************************************************)
\* A quotient fits, and so does every number of frames up to it.
LEMMA Quotient ==
  ASSUME NEW r \in Nat
  PROVE  /\ r \div FrameBytes \in Nat
         /\ \A n \in 0..(r \div FrameBytes) : n * FrameBytes \in 0..r
<1>. DEFINE q == r \div FrameBytes
<1>1. FrameBytes \in Nat /\ FrameBytes > 0
  BY BoundsAssumption
<1>2. q \in Nat /\ q * FrameBytes <= r
  BY <1>1
<1>3. ASSUME NEW n \in 0..q PROVE n * FrameBytes \in 0..r
  <2>1. n * FrameBytes \in Nat /\ q * FrameBytes \in Nat
    BY <1>1, <1>2
  <2>2. n * FrameBytes <= q * FrameBytes
    BY <1>1, <1>2
  <2>. QED BY <1>2, <2>1, <2>2
<1>. QED BY <1>2, <1>3

LEMMA LeastIs ==
  ASSUME NEW a \in Nat, NEW b \in Nat
  PROVE  Least(a, b) \in Nat /\ Least(a, b) <= a /\ Least(a, b) <= b /\ Least(a, b) \in {a, b}
BY DEF Least

\* What is left of a sequence without its first n elements, and these.
LEMMA RestIs ==
  ASSUME NEW S, NEW q \in Seq(S), NEW n \in 0..Len(q)
  PROVE  /\ Rest(q, n) \in Seq(S) /\ Len(Rest(q, n)) = Len(q) - n
         /\ \A i \in DOMAIN Rest(q, n) : \E j \in DOMAIN q : Rest(q, n)[i] = q[j]
<1>. DEFINE m == n + 1
<1>1. m \in 1..(Len(q) + 1) /\ Len(q) \in (m - 1)..Len(q) /\ \A j \in m..Len(q) : q[j] \in S
  OBVIOUS
<1>2. /\ Len(SubSeq(q, m, Len(q))) = IF m <= Len(q) THEN Len(q) - m + 1 ELSE 0
      /\ SubSeq(q, m, Len(q)) \in Seq(S)
      /\ \A j \in 1..(Len(q) - m + 1) : SubSeq(q, m, Len(q))[j] = q[m + j - 1]
  <2>. HIDE DEF m
  <2>. QED BY <1>1, SubSeqProperties
<1>3. \A i \in DOMAIN Rest(q, n) : i \in 1..(Len(q) - m + 1) /\ m + i - 1 \in DOMAIN q
  BY <1>2 DEF Rest
<1>. QED BY <1>2, <1>3 DEF Rest

LEMMA TakenIs ==
  ASSUME NEW S, NEW q \in Seq(S), NEW n \in 0..Len(q)
  PROVE  /\ SubSeq(q, 1, n) \in Seq(S) /\ Len(SubSeq(q, 1, n)) = n
         /\ \A i \in DOMAIN SubSeq(q, 1, n) : i \in DOMAIN q /\ SubSeq(q, 1, n)[i] = q[i]
<1>1. \A j \in 1..n : q[j] \in S
  OBVIOUS
<1>2. /\ Len(SubSeq(q, 1, n)) = IF 1 <= n THEN n - 1 + 1 ELSE 0
      /\ SubSeq(q, 1, n) \in Seq(S)
      /\ \A j \in 1..(n - 1 + 1) : SubSeq(q, 1, n)[j] = q[1 + j - 1]
  BY <1>1, SubSeqProperties
<1>. QED BY <1>2

LEMMA Elements ==
  ASSUME NEW S, NEW q \in Seq(S)
  PROVE  \A i \in DOMAIN q : q[i] \in S
OBVIOUS

\* A push keeps the ring within its capacity and adds only what is pushed.
LEMMA PushedIs ==
  ASSUME NEW S, NEW q \in Seq(S), NEW more \in Seq(S)
  PROVE  /\ Pushed(q, more) \in Seq(S) /\ Len(Pushed(q, more)) <= Capacity
         /\ \A i \in DOMAIN Pushed(q, more) :
              \/ \E j \in DOMAIN q : Pushed(q, more)[i] = q[j]
              \/ \E j \in DOMAIN more : Pushed(q, more)[i] = more[j]
<1>. DEFINE all == q \o more
            n == IF Len(all) > Capacity THEN Len(all) - Capacity ELSE 0
<1>1. Capacity \in Nat
  BY BoundsAssumption
<1>2. /\ all \in Seq(S) /\ Len(all) = Len(q) + Len(more)
      /\ \A j \in DOMAIN all : (\E k \in DOMAIN q : all[j] = q[k]) \/ (\E k \in DOMAIN more : all[j] = more[k])
  OBVIOUS
<1>3. n \in 0..Len(all) /\ Len(all) - n <= Capacity
  <2>1. Len(all) \in Nat
    BY <1>2
  <2>. HIDE DEF all
  <2>. QED BY <1>1, <2>1
<1>4. Pushed(q, more) = Rest(all, n)
  BY DEF Pushed
<1>5. /\ Rest(all, n) \in Seq(S) /\ Len(Rest(all, n)) = Len(all) - n
      /\ \A i \in DOMAIN Rest(all, n) : \E j \in DOMAIN all : Rest(all, n)[i] = all[j]
  <2>1. all \in Seq(S) /\ n \in 0..Len(all)
    BY <1>2, <1>3
  <2>. HIDE DEF n, all
  <2>. QED BY <2>1, RestIs
<1>6. ASSUME NEW i \in DOMAIN Rest(all, n)
      PROVE  \/ \E j \in DOMAIN q : Rest(all, n)[i] = q[j]
             \/ \E j \in DOMAIN more : Rest(all, n)[i] = more[j]
  <2>. HIDE DEF n, all
  <2>1. PICK j \in DOMAIN all : Rest(all, n)[i] = all[j]
    BY <1>5
  <2>2. (\E k \in DOMAIN q : all[j] = q[k]) \/ (\E k \in DOMAIN more : all[j] = more[k])
    BY <1>2
  <2>. QED BY <2>1, <2>2
<1>. HIDE DEF n, all
<1>. QED BY <1>1, <1>2, <1>3, <1>4, <1>5, <1>6

LEMMA SomeBodies ==
  ASSUME NEW S \in SUBSET Bodies
  PROVE  IsFiniteSet(S) /\ Cardinality(S) \in 0..MaxGets
<1>1. MaxGets \in Nat
  BY BoundsAssumption
<1>2. IsFiniteSet(Bodies) /\ Cardinality(Bodies) = MaxGets
  BY <1>1, FS_Interval DEF Bodies
<1>. QED BY <1>1, <1>2, FS_Subset, FS_CardinalityType

\* The bodies of the GETs so far are the first ones.
LEMMA GetsIs ==
  ASSUME NEW n \in 0..MaxGets, \A b \in Bodies : body[b].pc = "none" <=> b > n
  PROVE  Gets = n
<1>1. MaxGets \in Nat
  BY BoundsAssumption
<1>2. {b \in Bodies : body[b].pc # "none"} = 1..n
  BY <1>1 DEF Bodies
<1>3. Cardinality(1..n) = n
  BY <1>1, FS_Interval
<1>. QED BY <1>2, <1>3 DEF Gets

-----------------------------------------------------------------------------
(***************************************************************************)
(* A step of one body.                                                     *)
(***************************************************************************)
\* The set EndsAtItsLength counts.
Reached == {b \in Bodies : body[b].kind = "wav" /\ body[b].sent >= Limit}

\* A body that turns into nb, the rest being as it was, keeps what is said of every body.
LEMMA BodyTurns ==
  ASSUME StreamInv, NEW b \in Bodies, NEW nb \in Body, body' = [body EXCEPT ![b] = nb],
         UNCHANGED <<handled, era, current, budget>>,
         body[b].pc # "none", nb.pc # "none",
         LengthOf(nb), StaleOf(nb, current = b), YoungOf(nb)
  PROVE  /\ body' \in [Bodies -> Body'] /\ OrderInv' /\ LengthInv' /\ StaleInv'
         /\ (\A c \in Bodies : YoungOf(body[c]))'
<1>1. /\ body \in [Bodies -> Body] /\ Body' = Body
      /\ \A c \in Bodies : body'[c] = IF c = b THEN nb ELSE body[c]
  BY DEF StreamInv, TypeOK, ServerType, Body
<1>2. body' \in [Bodies -> Body']
  BY <1>1
<1>3. OrderInv'
  BY <1>1 DEF StreamInv, OrderInv
<1>4. LengthInv'
  BY <1>1 DEF StreamInv, LengthInv, LengthOf
<1>5. StaleInv'
  BY <1>1 DEF StreamInv, StaleInv, StaleOf
<1>6. (\A c \in Bodies : YoungOf(body[c]))'
  BY <1>1 DEF StreamInv, FlushInv, YoungOf
<1>. QED BY <1>2, <1>3, <1>4, <1>5, <1>6

\* A turn that neither sends nor forgets that the length was reached leaves the count.
LEMMA CountStays ==
  ASSUME StreamInv, NEW b \in Bodies, NEW nb, body' = [body EXCEPT ![b] = nb], UNCHANGED rolled,
         (nb.kind = "wav" /\ nb.sent >= Limit) <=> b \in Reached
  PROVE  EndsAtItsLength'
<1>1. \A c \in Bodies : body'[c] = IF c = b THEN nb ELSE body[c]
  BY DEF StreamInv, TypeOK, ServerType
<1>2. Reached' = Reached
  BY <1>1 DEF Reached
<1>. QED BY <1>2 DEF StreamInv, EndsAtItsLength, Reached

\* A chunk that fits is counted, and the one that reaches the length signals.
LEMMA EmitIs ==
  ASSUME StreamInv, NEW b \in Bodies, NEW bytes, NEW next \in Body,
         next.kind = body[b].kind, next.sent = body[b].sent,
         body[b].kind = "wav" => bytes \in 0..Room(b),
         Emit(b, bytes, next)
  PROVE  /\ RollType' /\ EndsAtItsLength' /\ NoLostSignal' /\ lastWrite' = "fresh"
         /\ \E sent \in 0..Limit :
              /\ body' = [body EXCEPT ![b] = [next EXCEPT !.sent = sent]]
              /\ body[b].kind # "wav" => sent = 0
<1>. DEFINE sent == body[b].sent + IF body[b].kind = "wav" THEN bytes ELSE 0
            nb == [next EXCEPT !.sent = sent]
<1>1. /\ body[b] \in Body /\ Limit \in Nat /\ Limit > 0 /\ body[b].sent \in 0..Limit
      /\ body[b].kind # "wav" => body[b].sent = 0
  BY BoundsAssumption DEF StreamInv, TypeOK, ServerType, Body, LengthInv, LengthOf
<1>2. sent \in 0..Limit /\ (body[b].kind # "wav" => sent = 0)
  BY <1>1 DEF Room
<1>3. nb = [next EXCEPT !.sent = @ + IF next.kind = "wav" THEN bytes ELSE 0] /\ nb \in Body
      /\ nb.kind = body[b].kind /\ nb.sent = sent
  BY <1>2 DEF Body
<1>4. body' = [body EXCEPT ![b] = nb] /\ lastWrite' = "fresh"
  BY <1>3 DEF Emit
<1>5. \A c \in Bodies : body'[c] = IF c = b THEN nb ELSE body[c]
  BY <1>4 DEF StreamInv, TypeOK, ServerType
<1>6. CASE Crosses(b, bytes)
  <2>1. b \notin Reached /\ Reached' = Reached \cup {b}
    <3>1. b \notin Reached
      BY <1>1, <1>6 DEF Reached, Crosses
    <3>2. body[b].kind = "wav" /\ sent >= Limit
      BY <1>1, <1>6 DEF Crosses
    <3>3. nb.kind = "wav" /\ nb.sent >= Limit
      BY <1>3, <3>2
    <3>. HIDE DEF nb
    <3>. QED BY <1>5, <3>1, <3>3 DEF Reached
  <2>2. /\ IsFiniteSet(Reached) /\ Cardinality(Reached \cup {b}) = Cardinality(Reached) + 1
        /\ Cardinality(Reached \cup {b}) \in 0..MaxGets
    <3>1. Reached \in SUBSET Bodies /\ Reached \cup {b} \in SUBSET Bodies
      BY DEF Reached
    <3>. HIDE DEF Reached
    <3>. QED BY <2>1, <3>1, SomeBodies, FS_AddElement
  <2>3. Signal
    BY <1>6 DEF Emit
  <2>4. EndsAtItsLength' /\ rolled' \in 0..MaxGets
    BY <2>1, <2>2, <2>3 DEF StreamInv, EndsAtItsLength, Signal, Reached
  <2>5. RollType' /\ NoLostSignal'
    BY <2>3, <2>4 DEF StreamInv, TypeOK, RollType, NoLostSignal, Signal
  <2>. QED BY <1>2, <1>4, <2>4, <2>5
<1>7. CASE ~Crosses(b, bytes)
  <2>1. (nb.kind = "wav" /\ nb.sent >= Limit) <=> b \in Reached
    BY <1>1, <1>2, <1>3, <1>7 DEF Reached, Crosses, Room
  <2>2. UNCHANGED roll
    BY <1>7 DEF Emit
  <2>3. EndsAtItsLength'
    BY <1>4, <2>1, <2>2, CountStays DEF roll
  <2>4. RollType' /\ NoLostSignal'
    BY <2>2 DEF StreamInv, TypeOK, RollType, NoLostSignal, roll
  <2>. QED BY <1>2, <1>4, <2>3, <2>4
<1>. QED BY <1>6, <1>7

\* What is left to prove of a poll: its turn, what it does to the ring, and its signal.
LEMMA PollKeeps ==
  ASSUME StreamInv, NEW b \in Bodies, NEW nb \in Body, body' = [body EXCEPT ![b] = nb],
         UNCHANGED <<source, era, handled, content, current, session, watch, flight, budget>>,
         body[b].pc # "none", nb.pc # "none",
         LengthOf(nb), StaleOf(nb, current = b), YoungOf(nb),
         ring' \in Seq(0..era), Len(ring') <= Capacity,
         \A i \in DOMAIN ring' : \E j \in DOMAIN ring : ring'[i] = ring[j],
         lastWrite' \in {"never", "fresh", "old"}, oldSent' \in BOOLEAN,
         ~budget.pump => ~oldSent',
         RollType', EndsAtItsLength', NoLostSignal'
  PROVE  StreamInv'
<1>1. /\ body' \in [Bodies -> Body'] /\ OrderInv' /\ LengthInv' /\ StaleInv'
      /\ (\A c \in Bodies : YoungOf(body[c]))'
  BY BodyTurns
<1>2. AudioType' /\ ServerType' /\ SessionType' /\ WatchType' /\ (budget \in Budget)'
  BY <1>1 DEF StreamInv, TypeOK, AudioType, ServerType, SessionType, WatchType, session, watch
<1>3. FlushInv'
  BY <1>1 DEF StreamInv, FlushInv
<1>. QED BY <1>1, <1>2, <1>3 DEF StreamInv, TypeOK

\* A body that has ended: what is left of it.
Ended(kind, sent) == [NoBody EXCEPT !.pc = "ended", !.kind = kind, !.sent = sent]

LEMMA EndedIs ==
  ASSUME TypeOK, NEW kind \in Kinds \cup {"none"}, NEW sent \in 0..Limit
  PROVE  /\ Ended(kind, sent) \in Body /\ Ended(kind, sent).pc = "ended"
         /\ Ended(kind, sent).kind = kind /\ Ended(kind, sent).sent = sent
         /\ Ended(kind, sent).hand = <<>> /\ Ended(kind, sent).stale = 0
<1>1. NoBody \in Body /\ NoBody.hand = <<>> /\ NoBody.stale = 0
  BY BoundsAssumption DEF NoBody, Body, Kinds, TypeOK, AudioType
<1>. QED BY <1>1 DEF Ended, Body

LEMMA EndIs ==
  ASSUME StreamInv, NEW b \in Bodies, body[b].pc \notin {"none", "asked"}, body' = End(b)
  PROVE  \E nb \in Body :
           /\ body' = [body EXCEPT ![b] = nb] /\ nb.pc = "ended" /\ LengthOf(nb)
           /\ StaleOf(nb, current = b) /\ YoungOf(nb)
           /\ (nb.kind = "wav" /\ nb.sent >= Limit) <=> b \in Reached
<1>. DEFINE left == IF Room(b) = 0 THEN Limit ELSE 0
            nb == Ended(body[b].kind, left)
<1>1. /\ body[b] \in Body /\ Limit \in Nat /\ Limit > 0
      /\ body[b].kind \in Kinds \cup {"none"} /\ left \in 0..Limit
      /\ (body[b].kind # "wav" => body[b].sent = 0)
  BY BoundsAssumption DEF StreamInv, TypeOK, ServerType, LengthInv, LengthOf, Body
<1>2. body' = [body EXCEPT ![b] = nb]
  BY DEF End, Ended
<1>3. /\ nb \in Body /\ nb.pc = "ended" /\ nb.kind = body[b].kind /\ nb.hand = <<>> /\ nb.stale = 0
      /\ nb.sent = IF Room(b) = 0 THEN Limit ELSE 0
  BY <1>1, EndedIs DEF StreamInv
<1>. HIDE DEF nb
<1>4. LengthOf(nb) /\ StaleOf(nb, current = b) /\ YoungOf(nb)
  BY <1>1, <1>3 DEF LengthOf, StaleOf, YoungOf, Room, Body
<1>5. (nb.kind = "wav" /\ nb.sent >= Limit) <=> b \in Reached
  BY <1>1, <1>3 DEF Reached, Room, Body
<1>. QED BY <1>2, <1>3, <1>4, <1>5

\* What a pop and a send change of a body besides its length.
Turned(r, pc, hand, stale) == [r EXCEPT !.pc = pc, !.hand = hand, !.stale = stale]

LEMMA TurnedIs ==
  ASSUME NEW r \in Body, NEW pc \in {"loop", "pace", "ended"}, NEW hand \in Seq(0..era),
         NEW stale \in 0..(2 * Chunk)
  PROVE  /\ Turned(r, pc, hand, stale) \in Body
         /\ Turned(r, pc, hand, stale).pc = pc /\ Turned(r, pc, hand, stale).hand = hand
         /\ Turned(r, pc, hand, stale).stale = stale
         /\ Turned(r, pc, hand, stale).kind = r.kind /\ Turned(r, pc, hand, stale).sent = r.sent
         /\ Turned(r, pc, hand, stale).born = r.born
BY DEF Turned, Body

LEMMA PollInv ==
  ASSUME StreamInv, NEW b \in Bodies, Poll(b)
  PROVE  StreamInv'
<1>1. /\ body \in [Bodies -> Body] /\ body[b] \in Body
      /\ ring \in Seq(0..era) /\ Len(ring) <= Capacity /\ era \in Nat /\ handled \in 0..era
      /\ lastWrite \in {"never", "fresh", "old"} /\ oldSent \in BOOLEAN
      /\ ~budget.pump => ~oldSent /\ \A i \in DOMAIN ring : ring[i] = era
      /\ LengthOf(body[b]) /\ StaleOf(body[b], current = b) /\ YoungOf(body[b])
      /\ RollType /\ NoLostSignal
  BY DEF StreamInv, TypeOK, AudioType, ServerType, LengthInv, StaleInv, FlushInv
<1>2. /\ Limit \in Nat /\ Limit > 0 /\ Header \in 0..Limit /\ Chunk \in Nat /\ Chunk > 0
      /\ Preroll \in Nat /\ FrameBytes \in Nat
  BY BoundsAssumption
<1>3. /\ body[b].sent \in 0..Limit /\ Room(b) \in 0..Limit /\ Fits(b) \in Nat
      /\ \A n \in 0..Fits(b) : n * FrameBytes \in 0..Room(b)
  <2>1. body[b].sent \in 0..Limit /\ Room(b) \in 0..Limit
    BY <1>1, <1>2 DEF Body, Room
  <2>. QED BY <2>1, Quotient DEF Fits
<1>4. UNCHANGED <<source, era, handled, content, current, session, watch, flight, budget>>
  BY DEF Poll
<1>5. \A i \in DOMAIN ring : \E j \in DOMAIN ring : ring[i] = ring[j]
  OBVIOUS
\* A poll that does not pop leaves the ring.
<1>6. ASSUME NEW nb \in Body, body' = [body EXCEPT ![b] = nb], UNCHANGED ring,
             body[b].pc # "none", nb.pc # "none",
             LengthOf(nb), StaleOf(nb, current = b), YoungOf(nb),
             lastWrite' \in {"never", "fresh", "old"}, oldSent' \in BOOLEAN,
             ~budget.pump => ~oldSent', RollType', EndsAtItsLength', NoLostSignal'
      PROVE  StreamInv'
  BY <1>1, <1>4, <1>5, <1>6, PollKeeps
\* One that does not send leaves the signal.
<1>7. ASSUME UNCHANGED roll PROVE RollType' /\ NoLostSignal' /\ UNCHANGED rolled
  BY <1>1, <1>7 DEF roll, RollType, NoLostSignal
<1>8. CASE Finish(b) /\ UNCHANGED ring
  <2>1. PICK nb \in Body :
          /\ body' = [body EXCEPT ![b] = nb] /\ nb.pc = "ended" /\ LengthOf(nb)
          /\ StaleOf(nb, current = b) /\ YoungOf(nb)
          /\ (nb.kind = "wav" /\ nb.sent >= Limit) <=> b \in Reached
    BY <1>8, EndIs DEF Finish
  <2>2. UNCHANGED roll /\ UNCHANGED <<lastWrite, oldSent>> /\ body[b].pc # "none"
    BY <1>8 DEF Finish, roll
  <2>3. EndsAtItsLength'
    BY <1>7, <2>1, <2>2, CountStays
  <2>. QED BY <1>1, <1>6, <1>7, <1>8, <2>1, <2>2, <2>3
\* One that sends leaves the body in its loop, with nothing in its hand.
<1>9. ASSUME NEW bytes, NEW next \in Body, next.kind = body[b].kind, next.sent = body[b].sent,
             next.pc = "loop", next.hand = <<>>, next.stale = body[b].stale,
             body[b].pc # "none", body[b].kind = "wav" => bytes \in 0..Room(b),
             Emit(b, bytes, next), UNCHANGED ring, oldSent' \in BOOLEAN, ~budget.pump => ~oldSent'
      PROVE  StreamInv'
  <2>1. /\ RollType' /\ EndsAtItsLength' /\ NoLostSignal' /\ lastWrite' = "fresh"
        /\ \E sent \in 0..Limit :
             /\ body' = [body EXCEPT ![b] = [next EXCEPT !.sent = sent]]
             /\ body[b].kind # "wav" => sent = 0
    BY <1>9, EmitIs
  <2>2. PICK sent \in 0..Limit : /\ body' = [body EXCEPT ![b] = [next EXCEPT !.sent = sent]]
                                 /\ body[b].kind # "wav" => sent = 0
    BY <2>1
  <2>. DEFINE nb == [next EXCEPT !.sent = sent]
  <2>3. /\ nb \in Body /\ nb.pc = "loop" /\ nb.kind = body[b].kind /\ nb.sent = sent
        /\ nb.hand = <<>> /\ nb.stale = body[b].stale
    BY <1>9 DEF Body
  <2>4. body' = [body EXCEPT ![b] = nb]
    BY <2>2
  <2>. HIDE DEF nb
  <2>5. LengthOf(nb) /\ StaleOf(nb, current = b) /\ YoungOf(nb)
    BY <1>1, <2>2, <2>3 DEF LengthOf, StaleOf, YoungOf
  <2>. QED BY <1>6, <1>9, <2>1, <2>3, <2>4, <2>5
<1>10. CASE EmitHeader(b) /\ UNCHANGED ring
  <2>. DEFINE next == [body[b] EXCEPT !.pc = "loop"]
  <2>1. body[b].pc = "head" /\ Emit(b, Header, next) /\ UNCHANGED oldSent
    BY <1>10 DEF EmitHeader
  <2>2. Header \in 0..Room(b) /\ body[b].hand = <<>>
    BY <1>1, <1>2, <2>1 DEF LengthOf, YoungOf, Room
  <2>3. /\ next \in Body /\ next.kind = body[b].kind /\ next.sent = body[b].sent /\ next.pc = "loop"
        /\ next.hand = <<>> /\ next.stale = body[b].stale
    BY <1>1, <2>2 DEF Body
  <2>. HIDE DEF next
  <2>. QED BY <1>1, <1>9, <1>10, <2>1, <2>2, <2>3
<1>11. CASE EmitPreroll(b) /\ UNCHANGED ring
  <2>. DEFINE most == Least(body[b].left, Chunk)
              n == IF body[b].kind = "wav" THEN Least(most, Fits(b)) ELSE most
              next == [body[b] EXCEPT !.left = @ - n]
  <2>1. body[b].pc = "loop" /\ Emit(b, Size(b, n), next) /\ UNCHANGED oldSent
    BY <1>11 DEF EmitPreroll
  <2>2. body[b].left \in 0..Preroll /\ most \in 0..body[b].left /\ n \in 0..body[b].left
        /\ (body[b].kind = "wav" => n \in 0..Fits(b))
    <3>1. body[b].left \in 0..Preroll
      BY <1>1 DEF Body
    <3>2. most \in 0..body[b].left
      <4>1. body[b].left \in Nat /\ Chunk \in Nat
        BY <1>2, <3>1
      <4>2. most \in Nat /\ most <= body[b].left
        BY <4>1, LeastIs
      <4>. HIDE DEF most
      <4>. QED BY <4>1, <4>2
    <3>3. Least(most, Fits(b)) \in 0..most /\ Least(most, Fits(b)) \in 0..Fits(b)
      <4>. HIDE DEF most
      <4>1. most \in Nat /\ Fits(b) \in Nat
        BY <1>3, <3>1, <3>2
      <4>2. Least(most, Fits(b)) \in Nat /\ Least(most, Fits(b)) <= most /\ Least(most, Fits(b)) <= Fits(b)
        BY <4>1, LeastIs
      <4>. QED BY <4>1, <4>2
    <3>. HIDE DEF most
    <3>. QED BY <1>2, <3>1, <3>2, <3>3
  <2>3. body[b].kind = "wav" => Size(b, n) \in 0..Room(b)
    <3>. HIDE DEF n
    <3>. QED BY <1>3, <2>2 DEF Size
  <2>4. /\ next \in Body /\ next.kind = body[b].kind /\ next.sent = body[b].sent /\ next.pc = "loop"
        /\ next.hand = <<>> /\ next.stale = body[b].stale
    <3>1. body[b].hand = <<>> /\ body[b].left - n \in 0..Preroll
      <4>. HIDE DEF n
      <4>. QED BY <1>1, <1>2, <2>1, <2>2 DEF YoungOf
    <3>. HIDE DEF n
    <3>. QED BY <1>1, <2>1, <3>1 DEF Body
  <2>. HIDE DEF next, n
  <2>. QED BY <1>1, <1>9, <1>11, <2>1, <2>3, <2>4
<1>12. CASE EmitPad(b) /\ UNCHANGED ring
  <2>1. body[b].pc = "loop" /\ Emit(b, Size(b, 0), body[b]) /\ UNCHANGED oldSent
    BY <1>12 DEF EmitPad
  <2>2. Size(b, 0) \in 0..Room(b) /\ body[b].hand = <<>>
    BY <1>1, <1>2, <1>3, <1>12, <2>1 DEF EmitPad, Size, YoungOf
  <2>. QED BY <1>1, <1>9, <1>12, <2>1, <2>2
<1>13. CASE CheckGeneration(b) /\ UNCHANGED ring
  <2>. DEFINE nb == [body[b] EXCEPT !.pc = "pop"]
  <2>1. /\ body[b].pc = "loop" /\ current = b /\ (body[b].kind = "wav" => Fits(b) > 0)
        /\ body' = [body EXCEPT ![b] = nb] /\ UNCHANGED <<lastWrite, oldSent>> /\ UNCHANGED roll
    BY <1>1, <1>13 DEF CheckGeneration, MayPop, Superseded, roll
  <2>2. /\ nb \in Body /\ nb.pc = "pop" /\ nb.kind = body[b].kind /\ nb.sent = body[b].sent
        /\ nb.hand = body[b].hand /\ nb.stale = body[b].stale
    BY <1>1 DEF Body
  <2>. HIDE DEF nb
  <2>3. LengthOf(nb) /\ StaleOf(nb, current = b) /\ YoungOf(nb)
    BY <1>1, <2>1, <2>2 DEF LengthOf, StaleOf, YoungOf, Fits, Room
  <2>4. EndsAtItsLength'
    BY <1>7, <2>1, <2>2, CountStays DEF Reached
  <2>. QED BY <1>1, <1>6, <1>7, <1>13, <2>1, <2>2, <2>3, <2>4
<1>14. CASE EmitAudio(b) /\ UNCHANGED ring
  <2>. DEFINE next == [body[b] EXCEPT !.pc = "loop", !.hand = <<>>]
              size == Size(b, Len(body[b].hand))
  <2>1. /\ body[b].pc = "pace" /\ Emit(b, size, next)
        /\ oldSent' = (oldSent \/ \E i \in DOMAIN body[b].hand : body[b].hand[i] < body[b].born)
    BY <1>14 DEF EmitAudio
  <2>2. body[b].kind = "wav" => size \in 0..Room(b)
    <3>1. body[b].kind = "wav" => Len(body[b].hand) \in 1..Fits(b)
      BY <1>1, <2>1 DEF LengthOf, Fits, Room
    <3>. QED BY <1>3, <3>1 DEF Size
  <2>3. /\ next \in Body /\ next.kind = body[b].kind /\ next.sent = body[b].sent /\ next.pc = "loop"
        /\ next.hand = <<>> /\ next.stale = body[b].stale
    <3>1. <<>> \in Seq(0..era) /\ body[b].stale \in 0..(2 * Chunk)
      BY <1>1 DEF Body
    <3>2. next = Turned(body[b], "loop", <<>>, body[b].stale)
      BY <1>1 DEF Turned, Body
    <3>3. body[b] \in Body /\ "loop" \in {"loop", "pace", "ended"}
      BY <1>1
    <3>. DEFINE empty == <<>>
                stale == body[b].stale
    <3>4. empty \in Seq(0..era) /\ stale \in 0..(2 * Chunk) /\ next = Turned(body[b], "loop", empty, stale)
      BY <3>1, <3>2
    <3>. HIDE DEF next, empty, stale
    <3>5. /\ Turned(body[b], "loop", empty, stale) \in Body
          /\ Turned(body[b], "loop", empty, stale).pc = "loop"
          /\ Turned(body[b], "loop", empty, stale).hand = empty
          /\ Turned(body[b], "loop", empty, stale).stale = stale
          /\ Turned(body[b], "loop", empty, stale).kind = body[b].kind
          /\ Turned(body[b], "loop", empty, stale).sent = body[b].sent
      BY <3>3, <3>4, TurnedIs
    <3>. QED BY <3>4, <3>5 DEF empty, stale
  <2>4. oldSent' \in BOOLEAN /\ (~budget.pump => ~oldSent')
    <3>1. body[b].hand \in Seq(0..era) /\ body[b].born \in 0..handled
      BY <1>1 DEF Body
    <3>2. \A i \in DOMAIN body[b].hand : body[b].hand[i] \in 0..era
      BY <3>1, Elements
    <3>3. ~budget.pump => \A i \in DOMAIN body[b].hand : ~(body[b].hand[i] < body[b].born)
      BY <1>1, <3>1, <3>2 DEF YoungOf
    <3>. QED BY <1>1, <2>1, <3>3
  <2>. HIDE DEF next, size
  <2>. QED BY <1>1, <1>9, <1>14, <2>1, <2>2, <2>3, <2>4
<1>15. CASE Pop(b)
  <2>. DEFINE want  == IF body[b].kind = "wav" THEN Least(Chunk, Fits(b)) ELSE Chunk
              n     == Least(want, Len(ring))
              taken == SubSeq(ring, 1, n)
              stale == IF current # b THEN Least(body[b].stale + n, 2 * Chunk) ELSE body[b].stale
              short == n = 0 \/ (body[b].kind = "flac" /\ n < Chunk)
              drop  == body[b].kind = "flac" /\ current # b
              pc    == IF short THEN "loop" ELSE IF drop THEN "ended" ELSE "pace"
              hand  == IF pc = "pace" THEN taken ELSE <<>>
              nb    == Turned(body[b], pc, hand, stale)
  <2>1. body[b].pc = "pop" /\ body[b].stale = 0 /\ body[b].hand = <<>>
    BY <1>1, <1>15 DEF Pop, StaleOf, YoungOf, Body
  <2>2. /\ want \in 0..Chunk /\ want > 0
        /\ body[b].kind = "wav" => want \in 1..Fits(b)
    <3>1. body[b].kind = "wav" => Fits(b) > 0
      BY <1>1, <2>1 DEF LengthOf, Fits, Room
    <3>2. /\ Least(Chunk, Fits(b)) \in Nat /\ Least(Chunk, Fits(b)) <= Chunk
          /\ Least(Chunk, Fits(b)) <= Fits(b) /\ Least(Chunk, Fits(b)) \in {Chunk, Fits(b)}
      BY <1>2, <1>3, LeastIs
    <3>. QED BY <1>2, <1>3, <3>1, <3>2
  <2>3. n \in 0..Len(ring) /\ n \in 0..want
    <3>. HIDE DEF want
    <3>1. want \in Nat /\ Len(ring) \in Nat
      BY <1>1, <1>2, <2>2
    <3>2. n \in Nat /\ n <= want /\ n <= Len(ring)
      BY <3>1, LeastIs
    <3>. HIDE DEF n
    <3>. QED BY <3>1, <3>2
  <2>. HIDE DEF want, n
  <2>4. /\ taken \in Seq(0..era) /\ Len(taken) = n
        /\ \A i \in DOMAIN taken : i \in DOMAIN ring /\ taken[i] = ring[i]
    BY <1>1, <2>3, TakenIs
  <2>5. /\ Rest(ring, n) \in Seq(0..era) /\ Len(Rest(ring, n)) = Len(ring) - n
        /\ \A i \in DOMAIN Rest(ring, n) : \E j \in DOMAIN ring : Rest(ring, n)[i] = ring[j]
    BY <1>1, <2>3, RestIs
  <2>6. /\ stale \in 0..(2 * Chunk) /\ stale <= Chunk /\ stale <= n
        /\ stale > 0 => current # b
    <3>1. body[b].stale + n \in Nat /\ 2 * Chunk \in Nat /\ body[b].stale + n = n
      BY <1>2, <2>1, <2>2, <2>3
    <3>2. Least(n, 2 * Chunk) \in Nat /\ Least(n, 2 * Chunk) <= n
      BY <3>1, LeastIs
    <3>3. n <= Chunk
      BY <1>2, <2>2, <2>3
    <3>. QED BY <1>2, <2>1, <3>1, <3>2, <3>3
  <2>7. pc \in {"loop", "pace", "ended"} /\ hand \in Seq(0..era)
    <3>. HIDE DEF taken, short, drop
    <3>1. <<>> \in Seq(0..era)
      OBVIOUS
    <3>. QED BY <2>4, <3>1
  <2>8. ring' = Rest(ring, n) /\ body' = [body EXCEPT ![b] = nb] /\ UNCHANGED <<lastWrite, oldSent>>
        /\ UNCHANGED roll
    <3>1. [[body[b] EXCEPT !.stale = stale] EXCEPT !.pc = "loop"] = Turned(body[b], "loop", <<>>, stale)
      <4>. HIDE DEF stale
      <4>. QED BY <1>1, <2>1 DEF Turned, Body
    <3>2. [[body[b] EXCEPT !.stale = stale] EXCEPT !.pc = "ended"] = Turned(body[b], "ended", <<>>, stale)
      <4>. HIDE DEF stale
      <4>. QED BY <1>1, <2>1 DEF Turned, Body
    <3>3. [[body[b] EXCEPT !.stale = stale] EXCEPT !.pc = "pace", !.hand = taken]
            = Turned(body[b], "pace", taken, stale)
      <4>. HIDE DEF stale, taken
      <4>. QED BY <1>1 DEF Turned, Body
    <3>4. [body[b] EXCEPT !.stale = IF Superseded(b) THEN Least(@ + n, 2 * Chunk) ELSE @]
            = [body[b] EXCEPT !.stale = stale]
      BY DEF Superseded
    <3>5. /\ ring' = Rest(ring, n)
          /\ body' = [body EXCEPT ![b] =
               IF short THEN [[body[b] EXCEPT !.stale = stale] EXCEPT !.pc = "loop"]
               ELSE IF drop THEN [[body[b] EXCEPT !.stale = stale] EXCEPT !.pc = "ended"]
               ELSE [[body[b] EXCEPT !.stale = stale] EXCEPT !.pc = "pace", !.hand = taken]]
      BY <1>15, <3>4 DEF Pop, Superseded, n, want
    <3>6. UNCHANGED <<lastWrite, oldSent, roll>>
      BY <1>15 DEF Pop
    <3>. HIDE DEF stale, taken, short, drop
    <3>. QED BY <3>1, <3>2, <3>3, <3>5, <3>6 DEF roll
  <2>9. /\ nb \in Body /\ nb.pc = pc /\ nb.hand = hand /\ nb.stale = stale /\ nb.kind = body[b].kind
        /\ nb.sent = body[b].sent /\ nb.born = body[b].born
    <3>. HIDE DEF pc, hand, stale
    <3>1. body[b] \in Body /\ stale \in 0..(2 * Chunk)
      BY <1>1, <2>6
    <3>2. /\ Turned(body[b], pc, hand, stale) \in Body
          /\ Turned(body[b], pc, hand, stale).pc = pc
          /\ Turned(body[b], pc, hand, stale).hand = hand
          /\ Turned(body[b], pc, hand, stale).stale = stale
          /\ Turned(body[b], pc, hand, stale).kind = body[b].kind
          /\ Turned(body[b], pc, hand, stale).sent = body[b].sent
          /\ Turned(body[b], pc, hand, stale).born = body[b].born
      BY <2>7, <3>1, TurnedIs
    <3>. QED BY <3>2
  <2>10. LengthOf(nb)
    <3>1. ~short => n # 0
      OBVIOUS
    <3>. HIDE DEF nb, stale, taken, short, drop
    <3>2. pc = "pace" => Len(hand) = n /\ n # 0
      BY <2>4, <3>1
    <3>3. body[b].kind = "wav" /\ pc = "pace" => Len(hand) \in 1..((Limit - body[b].sent) \div FrameBytes)
      BY <1>3, <2>2, <2>3, <3>2 DEF Fits, Room
    <3>. HIDE DEF pc, hand
    <3>. QED BY <1>1, <2>1, <2>7, <2>9, <3>3 DEF LengthOf
  <2>11. StaleOf(nb, current = b)
    <3>. HIDE DEF nb, stale, taken, short, drop, pc, hand
    <3>. QED BY <2>6, <2>7, <2>9 DEF StaleOf
  <2>12. YoungOf(nb)
    <3>. HIDE DEF nb, stale, short, drop
    <3>1. pc # "pace" => hand = <<>>
      OBVIOUS
    <3>2. ASSUME ~budget.pump, NEW i \in DOMAIN hand PROVE hand[i] >= body[b].born
      <4>1. body[b].born \in 0..handled
        BY <1>1 DEF Body
      <4>2. hand[i] = era
        <5>. HIDE DEF taken
        <5>. QED BY <1>1, <2>4, <3>2
      <4>. HIDE DEF hand
      <4>. QED BY <1>1, <4>1, <4>2
    <3>. HIDE DEF pc, hand
    <3>. QED BY <2>9, <3>1, <3>2 DEF YoungOf
  <2>13. EndsAtItsLength'
    <3>. HIDE DEF nb
    <3>. QED BY <1>7, <2>8, <2>9, CountStays DEF Reached
  <2>14. Len(ring') <= Capacity /\ ring' \in Seq(0..era)
         /\ \A i \in DOMAIN ring' : \E j \in DOMAIN ring : ring'[i] = ring[j]
    <3>1. Capacity \in Nat
      BY BoundsAssumption
    <3>. QED BY <1>1, <2>3, <2>5, <2>8, <3>1
  <2>15. nb.pc # "none"
    <3>. HIDE DEF nb, pc
    <3>. QED BY <2>7, <2>9
  <2>. HIDE DEF nb
  <2>. QED BY <1>1, <1>4, <1>7, <2>1, <2>8, <2>9, <2>10, <2>11, <2>12, <2>13, <2>14, <2>15, PollKeeps
<1>. QED BY <1>8, <1>10, <1>11, <1>12, <1>13, <1>14, <1>15 DEF Poll, Writes
-----------------------------------------------------------------------------
(***************************************************************************)
(* The other steps.                                                        *)
(***************************************************************************)
\* What the body of one step leaves is as true of the rest after it.
LEMMA BodiesStay ==
  ASSUME StreamInv, UNCHANGED body, current' \in {current, 0}, budget'.pump = budget.pump
  PROVE  OrderInv' /\ LengthInv' /\ StaleInv' /\ (\A b \in Bodies : YoungOf(body[b]))'
<1>1. OrderInv'
  BY DEF StreamInv, OrderInv
<1>2. LengthInv'
  BY DEF StreamInv, LengthInv, LengthOf
<1>3. StaleInv'
  BY DEF StreamInv, StaleInv, StaleOf, Bodies
<1>4. (\A b \in Bodies : YoungOf(body[b]))'
  BY DEF StreamInv, FlushInv, YoungOf
<1>. QED BY <1>1, <1>2, <1>3, <1>4

\* A step of the bridge or of time: the audio and the bodies are as they were.
LEMMA BridgeKeeps ==
  ASSUME StreamInv, UNCHANGED <<audio, handled, current, body, oldSent, rolled>>,
         budget' \in Budget, budget'.pump = budget.pump,
         content' \in Kinds \cup {"empty"}, lastWrite' \in {"never", "fresh", "old"},
         SessionType', RollType', WatchType', NoLostSignal'
  PROVE  StreamInv'
<1>1. OrderInv' /\ LengthInv' /\ StaleInv' /\ (\A b \in Bodies : YoungOf(body[b]))'
  BY BodiesStay
<1>2. AudioType' /\ ServerType'
  BY DEF StreamInv, TypeOK, AudioType, ServerType, audio, Body
<1>3. EndsAtItsLength'
  BY DEF StreamInv, EndsAtItsLength
<1>4. FlushInv'
  BY <1>1 DEF StreamInv, FlushInv, audio
<1>. QED BY <1>1, <1>2, <1>3, <1>4 DEF StreamInv, TypeOK

LEMMA WiderSequences ==
  ASSUME NEW S, NEW T, S \subseteq T, NEW q \in Seq(S)
  PROVE  q \in Seq(T)
<1>1. \A i \in 1..Len(q) : q[i] \in T
  OBVIOUS
<1>. QED BY <1>1

\* What the environment may still do counts down.
LEMMA Spent ==
  ASSUME NEW r \in Budget, NEW n \in Nat
  PROVE  /\ [r EXCEPT !.flushes = n] \in Budget /\ [r EXCEPT !.flushes = n].pump = r.pump
         /\ [r EXCEPT !.pauses = n] \in Budget /\ [r EXCEPT !.pauses = n].pump = r.pump
         /\ [r EXCEPT !.recoveries = n] \in Budget /\ [r EXCEPT !.recoveries = n].pump = r.pump
         /\ n \in 0..MaxGets => [r EXCEPT !.gets = n] \in Budget
         /\ [r EXCEPT !.gets = n].pump = r.pump
BY DEF Budget

\* A flush makes room for the bodies and sequences there are.
LEMMA Grows ==
  ASSUME TypeOK, era' \in Nat, era <= era', handled' \in Nat, handled <= handled', UNCHANGED body
  PROVE  body' \in [Bodies -> Body'] /\ Seq(0..era) \subseteq Seq(0..era')
<1>1. era \in Nat /\ handled \in Nat /\ body \in [Bodies -> Body]
  BY DEF TypeOK, AudioType, ServerType
<1>2. 0..era \subseteq 0..era' /\ 0..handled \subseteq 0..handled'
  BY <1>1
<1>3. Seq(0..era) \subseteq Seq(0..era')
  BY <1>2, WiderSequences
<1>4. Body \subseteq Body'
  BY <1>2, <1>3 DEF Body
<1>. QED BY <1>1, <1>3, <1>4

\* An action of the sender, and what the audio has to fulfil for it.
LEMMA AudioKeeps ==
  ASSUME StreamInv, UNCHANGED <<content, body, lastWrite, oldSent, watch, roll, flight>>,
         era' \in Nat, era <= era', handled' \in 0..era', handled <= handled',
         ring' \in Seq(0..era'), Len(ring') <= Capacity,
         source' \in Seq(0..era'), Len(source') <= Capacity,
         current' \in {current, 0}, SessionType', budget' \in Budget, budget'.pump = budget.pump,
         ~budget.pump => source' = <<>> /\ \A i \in DOMAIN ring' : ring'[i] = era'
  PROVE  StreamInv'
<1>1. OrderInv' /\ LengthInv' /\ StaleInv' /\ (\A b \in Bodies : YoungOf(body[b]))'
  BY BodiesStay
<1>2. era \in Nat /\ handled \in Nat /\ handled' \in Nat /\ MaxGets \in Nat
  BY BoundsAssumption DEF StreamInv, TypeOK, AudioType
<1>3. body' \in [Bodies -> Body']
  BY <1>2, Grows DEF StreamInv
<1>4. AudioType' /\ ServerType' /\ RollType' /\ WatchType'
  BY <1>2, <1>3 DEF StreamInv, TypeOK, AudioType, ServerType, RollType, WatchType, watch, roll
<1>5. EndsAtItsLength' /\ NoLostSignal'
  BY DEF StreamInv, EndsAtItsLength, NoLostSignal, roll
<1>6. FlushInv'
  BY <1>1 DEF StreamInv, FlushInv
<1>. QED BY <1>1, <1>4, <1>5, <1>6 DEF StreamInv, TypeOK

LEMMA SenderInv ==
  ASSUME StreamInv, Sender \/ PumpTick \/ HandleFlush
  PROVE  StreamInv'
<1>1. /\ era \in Nat /\ handled \in 0..era /\ Capacity \in Nat
      /\ ring \in Seq(0..era) /\ Len(ring) <= Capacity /\ source \in Seq(0..era) /\ Len(source) <= Capacity
      /\ SessionType /\ budget \in Budget
      /\ ~budget.pump => source = <<>> /\ \A i \in DOMAIN ring : ring[i] = era
  BY BoundsAssumption DEF StreamInv, TypeOK, AudioType, FlushInv
<1>2. CASE SenderPlays
  <2>. DEFINE new == <<era>>
  <2>1. new \in Seq(0..era) /\ \A i \in DOMAIN new : new[i] = era
    BY <1>1
  <2>2. /\ UNCHANGED <<era, handled, content, current, body, lastWrite, oldSent, watch, roll, flight, budget>>
        /\ SessionType'
    BY <1>1, <1>2 DEF SenderPlays, server, SessionType
  <2>3. CASE budget.pump
    <3>1. source' = Pushed(source, new) /\ UNCHANGED ring
      BY <1>2, <2>3 DEF SenderPlays
    <3>. HIDE DEF new
    <3>2. source' \in Seq(0..era) /\ Len(source') <= Capacity
      BY <1>1, <2>1, <3>1, PushedIs
    <3>. QED BY <1>1, <2>2, <2>3, <3>1, <3>2, AudioKeeps
  <2>4. CASE ~budget.pump
    <3>1. ring' = Pushed(ring, new) /\ UNCHANGED source
      BY <1>2, <2>4 DEF SenderPlays
    <3>. HIDE DEF new
    <3>2. /\ ring' \in Seq(0..era) /\ Len(ring') <= Capacity
          /\ \A i \in DOMAIN ring' : \/ \E j \in DOMAIN ring : ring'[i] = ring[j]
                                     \/ \E j \in DOMAIN new : ring'[i] = new[j]
      <4>1. /\ Pushed(ring, new) \in Seq(0..era) /\ Len(Pushed(ring, new)) <= Capacity
            /\ \A i \in DOMAIN Pushed(ring, new) :
                 \/ \E j \in DOMAIN ring : Pushed(ring, new)[i] = ring[j]
                 \/ \E j \in DOMAIN new : Pushed(ring, new)[i] = new[j]
        <5>1. ring \in Seq(0..era) /\ new \in Seq(0..era)
          BY <1>1, <2>1
        <5>. QED BY <5>1, PushedIs
      <4>. QED BY <3>1, <4>1
    <3>3. \A i \in DOMAIN ring' : ring'[i] = era
      BY <1>1, <2>1, <2>4, <3>2
    <3>. QED BY <1>1, <2>2, <2>4, <3>1, <3>2, <3>3, AudioKeeps
  <2>. QED BY <2>3, <2>4
<1>3. CASE SenderFlushes
  <2>1. /\ era' = era + 1 /\ UNCHANGED <<handled, content, current, body, lastWrite, oldSent, watch, roll, flight>>
        /\ budget' = [budget EXCEPT !.flushes = @ - 1] /\ budget.flushes > 0
        /\ SessionType' /\ ClearFlushed
    BY <1>1, <1>3 DEF SenderFlushes, server, SessionType
  <2>2. budget' \in Budget /\ budget'.pump = budget.pump
    <3>1. budget.flushes - 1 \in Nat
      BY <1>1, <2>1 DEF Budget
    <3>. QED BY <1>1, <2>1, <3>1, Spent
  <2>3. Seq(0..era) \subseteq Seq(0..era') /\ <<>> \in Seq(0..era')
    BY <1>1, <2>1, Grows DEF StreamInv
  <2>4. /\ ring' \in {ring, <<>>} /\ source' \in {source, <<>>} /\ (~budget.pump => ring' = <<>>)
        /\ (~budget.pump => source' = <<>>)
    BY <1>1, <2>1 DEF ClearFlushed
  <2>5. /\ ring' \in Seq(0..era') /\ Len(ring') <= Capacity
        /\ source' \in Seq(0..era') /\ Len(source') <= Capacity
    <3>. DEFINE S == Seq(0..era)
                T == Seq(0..era')
    <3>1. Len(<<>>) <= Capacity
      BY <1>1
    <3>2. ring \in S /\ source \in S /\ S \subseteq T /\ <<>> \in T
      BY <1>1, <2>3
    <3>. HIDE DEF S, T
    <3>3. ring' \in T /\ Len(ring') <= Capacity /\ source' \in T /\ Len(source') <= Capacity
      BY <1>1, <2>4, <3>1, <3>2
    <3>. QED BY <3>3 DEF T
  <2>6. era' \in Nat /\ era <= era' /\ handled' \in 0..era' /\ handled <= handled'
    BY <1>1, <2>1
  <2>. QED BY <2>1, <2>2, <2>4, <2>5, <2>6, AudioKeeps
<1>4. CASE SenderPauses
  <2>1. budget' \in Budget /\ budget'.pump = budget.pump
    <3>1. budget.pauses - 1 \in Nat /\ budget' = [budget EXCEPT !.pauses = budget.pauses - 1]
      BY <1>1, <1>4 DEF SenderPauses, Budget
    <3>. QED BY <1>1, <3>1, Spent
  <2>2. SessionType' /\ UNCHANGED <<ring, source, era, handled, content, current, body, lastWrite,
                                    oldSent, watch, roll, flight>>
    BY <1>1, <1>4 DEF SenderPauses, SessionType, audio, server
  <2>. QED BY <1>1, <2>1, <2>2, AudioKeeps
<1>5. CASE SenderResumes
  <2>2. SessionType' /\ UNCHANGED <<ring, source, era, handled, content, current, body, lastWrite,
                                    oldSent, watch, roll, flight, budget>>
    BY <1>1, <1>5 DEF SenderResumes, SessionType, audio, server
  <2>. QED BY <1>1, <2>2, AudioKeeps
<1>6. CASE PumpTick
  <2>1. /\ ring' = Pushed(ring, source) /\ source' = <<>> /\ source # <<>> /\ SessionType'
        /\ UNCHANGED <<era, handled, content, current, body, lastWrite, oldSent, watch, roll, flight, budget>>
    BY <1>1, <1>6 DEF PumpTick, server, session, SessionType
  <2>2. ring' \in Seq(0..era) /\ Len(ring') <= Capacity
    BY <1>1, <2>1, PushedIs
  <2>3. source' \in Seq(0..era) /\ Len(source') <= Capacity
    BY <1>1, <2>1
  <2>. QED BY <1>1, <2>1, <2>2, <2>3, AudioKeeps
<1>7. CASE HandleFlush
  <2>1. /\ handled < era /\ handled' = handled + 1 /\ current' = 0 /\ SessionType'
        /\ UNCHANGED <<ring, source, era, content, body, lastWrite, oldSent, watch, roll, flight, budget>>
    BY <1>1, <1>7 DEF HandleFlush, audio, session, SessionType
  <2>2. handled' \in 0..era /\ handled <= handled'
    BY <1>1, <2>1
  <2>. QED BY <1>1, <2>1, <2>2, AudioKeeps
<1>. QED BY <1>2, <1>3, <1>4, <1>5, <1>6, <1>7 DEF Sender

LEMMA AskInv ==
  ASSUME StreamInv, NEW b \in Bodies, Ask(b)
  PROVE  StreamInv'
<1>. DEFINE nb == [NoBody EXCEPT !.pc = "asked", !.kind = content]
<1>1. /\ body' = [body EXCEPT ![b] = nb] /\ b = Gets + 1 /\ content \in Kinds
      /\ UNCHANGED <<audio, handled, content, current, lastWrite, oldSent, session, watch, roll, flight>>
  BY DEF Ask, StreamInv, TypeOK, ServerType
<1>2. budget' \in Budget /\ budget'.pump = budget.pump
  <2>1. budget \in Budget /\ budget.gets > 0 /\ budget' = [budget EXCEPT !.gets = budget.gets - 1]
    BY DEF Ask, StreamInv, TypeOK
  <2>2. budget.gets - 1 \in 0..MaxGets /\ budget.gets - 1 \in Nat
    BY <2>1, BoundsAssumption DEF Budget
  <2>. QED BY <2>1, <2>2, Spent
<1>3. /\ nb \in Body /\ nb.pc = "asked" /\ nb.kind = content /\ nb.sent = 0 /\ nb.stale = 0 /\ nb.hand = <<>>
  <2>1. NoBody \in Body /\ NoBody.hand = <<>> /\ NoBody.stale = 0 /\ NoBody.sent = 0
    BY BoundsAssumption DEF NoBody, Body, Kinds, StreamInv, TypeOK, AudioType
  <2>. QED BY <1>1, <2>1 DEF Body
<1>. HIDE DEF nb
<1>4. body \in [Bodies -> Body] /\ \A c \in Bodies : body'[c] = IF c = b THEN nb ELSE body[c]
  BY <1>1 DEF StreamInv, TypeOK, ServerType
<1>5. PICK n \in 0..MaxGets : \A c \in Bodies : body[c].pc = "none" <=> c > n
  BY DEF StreamInv, OrderInv
<1>6. b = n + 1 /\ n + 1 \in 0..MaxGets /\ body[b].pc = "none"
  <2>1. Gets = n
    BY <1>5, GetsIs
  <2>. QED BY <1>1, <1>5, <2>1, BoundsAssumption DEF Bodies
<1>7. OrderInv'
  <2>1. \A c \in Bodies : body'[c].pc = "none" <=> c > n + 1
    BY <1>3, <1>4, <1>5, <1>6, BoundsAssumption DEF Bodies
  <2>. QED BY <1>6, <2>1 DEF OrderInv
<1>8. LengthInv'
  BY <1>1, <1>3, <1>4 DEF StreamInv, LengthInv, LengthOf
<1>9. StaleInv'
  BY <1>1, <1>3, <1>4 DEF StreamInv, StaleInv, StaleOf
<1>10. FlushInv'
  <2>1. (\A c \in Bodies : YoungOf(body[c]))'
    BY <1>1, <1>2, <1>3, <1>4 DEF StreamInv, FlushInv, YoungOf
  <2>. QED BY <1>1, <1>2, <2>1 DEF StreamInv, FlushInv, audio
<1>11. EndsAtItsLength' /\ NoLostSignal'
  <2>1. Limit \in Nat /\ Limit > 0 /\ body[b].kind = "none"
    BY <1>6, BoundsAssumption DEF StreamInv, LengthInv, LengthOf
  <2>2. (nb.kind = "wav" /\ nb.sent >= Limit) <=> b \in Reached
    BY <1>3, <2>1 DEF Reached
  <2>3. EndsAtItsLength'
    BY <1>1, <2>2, CountStays DEF roll
  <2>. QED BY <1>1, <2>3 DEF StreamInv, NoLostSignal, roll
<1>12. TypeOK'
  <2>1. body' \in [Bodies -> Body] /\ Body' = Body
    BY <1>1, <1>3, <1>4 DEF Body, audio
  <2>. QED BY <1>1, <1>2, <2>1 DEF StreamInv, TypeOK, AudioType, ServerType, SessionType, RollType,
                                  WatchType, audio, session, watch, roll
<1>. QED BY <1>7, <1>8, <1>9, <1>10, <1>11, <1>12 DEF StreamInv

\* What a body is when its response starts.
Started(r, born, left) == [r EXCEPT !.pc = "head", !.born = born, !.left = left]

LEMMA StartedIs ==
  ASSUME StreamInv, NEW r \in Body, NEW left \in {0, Preroll}
  PROVE  /\ Started(r, handled, left) \in Body /\ Started(r, handled, left).pc = "head"
         /\ Started(r, handled, left).kind = r.kind /\ Started(r, handled, left).sent = r.sent
         /\ Started(r, handled, left).stale = r.stale /\ Started(r, handled, left).hand = r.hand
<1>1. handled \in 0..handled /\ left \in 0..Preroll
  BY BoundsAssumption DEF StreamInv, TypeOK, AudioType
<1>. QED BY <1>1 DEF Started, Body

LEMMA RespondInv ==
  ASSUME StreamInv, NEW b \in Bodies, Respond(b)
  PROVE  StreamInv'
<1>. DEFINE left == IF Len(ring) >= (IF body[b].kind = "flac" THEN Chunk ELSE 1) THEN 0 ELSE Preroll
            nb == Started(body[b], handled, left)
<1>1. /\ body[b].pc = "asked" /\ current' = b /\ lastWrite' = "never" /\ body' = [body EXCEPT ![b] = nb]
      /\ UNCHANGED <<audio, handled, content, oldSent, session, watch, roll, flight, budget>>
  BY DEF Respond, Started
<1>2. body \in [Bodies -> Body] /\ body[b] \in Body /\ left \in {0, Preroll} /\ b \in 0..MaxGets
  BY BoundsAssumption DEF StreamInv, TypeOK, ServerType, Bodies
<1>3. /\ nb \in Body /\ nb.pc = "head" /\ nb.kind = body[b].kind /\ nb.sent = body[b].sent
      /\ nb.stale = body[b].stale /\ nb.hand = body[b].hand
  <2>. HIDE DEF left
  <2>. QED BY <1>2, StartedIs
<1>. HIDE DEF nb
<1>4. \A c \in Bodies : body'[c] = IF c = b THEN nb ELSE body[c]
  BY <1>1, <1>2
<1>5. LengthOf(body[b]) /\ StaleOf(body[b], current = b) /\ YoungOf(body[b])
  BY DEF StreamInv, LengthInv, StaleInv, FlushInv
<1>6. OrderInv'
  BY <1>1, <1>3, <1>4 DEF StreamInv, OrderInv
<1>7. LengthInv'
  BY <1>1, <1>3, <1>4, <1>5 DEF StreamInv, LengthInv, LengthOf
<1>8. StaleInv'
  <2>1. \A c \in Bodies : c # b => StaleOf(body[c], FALSE)
    BY DEF StreamInv, StaleInv, StaleOf
  <2>2. \A h \in BOOLEAN : StaleOf(nb, h)
    BY <1>1, <1>3, <1>5 DEF StaleOf
  <2>. QED BY <1>1, <1>4, <2>1, <2>2 DEF StaleInv
<1>9. FlushInv'
  <2>1. YoungOf(nb)
    BY <1>1, <1>3, <1>5 DEF YoungOf
  <2>2. (\A c \in Bodies : YoungOf(body[c]))'
    BY <1>1, <1>4, <2>1 DEF StreamInv, FlushInv, YoungOf
  <2>. QED BY <1>1, <2>2 DEF StreamInv, FlushInv, audio
<1>10. EndsAtItsLength' /\ NoLostSignal'
  <2>1. (nb.kind = "wav" /\ nb.sent >= Limit) <=> b \in Reached
    BY <1>3 DEF Reached
  <2>2. EndsAtItsLength'
    BY <1>1, <2>1, CountStays DEF roll
  <2>. QED BY <1>1, <2>2 DEF StreamInv, NoLostSignal, roll
<1>11. TypeOK'
  <2>1. body' \in [Bodies -> Body] /\ Body' = Body
    BY <1>1, <1>2, <1>3, <1>4 DEF Body, audio
  <2>. QED BY <1>1, <1>2, <2>1 DEF StreamInv, TypeOK, AudioType, ServerType, SessionType, RollType,
                                  WatchType, audio, session, watch, roll
<1>. QED BY <1>6, <1>7, <1>8, <1>9, <1>10, <1>11 DEF StreamInv

LEMMA CastStopsInv ==
  ASSUME StreamInv, NEW b \in Bodies, CastStopsReading(b)
  PROVE  StreamInv'
<1>1. /\ body[b].pc \notin {"none", "asked"} /\ body' = End(b)
      /\ UNCHANGED <<audio, handled, content, current, lastWrite, oldSent, session, watch, roll, flight, budget>>
  BY DEF CastStopsReading
<1>2. PICK nb \in Body :
        /\ body' = [body EXCEPT ![b] = nb] /\ nb.pc = "ended" /\ LengthOf(nb)
        /\ StaleOf(nb, current = b) /\ YoungOf(nb)
        /\ (nb.kind = "wav" /\ nb.sent >= Limit) <=> b \in Reached
  BY <1>1, EndIs
<1>3. EndsAtItsLength'
  BY <1>1, <1>2, CountStays DEF roll
<1>4. /\ ring' \in Seq(0..era) /\ Len(ring') <= Capacity /\ RollType' /\ NoLostSignal'
      /\ lastWrite' \in {"never", "fresh", "old"} /\ oldSent' \in BOOLEAN /\ (~budget.pump => ~oldSent')
      /\ UNCHANGED <<source, era, handled, content, current, session, watch, flight, budget>>
      /\ \A i \in DOMAIN ring' : \E j \in DOMAIN ring : ring'[i] = ring[j]
  BY <1>1 DEF StreamInv, TypeOK, AudioType, ServerType, RollType, NoLostSignal, FlushInv, audio, roll
<1>. QED BY <1>1, <1>2, <1>3, <1>4, PollKeeps
LEMMA TimeInv ==
  ASSUME StreamInv, WriteAges \/ SessionAges \/ WindowsPass
  PROVE  StreamInv'
<1>1. ServerType /\ SessionType /\ RollType /\ WatchType /\ NoLostSignal /\ budget \in Budget
  BY DEF StreamInv, TypeOK
<1>2. CASE WriteAges
  <2>1. /\ UNCHANGED <<audio, handled, current, body, oldSent, rolled, budget, content>>
        /\ lastWrite' = "old" /\ SessionType' /\ RollType' /\ WatchType' /\ NoLostSignal'
    BY <1>1, <1>2 DEF WriteAges, SessionType, RollType, WatchType, NoLostSignal, session, watch, roll
  <2>. QED BY <1>1, <2>1, BridgeKeeps DEF ServerType
<1>3. CASE SessionAges
  <2>1. /\ UNCHANGED <<audio, handled, current, body, oldSent, rolled, budget, content, lastWrite>>
        /\ SessionType' /\ RollType' /\ WatchType' /\ NoLostSignal'
    BY <1>1, <1>3 DEF SessionAges, SessionType, RollType, WatchType, NoLostSignal, server, watch, roll
  <2>. QED BY <1>1, <2>1, BridgeKeeps DEF ServerType
<1>4. CASE WindowsPass
  <2>1. /\ UNCHANGED <<audio, handled, current, body, oldSent, rolled, budget, content, lastWrite>>
        /\ SessionType' /\ RollType' /\ NoLostSignal'
    BY <1>1, <1>4 DEF WindowsPass, SessionType, RollType, NoLostSignal, server, session, roll
  <2>2. /\ UNCHANGED <<dog, repeat, recovery, flight>>
        /\ lastStall' \in {lastStall, FALSE} /\ strike' \in {strike, FALSE}
    BY <1>4 DEF WindowsPass
  <2>3. WatchType'
    BY <1>1, <2>2 DEF WatchType
  <2>. QED BY <1>1, <2>1, <2>3, BridgeKeeps DEF ServerType
<1>. QED BY <1>2, <1>3, <1>4

LEMMA ReloadInv ==
  ASSUME StreamInv, (\E who \in Loaders : TakeFlight(who)) \/ ReloadEnds
  PROVE  StreamInv'
<1>1. ServerType /\ SessionType /\ RollType /\ WatchType /\ NoLostSignal /\ budget \in Budget
  BY DEF StreamInv, TypeOK
<1>2. ASSUME NEW who \in Loaders, TakeFlight(who) PROVE StreamInv'
  <2>1. Gets \in 0..MaxGets
    <3>1. PICK n \in 0..MaxGets : \A b \in Bodies : body[b].pc = "none" <=> b > n
      BY DEF StreamInv, OrderInv
    <3>. QED BY <3>1, GetsIs
  <2>2. flight' \in [by : Loaders \cup {"free"}, from : 0..MaxGets]
    BY <1>2, <2>1 DEF TakeFlight
  <2>3. /\ UNCHANGED <<audio, handled, current, body, oldSent, rolled, budget, content, lastWrite>>
        /\ SessionType' /\ RollType' /\ NoLostSignal'
    BY <1>1, <1>2 DEF TakeFlight, SessionType, RollType, NoLostSignal, server, session, roll
  <2>4. WatchType'
    BY <1>1, <1>2, <2>2 DEF TakeFlight, WatchType, watch
  <2>. QED BY <1>1, <2>3, <2>4, BridgeKeeps DEF ServerType
<1>3. CASE ReloadEnds
  <2>1. PICK outcome \in Outcomes :
          /\ dog' = IF flight.by = "dog" THEN DogAfter(outcome) ELSE dog
          /\ repeat' = (repeat /\ flight.by # "dog")
          /\ recovery' = IF flight.by = "recovery" THEN "idle" ELSE recovery
          /\ loop' = IF flight.by # "loop" THEN loop
                     ELSE [loop EXCEPT !.pc = IF over THEN "off" ELSE "look"]
    BY <1>3 DEF ReloadEnds
  <2>2. /\ UNCHANGED <<audio, handled, current, body, oldSent, rolled, budget, content, lastWrite,
                       age, paused, egress, over, lastStall, strike>>
        /\ flight' = Free
    BY <1>3 DEF ReloadEnds, server, session
  <2>3. RollType' /\ NoLostSignal'
    BY <1>1, <2>1, <2>2 DEF RollType, NoLostSignal
  <2>4. DogAfter(outcome) \in {"idle", "end", "stall", "load"}
    BY DEF DogAfter
  <2>5. Free \in [by : Loaders \cup {"free"}, from : 0..MaxGets]
    BY BoundsAssumption DEF Free
  <2>6. dog' \in {"idle", "early", "stall", "pair", "load", "earlyLoad", "pairLoad", "end"}
    BY <1>1, <2>1, <2>4 DEF WatchType
  <2>7. repeat' \in BOOLEAN /\ recovery' \in {"idle", "switch", "load"}
    BY <1>1, <2>1 DEF WatchType
  <2>8. WatchType'
    BY <1>1, <2>2, <2>5, <2>6, <2>7 DEF WatchType
  <2>9. SessionType'
    BY <1>1, <2>2 DEF SessionType
  <2>. QED BY <1>1, <2>2, <2>3, <2>8, <2>9, BridgeKeeps DEF ServerType
<1>. QED BY <1>2, <1>3

LEMMA WaitInv ==
  ASSUME StreamInv, WaitPast
  PROVE  StreamInv'
<1>1. /\ ServerType /\ SessionType /\ WatchType /\ budget \in Budget
      /\ rolled \in 0..MaxGets /\ loop.seen \in 0..MaxGets /\ loop.woken \in BOOLEAN
      /\ loop \in [pc : {"off", "look", "register", "recheck", "wait", "load"},
                   seen : 0..MaxGets, woken : BOOLEAN]
  BY DEF StreamInv, TypeOK, RollType
<1>2. UNCHANGED <<audio, handled, server, session, watch, rolled, flight, budget>>
  BY DEF WaitPast
<1>3. \/ loop' = Past \/ loop' = [loop EXCEPT !.pc = "register"]
      \/ loop' = [loop EXCEPT !.pc = "recheck", !.woken = FALSE]
      \/ loop' = [loop EXCEPT !.pc = "wait"] /\ ~(rolled > loop.seen)
      \/ loop' = [loop EXCEPT !.pc = "look", !.woken = FALSE]
  BY DEF WaitPast, Register, Recheck
<1>4. RollType' /\ NoLostSignal'
  BY <1>1, <1>2, <1>3 DEF RollType, NoLostSignal, Past
<1>5. /\ UNCHANGED <<audio, handled, current, body, oldSent, rolled, budget, content, lastWrite>>
      /\ SessionType' /\ WatchType'
  BY <1>1, <1>2 DEF server, session, watch, SessionType, WatchType
<1>. QED BY <1>1, <1>4, <1>5, BridgeKeeps DEF ServerType

LEMMA LookInv ==
  ASSUME StreamInv, Look
  PROVE  StreamInv'
<1>1. ServerType /\ SessionType /\ RollType /\ WatchType /\ NoLostSignal /\ budget \in Budget
  BY DEF StreamInv, TypeOK
<1>2. StallAction \in {"idle", "early", "end", "stall"}
  BY DEF StallAction
<1>3. /\ UNCHANGED <<audio, handled, current, body, oldSent, rolled, budget, content, lastWrite>>
      /\ SessionType' /\ RollType' /\ NoLostSignal'
  BY <1>1 DEF Look, SessionType, RollType, NoLostSignal, server, session, roll
<1>4. WatchType'
  BY <1>1, <1>2 DEF Look, WatchType
<1>. QED BY <1>1, <1>3, <1>4, BridgeKeeps DEF ServerType

LEMMA SwitchIs ==
  ASSUME StreamInv, Switch, UNCHANGED rolled
  PROVE  /\ egress' \in Kinds /\ content' \in Kinds \cup {"empty"} /\ lastStall' \in BOOLEAN
         /\ RollType' /\ NoLostSignal'
<1>1. SessionType /\ ServerType /\ RollType /\ WatchType /\ NoLostSignal /\ MaxGets \in Nat
  BY BoundsAssumption DEF StreamInv, TypeOK
<1>2. CASE MaySwitch
  <2>1. /\ egress' = "wav" /\ content' = "wav" /\ lastStall' = TRUE
        /\ loop' = [pc |-> "look", seen |-> 0, woken |-> FALSE]
    BY <1>2 DEF Switch
  <2>. QED BY <1>1, <2>1 DEF RollType, NoLostSignal, Kinds
<1>3. CASE ~MaySwitch
  <2>1. UNCHANGED <<egress, content, lastStall, loop>>
    BY <1>3 DEF Switch
  <2>. QED BY <1>1, <2>1 DEF SessionType, ServerType, RollType, WatchType, NoLostSignal
<1>. QED BY <1>2, <1>3

LEMMA FallbackInv ==
  ASSUME StreamInv, Fallback
  PROVE  StreamInv'
<1>1. ServerType /\ SessionType /\ RollType /\ WatchType /\ NoLostSignal /\ budget \in Budget
  BY DEF StreamInv, TypeOK
<1>2. UNCHANGED <<audio, handled, current, body, lastWrite, oldSent, age, paused, over, rolled, flight>>
  BY DEF Fallback
<1>3. ASSUME budget' \in Budget, budget'.pump = budget.pump, content' \in Kinds \cup {"empty"},
             egress' \in Kinds, RollType', WatchType', NoLostSignal'
      PROVE  StreamInv'
  <2>1. SessionType' /\ lastWrite' \in {"never", "fresh", "old"}
    BY <1>1, <1>2, <1>3 DEF SessionType, ServerType
  <2>. QED BY <1>2, <1>3, <2>1, BridgeKeeps
<1>4. CASE SwitchForStall /\ UNCHANGED budget
  <2>1. /\ egress' \in Kinds /\ content' \in Kinds \cup {"empty"} /\ lastStall' \in BOOLEAN
        /\ RollType' /\ NoLostSignal'
    BY <1>2, <1>4, SwitchIs DEF SwitchForStall
  <2>2. dog' \in {"earlyLoad", "end", "stall", "pairLoad", "load"}
    BY <1>4 DEF SwitchForStall
  <2>3. repeat' \in BOOLEAN /\ UNCHANGED <<strike, recovery>>
    BY <1>4 DEF SwitchForStall
  <2>4. WatchType'
    BY <1>1, <1>2, <2>1, <2>2, <2>3 DEF WatchType
  <2>. QED BY <1>1, <1>3, <1>4, <2>1, <2>4
<1>5. CASE NoteStall /\ UNCHANGED budget
  <2>1. /\ dog' \in {"pair", "load"} /\ UNCHANGED <<egress, content, loop, recovery, repeat>>
        /\ lastStall' = (lastStall \/ ~over) /\ (strike' = TRUE \/ UNCHANGED strike)
    BY <1>5 DEF NoteStall
  <2>2. WatchType'
    BY <1>1, <1>2, <2>1 DEF WatchType
  <2>3. /\ content' \in Kinds \cup {"empty"} /\ egress' \in Kinds /\ RollType' /\ NoLostSignal'
    BY <1>1, <1>2, <2>1 DEF ServerType, SessionType, RollType, NoLostSignal
  <2>. QED BY <1>1, <1>3, <1>5, <2>2, <2>3
<1>6. CASE SwitchForRecovery /\ UNCHANGED budget
  <2>1. /\ egress' \in Kinds /\ content' \in Kinds \cup {"empty"} /\ lastStall' \in BOOLEAN
        /\ RollType' /\ NoLostSignal'
    BY <1>2, <1>6, SwitchIs DEF SwitchForRecovery
  <2>2. recovery' \in {"load", "idle"} /\ UNCHANGED <<strike, dog, repeat>>
    BY <1>6 DEF SwitchForRecovery
  <2>3. WatchType'
    BY <1>1, <1>2, <2>1, <2>2 DEF WatchType
  <2>. QED BY <1>1, <1>3, <1>6, <2>1, <2>3
<1>7. CASE PoolRecovers
  <2>1. budget' \in Budget /\ budget'.pump = budget.pump
    <3>1. budget.recoveries - 1 \in Nat /\ budget' = [budget EXCEPT !.recoveries = budget.recoveries - 1]
      BY <1>1, <1>7 DEF PoolRecovers, Budget
    <3>. QED BY <1>1, <3>1, Spent
  <2>2. /\ recovery' \in {"switch", "idle"} /\ (strike' = TRUE \/ UNCHANGED strike)
        /\ UNCHANGED <<egress, content, loop, dog, repeat, lastStall>>
    BY <1>7 DEF PoolRecovers
  <2>3. WatchType'
    BY <1>1, <1>2, <2>2 DEF WatchType
  <2>4. /\ content' \in Kinds \cup {"empty"} /\ egress' \in Kinds /\ RollType' /\ NoLostSignal'
    BY <1>1, <1>2, <2>2 DEF ServerType, SessionType, RollType, NoLostSignal
  <2>. QED BY <1>3, <2>1, <2>3, <2>4
<1>. QED BY <1>4, <1>5, <1>6, <1>7 DEF Fallback

LEMMA EndsInv ==
  ASSUME StreamInv, SessionEnds
  PROVE  StreamInv'
<1>1. /\ AudioType /\ ServerType /\ SessionType /\ RollType /\ WatchType /\ NoLostSignal
      /\ budget \in Budget /\ FlushInv /\ Capacity \in Nat /\ MaxGets \in Nat
  BY BoundsAssumption DEF StreamInv, TypeOK
<1>2. /\ current' = 0 /\ content' = "empty" /\ lastWrite' = "never" /\ ring' = <<>> /\ source' = <<>>
      /\ UNCHANGED <<era, handled, body, oldSent, egress, rolled, budget>>
      /\ over' = TRUE /\ paused' = FALSE /\ age' = "old"
      /\ dog' = "idle" /\ recovery' = "idle" /\ repeat' = FALSE /\ lastStall' = FALSE /\ strike' = FALSE
      /\ flight' \in {flight, Free} /\ loop' \in {loop, [loop EXCEPT !.pc = "off"]}
  BY DEF SessionEnds
<1>3. OrderInv' /\ LengthInv' /\ StaleInv' /\ (\A b \in Bodies : YoungOf(body[b]))'
  BY <1>2, BodiesStay
<1>4. AudioType'
  BY <1>1, <1>2 DEF AudioType
<1>5. ServerType'
  BY <1>1, <1>2 DEF ServerType, Body
<1>6. SessionType'
  BY <1>1, <1>2 DEF SessionType
<1>7. RollType' /\ NoLostSignal'
  BY <1>1, <1>2 DEF RollType, NoLostSignal
<1>8. WatchType'
  <2>1. Free \in [by : Loaders \cup {"free"}, from : 0..MaxGets]
    BY <1>1 DEF Free
  <2>. QED BY <1>1, <1>2, <2>1 DEF WatchType
<1>9. EndsAtItsLength'
  BY <1>2 DEF StreamInv, EndsAtItsLength
<1>10. FlushInv'
  BY <1>1, <1>2, <1>3 DEF FlushInv
<1>. QED BY <1>1, <1>2, <1>3, <1>4, <1>5, <1>6, <1>7, <1>8, <1>9, <1>10 DEF StreamInv, TypeOK

-----------------------------------------------------------------------------
(***************************************************************************)
(* The invariant and what follows from it.                                 *)
(***************************************************************************)
LEMMA InitInv == Init => StreamInv
<1>. SUFFICES ASSUME Init PROVE StreamInv
  OBVIOUS
<1>1. /\ Capacity \in Nat /\ Limit \in Nat /\ Limit > 0 /\ MaxGets \in Nat /\ Preroll \in Nat /\ Chunk \in Nat
      /\ Budgets \subseteq Budget
  BY BoundsAssumption
<1>2. /\ NoBody.pc = "none" /\ NoBody.kind = "none" /\ NoBody.sent = 0 /\ NoBody.stale = 0
      /\ NoBody.hand = <<>>
  BY DEF NoBody
<1>3. body = [b \in Bodies |-> NoBody] /\ \A b \in Bodies : body[b] = NoBody
  BY DEF Init
<1>4. AudioType /\ budget \in Budget
  BY <1>1 DEF Init, AudioType
<1>5. NoBody \in Body
  BY <1>1 DEF Init, NoBody, Body
<1>6. ServerType
  <2>1. content \in Kinds \cup {"empty"} /\ lastWrite \in {"never", "fresh", "old"}
    BY DEF Init
  <2>2. body \in [Bodies -> Body]
    BY <1>3, <1>5
  <2>3. current \in 0..MaxGets
    BY <1>1 DEF Init
  <2>4. oldSent \in BOOLEAN
    BY DEF Init
  <2>. QED BY <2>1, <2>2, <2>3, <2>4 DEF ServerType
<1>7. SessionType /\ WatchType /\ RollType
  <2>1. SessionType
    BY DEF Init, SessionType
  <2>2. Free \in [by : Loaders \cup {"free"}, from : 0..MaxGets]
    BY <1>1 DEF Free
  <2>3. WatchType
    BY <2>2 DEF Init, WatchType
  <2>4. RollType
    BY <1>1 DEF Init, RollType
  <2>. QED BY <2>1, <2>3, <2>4
<1>8. OrderInv
  BY <1>1, <1>2, <1>3 DEF OrderInv, Bodies
<1>9. LengthInv
  BY <1>2, <1>3 DEF LengthInv, LengthOf
<1>10. StaleInv
  BY <1>2, <1>3 DEF StaleInv, StaleOf
<1>11. FlushInv
  <2>1. DOMAIN <<>> = {}
    OBVIOUS
  <2>. QED BY <1>2, <1>3, <2>1 DEF Init, FlushInv, YoungOf
<1>12. EndsAtItsLength
  <2>1. {b \in Bodies : body[b].kind = "wav" /\ body[b].sent >= Limit} = {}
    BY <1>2, <1>3
  <2>. QED BY <2>1, FS_EmptySet DEF Init, EndsAtItsLength
<1>13. NoLostSignal
  BY DEF Init, NoLostSignal
<1>. QED BY <1>4, <1>6, <1>7, <1>8, <1>9, <1>10, <1>11, <1>12, <1>13 DEF StreamInv, TypeOK

LEMMA StutterInv ==
  ASSUME StreamInv, UNCHANGED vars
  PROVE  StreamInv'
<1>1. /\ UNCHANGED <<audio, handled, current, body, oldSent, rolled, budget, content, lastWrite>>
      /\ SessionType' /\ RollType' /\ WatchType' /\ NoLostSignal'
  BY DEF vars, server, session, watch, roll, StreamInv, TypeOK, SessionType, RollType, WatchType,
         NoLostSignal
<1>. QED BY <1>1, BridgeKeeps DEF StreamInv, TypeOK, ServerType

LEMMA StepInv == StreamInv /\ [Next]_vars => StreamInv'
<1>. SUFFICES ASSUME StreamInv, [Next]_vars PROVE StreamInv'
  OBVIOUS
<1>1. CASE Sender \/ PumpTick \/ HandleFlush
  BY <1>1, SenderInv
<1>2. ASSUME NEW b \in Bodies, Ask(b) \/ Respond(b) \/ Poll(b) \/ CastStopsReading(b) PROVE StreamInv'
  BY <1>2, AskInv, RespondInv, PollInv, CastStopsInv
<1>3. CASE WriteAges \/ SessionAges \/ WindowsPass
  BY <1>3, TimeInv
<1>4. CASE (\E who \in Loaders : TakeFlight(who)) \/ ReloadEnds
  BY <1>4, ReloadInv
<1>5. CASE WaitPast \/ Look \/ Fallback \/ SessionEnds
  BY <1>5, WaitInv, LookInv, FallbackInv, EndsInv
<1>6. CASE UNCHANGED vars
  BY <1>6, StutterInv
<1>. QED BY <1>1, <1>2, <1>3, <1>4, <1>5, <1>6 DEF Next

\* The bodies, the ring and the rollover loop stay in step: the strengthening the five properties
\* below are read off.
THEOREM StreamInvariant == Spec => []StreamInv
BY InitInv, StepInv, PTL DEF Spec

\* Every variable keeps its type, for every capacity, chunk and length: the ring stays within its
\* capacity and a body within its Content-Length.
THEOREM StreamTypes == Spec => []TypeOK
<1>1. StreamInv => TypeOK
  BY DEF StreamInv
<1>. QED BY <1>1, StreamInvariant, PTL

\* A superseded body takes at most one chunk that belongs to its successor (http.rs, the supersede
\* check before the pop), however many GETs, bumps and flushes there are.
THEOREM StaleBodyTakesOneChunk == Spec => []StaleTakesOneChunk
<1>1. StreamInv => StaleTakesOneChunk
  <2>. SUFFICES ASSUME StreamInv, NEW b \in Bodies PROVE body[b].stale <= Chunk
    BY DEF StaleTakesOneChunk
  <2>1. body[b] \in Body /\ StaleOf(body[b], current = b) /\ Chunk \in Nat
    BY BoundsAssumption DEF StreamInv, TypeOK, ServerType, StaleInv
  <2>. QED BY <2>1 DEF StaleOf, Body
<1>. QED BY <1>1, StreamInvariant, PTL

\* Each WAV body that reaches its Content-Length has signalled a rollover once and none else has,
\* for every length, header and frame size; that none passes it is a part of StreamTypes.
THEOREM RolloverCountsEndedBodies == Spec => []EndsAtItsLength
<1>1. StreamInv => EndsAtItsLength
  BY DEF StreamInv
<1>. QED BY <1>1, StreamInvariant, PTL

\* What Cast plays after a seek or skip was recorded after it, unless a promoted member's pump
\* fills the ring: whatever a body holds between pop and send is younger than its GET.
THEOREM FlushedAudioIsNotSent == Spec => []NoOldAudio
<1>1. StreamInv => NoOldAudio
  BY DEF StreamInv, FlushInv, NoOldAudio
<1>. QED BY <1>1, StreamInvariant, PTL

\* RolloverSignal::wait_past loses no signal, at whatever point of its registration one comes.
THEOREM SignalIsNotLost == Spec => []NoLostSignal
<1>1. StreamInv => NoLostSignal
  BY DEF StreamInv
<1>. QED BY <1>1, StreamInvariant, PTL
=============================================================================
