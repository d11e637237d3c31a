------------------------------ MODULE MediaStream ------------------------------
(***************************************************************************)
(* The audio path of one playing session: the AirPlay thread fills a ring  *)
(* (audio/pcm.rs), bodies of /stream drain it to Cast (media/http.rs), the *)
(* stall watchdog sees whether they still write (bridge/stall.rs), FLAC    *)
(* gives way to WAV (bridge/fallback.rs), and a WAV body that reaches its  *)
(* Content-Length asks the rollover loop for a re-LOAD (bridge/load.rs).   *)
(*                                                                         *)
(* What a re-LOAD does besides is PlaybackControl's.  A frame is the flush *)
(* it follows.  live_generation is told by the body that holds its newest  *)
(* value.  Pacing is a delay of any length before a popped chunk is sent.  *)
(***************************************************************************)
EXTENDS Integers, Sequences, FiniteSets

CONSTANTS
  Capacity,   \* frames the ring holds
  Chunk,      \* LIVE_CHUNK_FRAMES and FLAC_BLOCK_SIZE
  Preroll,    \* frames of SILENCE_PREROLL, for FLAC whole blocks
  Header,     \* bytes of a WAV header
  FrameBytes, \* bytes of a frame
  Limit,      \* the Content-Length of a WAV body
  MaxGets,    \* bound: GETs of /stream in any behaviour
  Budgets     \* bounds, one of which holds in a behaviour: GETs, flushes and pauses by the sender,
              \* media the pool loads again by itself; whether Cast asks without a LOAD modelled
              \* here, a promoted member's pump feeds the ring, timers run out

Budget == [gets : 0..MaxGets, flushes : Nat, pauses : Nat, recoveries : Nat,
           probes : BOOLEAN, pump : BOOLEAN, timers : BOOLEAN]

ASSUME BoundsAssumption ==
  /\ Capacity \in Nat /\ Chunk \in 1..Capacity /\ Preroll \in Nat
  /\ Header \in Nat \ {0} /\ FrameBytes \in Nat \ {0} /\ Limit \in Nat /\ Header <= Limit
  /\ MaxGets \in Nat
  /\ Budgets \subseteq Budget

VARIABLES
  ring,      \* session.ring
  source,    \* the ring a promoted member's RingPump drains
  era,       \* flushes by the sender
  handled,   \* flushes the device worker has handled
  content,   \* what /stream serves
  current,   \* the body that holds live_generation, 0 if a bump took it from all
  body,      \* the bodies, in the order of their GETs
  lastWrite, \* last_body_write: "never", "fresh" or older than STALL_BODY_STALE
  age,       \* of the session: "new" within it, "early" within FLAC_FALLBACK_WINDOW, "old"
  paused, egress, over,
  rolled,    \* RolloverSignal.count
  loop,      \* the rollover loop: pc, the count it has seen, its waiter notified
  dog,       \* the stall watchdog's task
  repeat,    \* its snapshot of lastStall while an early fallback may still fail
  recovery,  \* on_media_recovered's task
  flight,    \* reload_flight: its holder and the bodies there were when it was taken
  lastStall, \* a stall within STALL_REPEAT_WINDOW
  strike,    \* a FLAC strike within FLAC_STRIKE_PAIR_WINDOW
  budget,    \* what may still happen
  oldSent    \* history: a body sent audio from before a flush handled before its GET

audio   == <<ring, source, era>>
server  == <<content, current, body, lastWrite, oldSent>>
session == <<age, paused, egress, over>>
watch   == <<dog, repeat, recovery, lastStall, strike>>
roll    == <<rolled, loop>>
vars == <<audio, handled, server, session, watch, roll, flight, budget>>

Bodies  == 1..MaxGets
Kinds   == {"flac", "wav"}
NoBody  == [pc |-> "none", kind |-> "none", born |-> 0, left |-> 0,
            hand |-> <<>>, sent |-> 0, stale |-> 0]
Free    == [by |-> "free", from |-> 0]
Loaders == {"dog", "recovery", "loop"}
Gets    == Cardinality({b \in Bodies : body[b].pc # "none"})

Body == [pc : {"none", "asked", "head", "loop", "pop", "pace", "ended"},
         kind : Kinds \cup {"none"}, born : 0..handled, left : 0..Preroll, hand : Seq(0..era),
         sent : 0..Limit, stale : 0..(2 * Chunk)]

AudioType ==
  /\ era \in Nat /\ handled \in 0..era
  /\ ring \in Seq(0..era) /\ Len(ring) <= Capacity
  /\ source \in Seq(0..era) /\ Len(source) <= Capacity
ServerType ==
  /\ content \in Kinds \cup {"empty"} /\ current \in 0..MaxGets /\ body \in [Bodies -> Body]
  /\ lastWrite \in {"never", "fresh", "old"} /\ oldSent \in BOOLEAN
SessionType ==
  /\ age \in {"new", "early", "old"} /\ paused \in BOOLEAN /\ egress \in Kinds /\ over \in BOOLEAN
RollType ==
  /\ rolled \in 0..MaxGets
  /\ loop \in [pc : {"off", "look", "register", "recheck", "wait", "load"},
               seen : 0..MaxGets, woken : BOOLEAN]
WatchType ==
  /\ dog \in {"idle", "early", "stall", "pair", "load", "earlyLoad", "pairLoad", "end"}
  /\ repeat \in BOOLEAN /\ recovery \in {"idle", "switch", "load"}
  /\ flight \in [by : Loaders \cup {"free"}, from : 0..MaxGets]
  /\ lastStall \in BOOLEAN /\ strike \in BOOLEAN
TypeOK ==
  AudioType /\ ServerType /\ SessionType /\ RollType /\ WatchType /\ budget \in Budget

\* Init: a session just installed; its LOAD's GET is still to come.
Init ==
  /\ budget \in Budgets
  /\ ring = <<>> /\ source = <<>>
  /\ era = 0 /\ handled = 0
  /\ egress \in Kinds /\ content = egress /\ current = 0 /\ body = [b \in Bodies |-> NoBody]
  /\ lastWrite = "never" /\ age = "new" /\ paused = FALSE /\ over = FALSE
  /\ rolled = 0
  /\ loop = [pc |-> IF egress = "wav" THEN "look" ELSE "off", seen |-> 0, woken |-> FALSE]
  /\ dog = "idle" /\ repeat = FALSE /\ recovery = "idle" /\ flight = Free
  /\ lastStall = FALSE /\ strike = FALSE /\ oldSent = FALSE

Least(a, b) == IF a < b THEN a ELSE b
Rest(frames, n) == SubSeq(frames, n + 1, Len(frames))

-----------------------------------------------------------------------------
(***************************************************************************)
(* The sender's audio.                                                     *)
(***************************************************************************)
\* PcmRing::push_f32: the oldest frames make room, and a push longer than the ring keeps its tail.
Pushed(frames, more) ==
  LET all == frames \o more IN Rest(all, IF Len(all) > Capacity THEN Len(all) - Capacity ELSE 0)

\* Audio resumes a paused session (note_pcm).
SenderPlays ==
  /\ ~over
  /\ IF budget.pump
     THEN source' = Pushed(source, <<era>>) /\ UNCHANGED ring
     ELSE ring' = Pushed(ring, <<era>>) /\ UNCHANGED source
  /\ paused' = FALSE
  /\ UNCHANGED <<era, handled, server, age, egress, over, watch, roll, flight, budget>>

\* RingPump of a promoted member: all that its ring holds goes into the ring of the session it
\* took over.  The chunk between pop and push is left out.
PumpTick ==
  /\ source # <<>>
  /\ ring' = Pushed(ring, source) /\ source' = <<>>
  /\ UNCHANGED <<era, handled, server, session, watch, roll, flight, budget>>

\* (mutant) the ring keeps what the sender flushed
KeepFlushed == UNCHANGED <<ring, source>>

\* The sender's thread clears the ring it fills.
ClearFlushed ==
  IF budget.pump THEN source' = <<>> /\ UNCHANGED ring
             ELSE ring' = <<>> /\ UNCHANGED source

\* A seek or skip: clear, then Flushed and Paused to the device worker.
SenderFlushes ==
  /\ ~over /\ budget.flushes > 0 /\ budget' = [budget EXCEPT !.flushes = @ - 1]
  /\ era' = era + 1
  /\ ClearFlushed
  /\ paused' = TRUE
  /\ UNCHANGED <<handled, server, age, egress, over, watch, roll, flight>>

\* handle_flush: the bodies end; the re-LOAD is owed to the resume (PlaybackControl).
HandleFlush ==
  /\ ~over /\ handled < era
  /\ handled' = handled + 1 /\ current' = 0
  /\ UNCHANGED <<audio, content, body, lastWrite, oldSent, session, watch, roll, flight, budget>>

SenderPauses ==
  /\ ~over /\ ~paused
  /\ budget.pauses > 0 /\ budget' = [budget EXCEPT !.pauses = @ - 1]
  /\ paused' = TRUE
  /\ UNCHANGED <<audio, handled, server, age, egress, over, watch, roll, flight>>

SenderResumes ==
  /\ ~over /\ paused /\ paused' = FALSE
  /\ UNCHANGED <<audio, handled, server, age, egress, over, watch, roll, flight, budget>>

-----------------------------------------------------------------------------
(***************************************************************************)
(* The media server: GET /stream and the body it returns.                  *)
(***************************************************************************)
Superseded(b) == current # b

\* serve_stream reads the content first; the generation and the write time are Respond's.
Ask(b) ==
  /\ b = Gets + 1 /\ ~over /\ content # "empty"
  /\ Gets = 0 \/ flight # Free \/ budget.probes
  /\ budget.gets > 0 /\ budget' = [budget EXCEPT !.gets = @ - 1]
  /\ body' = [body EXCEPT ![b] = [NoBody EXCEPT !.pc = "asked", !.kind = content]]
  /\ UNCHANGED <<audio, handled, content, current, lastWrite, oldSent, session, watch, roll, flight>>

\* The next generation, with the write time reset in one step.  Silence goes first only if the
\* ring holds no chunk (FLAC) or nothing (WAV) at the GET.
Respond(b) ==
  /\ body[b].pc = "asked"
  /\ current' = b /\ lastWrite' = "never"
  /\ LET enough == IF body[b].kind = "flac" THEN Chunk ELSE 1 IN
       body' = [body EXCEPT ![b].pc = "head", ![b].born = handled,
                            ![b].left = IF Len(ring) >= enough THEN 0 ELSE Preroll]
  /\ UNCHANGED <<audio, handled, content, oldSent, session, watch, roll, flight, budget>>

Room(b) == Limit - body[b].sent
Fits(b) == Room(b) \div FrameBytes

\* What a chunk adds to a WAV body; without room for a frame it is zeros up to the limit.
Size(b, frames) == IF Fits(b) = 0 THEN Room(b) ELSE frames * FrameBytes

\* (mutant) rollover is signalled when the next poll finds the limit reached
CrossesLater(b, bytes) == body[b].kind = "wav" /\ Room(b) = 0

\* The chunk that reaches the limit signals: hyper does not poll again.
Crosses(b, bytes) == body[b].kind = "wav" /\ body[b].sent < Limit /\ body[b].sent + bytes >= Limit

\* signal: count, then wake the waiters that are registered.
Signal ==
  /\ rolled' = rolled + 1
  /\ loop' = [loop EXCEPT !.woken = @ \/ loop.pc \in {"recheck", "wait"}]

\* emit_chunk
Emit(b, bytes, next) ==
  /\ lastWrite' = "fresh"
  /\ body' = [body EXCEPT ![b] = [next EXCEPT !.sent = @ + IF next.kind = "wav" THEN bytes ELSE 0]]
  /\ IF Crosses(b, bytes) THEN Signal ELSE UNCHANGED roll

\* An ended body; only that it sent its whole length is remembered.
End(b) == [body EXCEPT ![b] = [NoBody EXCEPT !.pc = "ended", !.kind = body[b].kind,
                                             !.sent = IF Room(b) = 0 THEN Limit ELSE 0]]

\* A poll finds a newer generation, or the limit reached.
Finish(b) ==
  /\ body[b].pc \in {"head", "loop"}
  /\ Superseded(b) \/ (body[b].kind = "wav" /\ Room(b) = 0)
  /\ body' = End(b) /\ UNCHANGED <<lastWrite, oldSent, roll>>

EmitHeader(b) ==
  /\ body[b].pc = "head" /\ ~Superseded(b)
  /\ Emit(b, Header, [body[b] EXCEPT !.pc = "loop"]) /\ UNCHANGED oldSent

EmitPreroll(b) ==
  /\ body[b].pc = "loop" /\ ~Superseded(b) /\ body[b].left > 0
  /\ body[b].kind = "wav" => Room(b) > 0
  /\ LET most == Least(body[b].left, Chunk)
         n    == IF body[b].kind = "wav" THEN Least(most, Fits(b)) ELSE most IN
       Emit(b, Size(b, n), [body[b] EXCEPT !.left = @ - n])
  /\ UNCHANGED oldSent

\* Where the limit leaves no room for a frame, zeros fill it.
EmitPad(b) ==
  /\ body[b].pc = "loop" /\ ~Superseded(b) /\ body[b].left = 0
  /\ body[b].kind = "wav" /\ Fits(b) = 0 /\ Room(b) > 0
  /\ Emit(b, Size(b, 0), body[b]) /\ UNCHANGED oldSent

\* (mutant) frames are taken without a look at the generation
MayPopUnchecked(b) == body[b].left = 0 /\ Len(ring) >= 1

\* The generation is checked before frames are taken; FLAC waits for a whole block.
MayPop(b) ==
  /\ ~Superseded(b) /\ body[b].left = 0
  /\ IF body[b].kind = "wav" THEN Fits(b) > 0 ELSE Len(ring) >= Chunk

CheckGeneration(b) ==
  /\ body[b].pc = "loop" /\ MayPop(b)
  /\ body' = [body EXCEPT ![b].pc = "pop"] /\ UNCHANGED <<lastWrite, oldSent, roll>>

\* Pop, under the ring's lock.  A short FLAC block is dropped, a full one of a superseded body too.
Pop(b) ==
  /\ body[b].pc = "pop"
  /\ LET want  == IF body[b].kind = "wav" THEN Least(Chunk, Fits(b)) ELSE Chunk
         n     == Least(want, Len(ring))
         taken == SubSeq(ring, 1, n)
         noted == [body[b] EXCEPT !.stale = IF Superseded(b) THEN Least(@ + n, 2 * Chunk) ELSE @]
         short == n = 0 \/ (body[b].kind = "flac" /\ n < Chunk) IN
       /\ ring' = Rest(ring, n)
       /\ body' = [body EXCEPT ![b] =
            IF short THEN [noted EXCEPT !.pc = "loop"]
            ELSE IF body[b].kind = "flac" /\ Superseded(b) THEN [noted EXCEPT !.pc = "ended"]
            ELSE [noted EXCEPT !.pc = "pace", !.hand = taken]]
  /\ UNCHANGED <<lastWrite, oldSent, roll>>

\* The pace delay is over; nothing looks at the generation again.
EmitAudio(b) ==
  /\ body[b].pc = "pace"
  /\ Emit(b, Size(b, Len(body[b].hand)),
          [body[b] EXCEPT !.pc = "loop", !.hand = <<>>])
  /\ oldSent' = (oldSent \/ \E i \in DOMAIN body[b].hand : body[b].hand[i] < body[b].born)

Writes(b) ==
  \/ Finish(b) \/ EmitHeader(b) \/ EmitPreroll(b) \/ EmitPad(b)
  \/ CheckGeneration(b) \/ EmitAudio(b)

\* The server polls a body as fast as Cast reads its connection.
Poll(b) ==
  /\ \/ Writes(b) /\ UNCHANGED ring
     \/ Pop(b)
  /\ UNCHANGED <<source, era, handled, content, current, session, watch, flight, budget>>

\* Cast stops reading a connection for good: its body takes no step any more.
CastStopsReading(b) ==
  /\ body[b].pc \notin {"none", "asked", "ended"}
  /\ body' = End(b)
  /\ UNCHANGED <<audio, handled, content, current, lastWrite, oldSent, session, watch, roll, flight,
                 budget>>

-----------------------------------------------------------------------------
(***************************************************************************)
(* Time.  STALL_BODY_STALE passes after a write only while no body that    *)
(* Cast reads has anything to send.                                        *)
(***************************************************************************)
Prompt(b) ==
  \/ body[b].pc \in {"asked", "head", "pace"} \/ (body[b].pc = "pop" /\ ring # <<>>)
  \/ body[b].pc = "loop" /\ (Superseded(b) \/ body[b].left > 0 \/ Fits(b) = 0
                             \/ (MayPop(b) /\ ring # <<>>))

WriteAges ==
  /\ budget.timers /\ lastWrite = "fresh" /\ lastWrite' = "old"
  /\ \A b \in Bodies : ~Prompt(b)
  /\ UNCHANGED <<audio, handled, content, current, body, oldSent, session, watch, roll, flight, budget>>

SessionAges ==
  /\ budget.timers /\ age # "old" /\ age' = IF age = "new" THEN "early" ELSE "old"
  /\ UNCHANGED <<audio, handled, server, paused, egress, over, watch, roll, flight, budget>>

\* STALL_REPEAT_WINDOW and FLAC_STRIKE_PAIR_WINDOW
WindowsPass ==
  /\ \/ lastStall /\ lastStall' = FALSE /\ UNCHANGED strike
     \/ strike /\ ~lastStall /\ strike' = FALSE /\ UNCHANGED lastStall
  /\ UNCHANGED <<audio, handled, server, session, dog, repeat, recovery, roll, flight, budget>>

-----------------------------------------------------------------------------
(***************************************************************************)
(* Re-LOADs: one at a time, each a LOAD that Cast answers with a GET.      *)
(* Those of a resume or a flush are PlaybackControl's.                     *)
(***************************************************************************)
Wants(who) == CASE who = "dog"      -> dog \in {"load", "earlyLoad", "pairLoad"}
                [] who = "recovery" -> recovery = "load"
                [] who = "loop"     -> loop.pc = "load"

TakeFlight(who) ==
  /\ flight = Free /\ Wants(who)
  /\ flight' = [by |-> who, from |-> Gets]
  /\ UNCHANGED <<audio, handled, server, session, watch, roll, budget>>

\* Cast plays media it got after the LOAD was sent.
CastPulls(b) == b > flight.from /\ current = b /\ body[b].pc \in {"loop", "pop", "pace"}

Outcomes ==
  {"failed"} \cup (IF paused /\ flight.by # "loop" THEN {"paused"} ELSE {})
  \cup (IF ~over /\ (~paused \/ flight.by = "loop") /\ \E b \in Bodies : CastPulls(b)
        THEN {"loaded"} ELSE {})

\* What the watchdog makes of a re-LOAD.  One abandoned by a pause is owed to the resume.
DogAfter(outcome) ==
  CASE outcome = "loaded" -> "idle"
    [] dog = "earlyLoad" -> IF repeat THEN "end" ELSE "stall"
    [] dog = "pairLoad"  -> "load"
    [] outcome = "paused" -> "idle"
    [] OTHER -> "end"

ReloadEnds ==
  /\ flight # Free /\ flight' = Free
  /\ \E outcome \in Outcomes :
       /\ dog' = IF flight.by = "dog" THEN DogAfter(outcome) ELSE dog
       /\ repeat' = (repeat /\ flight.by # "dog")
       /\ recovery' = IF flight.by = "recovery" THEN "idle" ELSE recovery
       /\ loop' = IF flight.by # "loop" THEN loop
                  ELSE [loop EXCEPT !.pc = IF over THEN "off" ELSE "look"]
  /\ UNCHANGED <<audio, handled, server, session, lastStall, strike, rolled, budget>>

-----------------------------------------------------------------------------
(***************************************************************************)
(* The rollover loop: RolloverSignal::wait_past and the re-LOAD after it.  *)
(***************************************************************************)
Past == IF rolled > loop.seen THEN [loop EXCEPT !.pc = "load", !.seen = rolled, !.woken = FALSE]
        ELSE [loop EXCEPT !.woken = FALSE]

\* The waiter is registered before the count is checked again.
Register ==
  /\ loop.pc = "register"
  /\ loop' = [loop EXCEPT !.pc = "recheck", !.woken = FALSE]

\* (mutant) the waiter sleeps as soon as it is registered
SleepAtOnce == loop.pc = "recheck" /\ loop' = [loop EXCEPT !.pc = "wait"]

Recheck ==
  loop.pc = "recheck" /\ loop' = IF rolled > loop.seen THEN Past ELSE [loop EXCEPT !.pc = "wait"]

WaitPast ==
  /\ ~over
  /\ \/ loop.pc = "look" /\ loop' = IF rolled > loop.seen THEN Past ELSE [loop EXCEPT !.pc = "register"]
     \/ Register \/ Recheck
     \/ loop.pc = "wait" /\ loop.woken /\ loop' = [loop EXCEPT !.pc = "look", !.woken = FALSE]
  /\ UNCHANGED <<audio, handled, server, session, watch, rolled, flight, budget>>

-----------------------------------------------------------------------------
(***************************************************************************)
(* The stall watchdog and the switch from FLAC to WAV.                     *)
(***************************************************************************)
\* (mutant) media Cast never pulled is not stale
StaleOnlyIfWritten == lastWrite = "old"

\* body_is_stale
Stale == lastWrite = "old" \/ (lastWrite = "never" /\ age # "new")

StallAction ==
  CASE paused \/ ~Stale \/ ring = <<>> -> "idle"
    [] egress = "flac" /\ age # "old" -> "early"
    [] lastStall -> "end"
    [] OTHER -> "stall"

\* A tick; a re-LOAD that holds the flight explains a silent body.
Look ==
  /\ dog = "idle" /\ ~over /\ flight = Free
  /\ dog' = StallAction /\ dog' # "idle"
  /\ repeat' = (lastStall /\ dog' = "early")
  /\ UNCHANGED <<audio, handled, server, session, recovery, lastStall, strike, roll, flight, budget>>

\* switch_playing_to_wav acts on a FLAC session only.
MaySwitch == ~over /\ egress = "flac"

\* The content changes under the session's lock; the first switch starts the rollover loop.
Switch ==
  IF MaySwitch
  THEN /\ egress' = "wav" /\ content' = "wav" /\ lastStall' = TRUE
       /\ loop' = [pc |-> "look", seen |-> 0, woken |-> FALSE]
  ELSE UNCHANGED <<egress, content, lastStall, loop>>

SwitchForStall ==
  /\ dog \in {"early", "pair"}
  /\ Switch
  /\ dog' = CASE dog = "early" /\ MaySwitch -> "earlyLoad"
              [] dog = "early" -> IF repeat THEN "end" ELSE "stall"
              [] dog = "pair" /\ MaySwitch -> "pairLoad"
              [] OTHER -> "load"
  /\ repeat' = (repeat /\ dog' = "earlyLoad")
  /\ UNCHANGED <<strike, recovery>>

\* The second FLAC strike in FLAC_STRIKE_PAIR_WINDOW switches.
NoteStall ==
  /\ dog = "stall"
  /\ lastStall' = (lastStall \/ ~over)
  /\ IF egress = "flac" /\ ~over
     THEN strike' = TRUE /\ dog' = IF strike THEN "pair" ELSE "load"
     ELSE dog' = "load" /\ UNCHANGED strike
  /\ UNCHANGED <<egress, content, loop, recovery, repeat>>

\* The pool loaded the media again by itself (CastWorker).
PoolRecovers ==
  /\ recovery = "idle" /\ ~over /\ egress = "flac"
  /\ budget.recoveries > 0 /\ budget' = [budget EXCEPT !.recoveries = @ - 1]
  /\ IF age # "old" THEN recovery' = "switch" /\ UNCHANGED strike
     ELSE strike' = TRUE /\ recovery' = IF strike THEN "switch" ELSE "idle"
  /\ UNCHANGED <<egress, content, loop, dog, repeat, lastStall>>

SwitchForRecovery ==
  /\ recovery = "switch"
  /\ Switch
  /\ recovery' = IF MaySwitch THEN "load" ELSE "idle"
  /\ UNCHANGED <<strike, dog, repeat>>

Fallback ==
  /\ \/ (SwitchForStall \/ NoteStall \/ SwitchForRecovery) /\ UNCHANGED budget
     \/ PoolRecovers
  /\ UNCHANGED <<audio, handled, current, body, lastWrite, oldSent, age, paused, over, rolled, flight>>

\* The session ends, by the sender or a stall that repeats: invalidate_live, then no server; the
\* AirPlay side clears its ring.  What belonged to the session is gone.
SessionEnds ==
  /\ ~over /\ over' = TRUE
  /\ content' = "empty" /\ current' = 0 /\ lastWrite' = "never"
  /\ ring' = <<>> /\ source' = <<>> /\ paused' = FALSE /\ age' = "old"
  /\ dog' = "idle" /\ recovery' = "idle" /\ repeat' = FALSE
  /\ lastStall' = FALSE /\ strike' = FALSE
  /\ flight' = IF flight.by = "loop" THEN flight ELSE Free
  /\ loop' = IF flight.by = "loop" THEN loop ELSE [loop EXCEPT !.pc = "off"]
  /\ UNCHANGED <<era, handled, body, oldSent, egress, rolled, budget>>

-----------------------------------------------------------------------------
Sender == SenderPlays \/ SenderFlushes \/ SenderPauses \/ SenderResumes

Next ==
  \/ Sender \/ PumpTick \/ HandleFlush
  \/ \E b \in Bodies : Ask(b) \/ Respond(b) \/ Poll(b) \/ CastStopsReading(b)
  \/ WriteAges \/ SessionAges \/ WindowsPass
  \/ (\E who \in Loaders : TakeFlight(who)) \/ ReloadEnds
  \/ WaitPast \/ Look \/ Fallback \/ SessionEnds

Spec == Init /\ [][Next]_vars

\* Requests and bodies run, events are handled, time passes, the bridge's tasks run and a LOAD is
\* answered or times out; a stall that repeats ends the session.
FairSpec ==
  /\ Spec
  /\ WF_vars(HandleFlush) /\ WF_vars(PumpTick)
  /\ \A b \in Bodies : WF_vars(Respond(b)) /\ WF_vars(Poll(b))
  /\ WF_vars(WriteAges) /\ WF_vars(SessionAges)
  /\ \A who \in Loaders : SF_vars(TakeFlight(who))
  /\ WF_vars(ReloadEnds) /\ WF_vars(WaitPast) /\ SF_vars(Look)
  /\ WF_vars(Fallback /\ UNCHANGED budget)
  /\ WF_vars(dog = "end" /\ SessionEnds)

-----------------------------------------------------------------------------
\* A body that lost its generation takes at most the chunk it was about to take: audio queued for
\* the newer body, or for the re-LOAD after a flush, stays in the ring (http.rs:742, "Supersede
\* check BEFORE pop").
StaleTakesOneChunk == \A b \in Bodies : body[b].stale <= Chunk

\* A WAV body sends no byte past its Content-Length, and one that reaches it has signalled once.
EndsAtItsLength ==
  rolled = Cardinality({b \in Bodies : body[b].kind = "wav" /\ body[b].sent >= Limit})

\* A body that starts after a flush was handled sends nothing from before it, unless a promoted
\* member's pump fills the ring: its flush clears the source only (NoOldAudioEver; README, section 6).
NoOldAudio == ~budget.pump => ~oldSent

\* The rollover loop never sleeps on a signal: one that comes between its check and its
\* registration, or during a re-LOAD, is seen (http.rs:131, "lost-wakeup avoidance").
NoLostSignal == loop.pc = "wait" /\ rolled > loop.seen => loop.woken

\* Cast plays on: some body is read, or a pause or the end explains that none is.
Pulled == \E b \in Bodies : current = b /\ body[b].pc # "ended"

\* Audio that nobody pulls does not wait for ever: a GET comes, or the session ends.
StallAnswered ==
  (budget.timers /\ ~Pulled /\ ring # <<>> /\ ~paused) ~> (Pulled \/ ring = <<>> \/ paused \/ over)

\* Does not hold (README, section 6): also for a session fed by a promoted member's pump.
NoOldAudioEver == ~oldSent

\* Does not hold (README, section 6): a body that only waits for a whole FLAC block is no stall
\* (stall.rs:37, "empty ring / sender silence").
SilenceIsNoStall ==
  [][dog = "idle" /\ dog' \in {"early", "stall", "end"}
     => ~\E b \in Bodies : /\ current = b /\ body[b].kind = "flac" /\ body[b].pc = "loop"
                           /\ body[b].left = 0 /\ Len(ring) < Chunk /\ lastWrite = "old"]_vars

\* Does not hold (README, section 6): once the session is over no body keeps its generation.
NoBodyAfterEnd == over => current = 0
=============================================================================
