------------------------------ MODULE Discovery ------------------------------
(***************************************************************************)
(* Discovery (discover.rs): mDNS events of the network, handled one at a   *)
(* time by the browse thread, and the registry with its clocks             *)
(* (registry.rs).  On macOS an Add is looked up, for seconds, before the   *)
(* speaker is registered, and a Remove starts a grace; on Linux an event   *)
(* carries the record and a removal is ignored.  The maintain loop takes   *)
(* due and stale entries out at any time.                                  *)
(***************************************************************************)
EXTENDS Integers, Sequences, FiniteSets

CONSTANTS
  Devices,     \* ids of speakers
  MaxVersion,  \* bound: mDNS identities a speaker takes
  MaxChanges,  \* bound: changes on the network
  MaxRestarts, \* bound: times the browser exits
  MaxFails,    \* bound: lookups that fail on a healthy speaker
  Grace,       \* DEFAULT_PENDING_LEAVE, in ticks
  Ttl          \* DEFAULT_STALE_TTL, in ticks

ASSUME DevicesAssumption == IsFiniteSet(Devices)
ASSUME ClockAssumption == Grace \in Nat \ {0} /\ Ttl \in Nat \ {0}
ASSUME BoundsAssumption ==
  /\ MaxVersion \in Nat \ {0} /\ MaxChanges \in Nat
  /\ MaxRestarts \in Nat /\ MaxFails \in Nat

Versions == 1..MaxVersion
NoWait   == -1
Entry    == [ver: Versions, age: 0..(Ttl + 1), wait: {NoWait} \union 0..Grace]
NoEntry  == [ver |-> 0, age |-> 0, wait |-> NoWait]
NoLookup == [dev |-> {}, ver |-> 0]
Event    == [kind: {"add", "remove"}, dev: Devices, ver: Versions,
             group: BOOLEAN]

VARIABLES
  os,            \* the backend discovery was built for
  net,           \* net[d]: what the speaker d is on the network
  browser,       \* the browse session runs
  events,        \* browse events not read yet
  lookup,        \* the dns-sd -L of the Add being handled
  entries,       \* the registry; age counts from last_seen up to past the
                 \* TTL, wait counts down to the pending-leave deadline
  cancellations, \* pending_leave_cancellations, as a set of ids
  changes, restarts, fails,
  lost           \* history: the last sighting of d was lost or has expired
vars == <<os, net, browser, events, lookup, entries, cancellations, changes,
          restarts, fails, lost>>

registry == <<entries, cancellations>>
network  == <<os, net, changes>>
thread   == <<browser, events, lookup, restarts, fails>>

Present(d) == entries[d] # NoEntry
Leaving(d) == entries[d].wait # NoWait

TypeOK ==
  /\ os \in {"macos", "linux"} /\ browser \in BOOLEAN
  /\ net \in [Devices -> [on: BOOLEAN, ver: Versions, group: BOOLEAN]]
  /\ events \in Seq(Event)
  /\ lookup = NoLookup \/ lookup \in [dev: {{d} : d \in Devices}, ver: Versions]
  /\ entries \in [Devices -> Entry \union {NoEntry}]
  /\ cancellations \subseteq Devices
  /\ changes \in 0..MaxChanges /\ restarts \in 0..MaxRestarts
  /\ fails \in 0..MaxFails
  /\ lost \in [Devices -> BOOLEAN]

Init ==
  /\ os \in {"macos", "linux"}
  /\ net = [d \in Devices |-> [on |-> FALSE, ver |-> 1, group |-> FALSE]]
  /\ browser = TRUE /\ events = <<>> /\ lookup = NoLookup
  /\ entries = [d \in Devices |-> NoEntry] /\ cancellations = {}
  /\ changes = 0 /\ restarts = 0 /\ fails = 0
  /\ lost = [d \in Devices |-> FALSE]

-----------------------------------------------------------------------------
(* The registry's operations, each under the write lock. *)

Appear(d, v) ==
  /\ entries' = [entries EXCEPT ![d] = [ver |-> v, age |-> 0, wait |-> NoWait]]
  /\ cancellations' = IF Leaving(d) THEN cancellations \union {d}
                                    ELSE cancellations
  /\ UNCHANGED lost

\* (mutant) a repeated removal starts the grace again
MarkAgain(d) ==
  /\ entries' = [entries EXCEPT ![d].wait = IF Present(d) THEN Grace ELSE @]
  /\ UNCHANGED <<cancellations, lost>>

\* AlreadyPending keeps the first deadline.
MarkPendingLeave(d) ==
  /\ entries' = [entries EXCEPT ![d].wait =
                   IF Present(d) /\ ~Leaving(d) THEN Grace ELSE @]
  /\ UNCHANGED <<cancellations, lost>>

Leave(d) ==
  /\ entries' = [entries EXCEPT ![d] = NoEntry]
  /\ UNCHANGED <<cancellations, lost>>

Without(gone) == [d \in Devices |-> IF d \in gone THEN NoEntry ELSE entries[d]]
PendingLeaveIsDue(d) == entries[d].wait = 0
DueLeaves == {d \in Devices : PendingLeaveIsDue(d)}
Stale     == {d \in Devices : entries[d].age > Ttl /\ ~Leaving(d)}

TakeDueLeaves ==
  /\ entries' = Without(DueLeaves)
  /\ UNCHANGED <<cancellations, lost, network, thread>>

\* (mutant) no TTL backstop on macOS, where a goodbye is trusted to come
ExpireOnLinux ==
  \E keep \in SUBSET (IF os = "linux" THEN {d \in Devices : net[d].on}
                                     ELSE Devices) :
    /\ keep = Devices \/ os = "linux"
    /\ entries' = Without(Stale \ keep)
    /\ lost' = [d \in Devices |-> lost[d] \/ d \in Stale \ keep]
    /\ UNCHANGED <<cancellations, network, thread>>

\* On Linux an entry stays while its Cast worker reports a live connection,
\* which only a speaker on the network can have.
ExpireStale ==
  \E keep \in SUBSET (IF os = "linux" THEN {d \in Devices : net[d].on} ELSE {}) :
    /\ entries' = Without(Stale \ keep)
    /\ lost' = [d \in Devices |-> lost[d] \/ d \in Stale \ keep]
    /\ UNCHANGED <<cancellations, network, thread>>

DrainCancellations ==
  /\ cancellations' = {}
  /\ UNCHANGED <<entries, lost, network, thread>>

Older(e) == [ver  |-> e.ver,
             age  |-> IF e.age > Ttl THEN e.age ELSE e.age + 1,
             wait |-> IF e.wait > 0 THEN e.wait - 1 ELSE e.wait]
Tick ==
  /\ entries' = [d \in Devices |-> IF Present(d) THEN Older(entries[d])
                                                  ELSE NoEntry]
  /\ UNCHANGED <<cancellations, lost, network, thread>>

-----------------------------------------------------------------------------
(* The network and its mDNS responder. *)

Add(d, n)    == [kind |-> "add", dev |-> d, ver |-> n.ver, group |-> n.group]
Remove(d, n) == [kind |-> "remove", dev |-> d, ver |-> n.ver, group |-> n.group]

\* d becomes n, and the browser hears one of these sequences of events.
Change(d, n, heard) ==
  /\ changes < MaxChanges /\ changes' = changes + 1
  /\ net' = [net EXCEPT ![d] = n]
  /\ \E news \in heard :
       /\ events' = IF browser THEN events \o news ELSE events
       /\ lost' = [lost EXCEPT ![d] = @ /\ \A i \in DOMAIN news :
                                             news[i].kind # "add"]
  /\ UNCHANGED <<os, browser, lookup, restarts, fails, registry>>

TurnOn(d) ==
  LET n == [net[d] EXCEPT !.on = TRUE]
  IN  ~net[d].on /\ Change(d, n, {<<Add(d, n)>>})

\* With a goodbye, or silently.
TurnOff(d) ==
  LET n == [net[d] EXCEPT !.on = FALSE]
  IN  net[d].on /\ Change(d, n, {<<Remove(d, n)>>, <<>>})

\* A new instance name: its Add and the Remove of the old one in any order.
Rename(d) ==
  LET n == [net[d] EXCEPT !.ver = @ + 1]
  IN  /\ net[d].on /\ net[d].ver < MaxVersion
      /\ Change(d, n, {<<Add(d, n), Remove(d, net[d])>>,
                       <<Remove(d, net[d]), Add(d, n)>>})

\* A service that turns out to be a transient dynamic group.
BecomeGroup(d) ==
  LET n == [net[d] EXCEPT !.group = TRUE]
  IN  net[d].on /\ ~net[d].group /\ Change(d, n, {<<Add(d, n)>>})

-----------------------------------------------------------------------------
(* The browse thread. *)

Reading == browser /\ lookup = NoLookup /\ events # <<>>

\* The speaker of one service, or a dynamic group kept out of the registry.
Classify(d, v, group) == IF group THEN Leave(d) ELSE Appear(d, v)

\* macOS: the thread blocks in dns-sd -L of the instance.
StartLookup ==
  /\ Reading /\ os = "macos" /\ Head(events).kind = "add"
  /\ lookup' = [dev |-> {Head(events).dev}, ver |-> Head(events).ver]
  /\ events' = Tail(events)
  /\ UNCHANGED <<browser, restarts, fails, registry, lost, network>>

LookupAnswers ==
  \E d \in lookup.dev :
    /\ Classify(d, lookup.ver, net[d].group)
    /\ lookup' = NoLookup
    /\ UNCHANGED <<browser, events, restarts, fails, network>>

\* No answer by LOOKUP_TIMEOUT, or one that does not parse.
LookupFails ==
  \E d \in lookup.dev :
    /\ fails < MaxFails /\ fails' = fails + 1
    /\ lookup' = NoLookup
    /\ lost' = [lost EXCEPT ![d] = TRUE]
    /\ UNCHANGED <<browser, events, restarts, registry, network>>

ServiceResolved ==
  /\ Reading /\ os = "linux" /\ Head(events).kind = "add"
  /\ Classify(Head(events).dev, Head(events).ver, Head(events).group)
  /\ events' = Tail(events)
  /\ UNCHANGED <<browser, lookup, restarts, fails, network>>

\* The entry whose recorded instance the removal names.
Matches(e) == Present(e.dev) /\ entries[e.dev].ver = e.ver

\* (mutant) a removal matched by device only
LeaveByDevice(e) == IF Present(e.dev) THEN MarkPendingLeave(e.dev)
                                      ELSE UNCHANGED <<registry, lost>>

LeaveByInstance(e) == IF Matches(e) THEN MarkPendingLeave(e.dev)
                                    ELSE UNCHANGED <<registry, lost>>

ReadRemove ==
  /\ Reading /\ Head(events).kind = "remove"
  /\ IF os = "macos" THEN LeaveByInstance(Head(events))
                     ELSE UNCHANGED <<registry, lost>>
  /\ events' = Tail(events)
  /\ UNCHANGED <<browser, lookup, restarts, fails, network>>

\* dns-sd exits or the mdns-sd channel closes; what was not read is lost.
BrowserExits ==
  /\ browser /\ lookup = NoLookup /\ restarts < MaxRestarts
  /\ browser' = FALSE /\ events' = <<>> /\ restarts' = restarts + 1
  /\ UNCHANGED <<lookup, fails, registry, lost, network>>

\* A new browse hears of every service on the network again.
On == {d \in Devices : net[d].on}
BrowserRestarts ==
  /\ ~browser /\ browser' = TRUE
  /\ \E order \in [1..Cardinality(On) -> On] :
       /\ {order[i] : i \in DOMAIN order} = On
       /\ events' = [i \in DOMAIN order |-> Add(order[i], net[order[i]])]
  /\ lost' = [d \in Devices |-> lost[d] /\ ~net[d].on]
  /\ UNCHANGED <<lookup, restarts, fails, registry, network>>

-----------------------------------------------------------------------------
Browse == StartLookup \/ LookupAnswers \/ ServiceResolved \/ ReadRemove
          \/ BrowserRestarts
Next ==
  \/ \E d \in Devices : TurnOn(d) \/ TurnOff(d) \/ Rename(d) \/ BecomeGroup(d)
  \/ Browse \/ LookupFails \/ BrowserExits
  \/ TakeDueLeaves \/ ExpireStale \/ DrainCancellations \/ Tick

Spec == Init /\ [][Next]_vars

\* The browse thread handles what it reads (a lookup ends by its deadline),
\* the clock runs, and the maintain loop comes round.
FairSpec ==
  Spec /\ WF_vars(Browse) /\ WF_vars(Tick)
       /\ WF_vars(TakeDueLeaves) /\ WF_vars(ExpireStale)

-----------------------------------------------------------------------------
(* Properties *)

\* Once every event is handled and none was lost, a speaker on the network is
\* registered under its present identity and is not leaving, whatever order
\* the Add of a new instance and the Remove of the old one came in, and a
\* dynamic group is not registered (discover.rs, leave_by_instance and
\* ignore_dynamic_group).
SettledIsTrue ==
  \A d \in Devices :
    browser /\ events = <<>> /\ lookup = NoLookup /\ net[d].on /\ ~lost[d]
    => IF net[d].group THEN ~Present(d)
       ELSE entries[d].ver = net[d].ver /\ ~Leaving(d)

\* A speaker that is gone for good leaves the registry, also when its goodbye
\* was never sent or was lost with the browser, and although a lookup of an
\* earlier Add may register it again after it went (registry.rs, the grace
\* and the TTL backstop).
GoneLeaves ==
  \A d \in Devices : <>[](~net[d].on) => <>[](~Present(d))

\* The clocked registry implements the registry of phases.
Phase(e) == IF e = NoEntry THEN [ver |-> 0, leave |-> "no", seen |-> "fresh"]
            ELSE [ver   |-> e.ver,
                  leave |-> IF e.wait = NoWait THEN "no"
                            ELSE IF e.wait = 0 THEN "due" ELSE "pending",
                  seen  |-> IF e.age > Ttl THEN "stale" ELSE "fresh"]
R == INSTANCE Registry WITH registry <- [d \in Devices |-> Phase(entries[d])]

\* Every step of discovery and of the clock is one of the registry's promised
\* steps: in particular a deadline, once set, only runs out or is cancelled by
\* a sighting, and a stale entry that is leaving is left to its deadline.
RegistryPromise == R!Spec
=============================================================================
