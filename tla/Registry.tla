------------------------------- MODULE Registry -------------------------------
(***************************************************************************)
(* The registry of Cast speakers (registry.rs): what discovery tells it,   *)
(* and what the maintain loop takes out of it.  Each operation runs under  *)
(* the write lock.  Discovery.tla implements this specification, and       *)
(* Maintain.tla is built on it.                                            *)
(***************************************************************************)
EXTENDS Naturals, FiniteSets

CONSTANTS
  Devices,   \* ids of speakers, stable over renames and moves
  Versions   \* mDNS identities of a speaker: instance, name and endpoint; positive

\* leave: no pending leave, one inside its grace, or one past its deadline.
\* seen: whether last_seen is within the stale TTL.
Entry  == [ver: Versions, leave: {"no", "pending", "due"},
           seen: {"fresh", "stale"}]
Absent == [ver |-> 0, leave |-> "no", seen |-> "fresh"]

VARIABLES
  registry,      \* registry[d]: the entry of d, or Absent
  cancellations  \* pending_leave_cancellations, as a set of ids
registryVars == <<registry, cancellations>>

Init == registry = [d \in Devices |-> Absent] /\ cancellations = {}

Registered(d) == registry[d] # Absent
Leaving(d)    == registry[d].leave # "no"

-----------------------------------------------------------------------------
Fresh(v) == [ver |-> v, leave |-> "no", seen |-> "fresh"]

Appear(d, v) ==
  /\ registry' = [registry EXCEPT ![d] = Fresh(v)]
  /\ cancellations' = IF Leaving(d) THEN cancellations \union {d}
                                    ELSE cancellations

\* A second mark leaves the deadline where it is.
MarkPendingLeave(d) ==
  /\ Registered(d) /\ ~Leaving(d)
  /\ registry' = [registry EXCEPT ![d].leave = "pending"]
  /\ UNCHANGED cancellations

Leave(d) ==
  /\ Registered(d)
  /\ registry' = [registry EXCEPT ![d] = Absent]
  /\ UNCHANGED cancellations

Without(gone) == [d \in Devices |-> IF d \in gone THEN Absent ELSE registry[d]]

DueLeaves == {d \in Devices : registry[d].leave = "due"}
TakeDueLeaves ==
  /\ registry' = Without(DueLeaves)
  /\ UNCHANGED cancellations

\* A device that is leaving is left to take_due_leaves.
Stale == {d \in Devices : registry[d].seen = "stale" /\ ~Leaving(d)}
ExpireStale(keep) ==
  /\ registry' = Without(Stale \ keep)
  /\ UNCHANGED cancellations

DrainCancellations == cancellations' = {} /\ UNCHANGED registry

\* Time passes: the grace of some runs out, the sighting of some grows old.
Pass(due, old) ==
  /\ \A d \in due : registry[d].leave = "pending"
  /\ \A d \in old : Registered(d) /\ registry[d].seen = "fresh"
  /\ registry' = [d \in Devices |->
       [ver   |-> registry[d].ver,
        leave |-> IF d \in due THEN "due" ELSE registry[d].leave,
        seen  |-> IF d \in old THEN "stale" ELSE registry[d].seen]]
  /\ UNCHANGED cancellations

Next ==
  \/ \E d \in Devices, v \in Versions : Appear(d, v)
  \/ \E d \in Devices : MarkPendingLeave(d) \/ Leave(d)
  \/ \E due, old \in SUBSET Devices : Pass(due, old)
  \/ TakeDueLeaves
  \/ \E keep \in SUBSET Devices : ExpireStale(keep)
  \/ DrainCancellations

Spec == Init /\ [][Next]_registryVars

TypeOK ==
  /\ registry \in [Devices -> Entry \union {Absent}]
  /\ cancellations \subseteq Devices
=============================================================================
