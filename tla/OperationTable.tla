--------------------------- MODULE OperationTable ---------------------------
(***************************************************************************)
(* The bounded lifecycle of policy operations kept by the application      *)
(* security broker (operations.rs).  One entry per reviewed change; the    *)
(* D-Bus dispatcher and the policy worker share the table behind a mutex,  *)
(* so every method is one atomic step.  TableNext lets the callers invoke  *)
(* the methods in any order: it is the contract of the type by itself.     *)
(* How the broker really calls it is modelled in PolicyWorkflow.           *)
(*                                                                         *)
(* A method that returns an error before it assigns anything leaves the    *)
(* table alone, so an action is the path on which the method assigns: its  *)
(* guard is the negation of the early returns.                             *)
(***************************************************************************)
EXTENDS Naturals, FiniteSets

CONSTANTS
    Ops,             \* operation references (random, never reused)
    Actors,          \* execution identities: boot, pid, start ticks, context
    Generations,     \* content generations a preview can be bound to
    NoGeneration,    \* the None of a registration preview
    MAX_OPERATIONS,  \* 32 in the code
    ReviewTimes,     \* the lifetimes a preview may be given
    MaxRevision,     \* bound: policy revisions the callers report
    MaxTime          \* bound: the last instant of the clock

ASSUME OpsAssumption == IsFiniteSet(Ops)
ASSUME CapacityAssumption == MAX_OPERATIONS \in Nat
ASSUME GenerationAssumption == NoGeneration \notin Generations
ASSUME TimeAssumption == ReviewTimes \subseteq Nat /\ MaxTime \in Nat /\ MaxRevision \in Nat

VARIABLES
    entries,  \* the map, total on Ops: Absent marks a key that is not in it
    now       \* the monotonic clock, Instant::now()

tableVars == <<entries, now>>

-----------------------------------------------------------------------------

None == 0    \* Option::None of a committed revision: real revisions start at 1

Terminal == {"Completed", "Failed", "Cancelled", "Expired"}
Outcomes == {"Pending", "Running", "CancelRequested", "Verifying"} \cup Terminal
Failures == {"StaleRevision", "AuthorizationRequired", "ReadbackFailed", "DeadlineExceeded"}

TrackedOperation ==
    [outcome            : Outcomes,
     owner              : Actors,
     revision           : Nat,
     generation         : Generations \cup {NoGeneration},
     deadline           : Nat,
     committed_revision : Nat,
     verified_readback  : BOOLEAN,
     failure            : Failures \cup {"None"},
     expiry_requested   : BOOLEAN]

Absent == [outcome |-> "Absent"]

Tracked == {o \in Ops : entries[o] # Absent}

TableTypeOK ==
    /\ entries \in [Ops -> TrackedOperation \cup {Absent}]
    /\ now \in Nat

\* A broker process starts from OperationTable::default().
TableInit ==
    /\ entries = [o \in Ops |-> Absent]
    /\ now = 0

-----------------------------------------------------------------------------

\* prepare_binding: the one place that inserts.  A preview of an application
\* change carries its generation, a registration preview carries none.
CanPrepare(o) == entries[o] = Absent /\ Cardinality(Tracked) < MAX_OPERATIONS

Inserted(table, o, actor, rev, gen, expires) ==
    [table EXCEPT ![o] =
       [outcome            |-> "Pending",
        owner              |-> actor,
        revision           |-> rev,
        generation         |-> gen,
        deadline           |-> now + expires,
        committed_revision |-> None,
        verified_readback  |-> FALSE,
        failure            |-> "None",
        expiry_requested   |-> FALSE]]

Prepare(o, actor, rev, gen, expires) ==
    /\ CanPrepare(o)
    /\ entries' = Inserted(entries, o, actor, rev, gen, expires)

\* The reference is known and bound to exactly this execution, not just its UID.
Owned(o, actor) == entries[o] # Absent /\ entries[o].owner = actor

\* begin, and begin_registration when gen = NoGeneration.
CanBegin(o, actor, rev, gen) ==
    /\ Owned(o, actor)
    /\ now < entries[o].deadline
    /\ entries[o].revision = rev
    /\ entries[o].generation = gen
    /\ entries[o].outcome = "Pending"

Begin(o, actor, rev, gen) ==
    /\ CanBegin(o, actor, rev, gen)
    /\ entries' = [entries EXCEPT ![o].outcome = "Running"]

Fail(o, actor, reason) ==
    /\ Owned(o, actor)
    /\ entries[o].outcome \in {"Running", "Verifying"}
    /\ entries' = [entries EXCEPT ![o].outcome = "Failed", ![o].failure = reason]

\* Fault: started work is reported as cancelled before it has stopped.
CancelAtOnce(o, actor) ==
    /\ Owned(o, actor)
    /\ entries[o].outcome \in {"Pending", "Running"}
    /\ entries' = [entries EXCEPT ![o].outcome = "Cancelled"]

Cancel(o, actor) ==
    /\ Owned(o, actor)
    /\ entries[o].outcome \in {"Pending", "Running"}
    /\ entries' = [entries EXCEPT ![o].outcome =
                     IF @ = "Pending" THEN "Cancelled" ELSE "CancelRequested"]

\* Fault: a committed change expires like a started one.
ExpiredCommit(e) ==
    IF e.outcome \in {"Pending", "Verifying"}
      THEN [e EXCEPT !.outcome = "Expired", !.failure = "DeadlineExceeded"]
      ELSE e

\* What expire does to one entry whose deadline has passed.
ExpiredEntry(e) ==
    CASE e.outcome = "Pending" ->
           [e EXCEPT !.outcome = "Expired", !.failure = "DeadlineExceeded"]
      [] e.outcome \in {"Running", "CancelRequested"} ->
           [e EXCEPT !.outcome = "CancelRequested", !.expiry_requested = TRUE]
      [] e.outcome = "Verifying" ->
           [e EXCEPT !.outcome = "Failed", !.failure = "ReadbackFailed"]
      [] OTHER -> e

\* Fault: the sweep comes one instant early.
SweptEarly ==
    [o \in Ops |-> IF entries[o] # Absent /\ now + 1 >= entries[o].deadline
                     THEN ExpiredEntry(entries[o])
                     ELSE entries[o]]

\* The table after expire: every entry past its deadline is swept at once.
Swept ==
    [o \in Ops |-> IF entries[o] # Absent /\ now >= entries[o].deadline
                     THEN ExpiredEntry(entries[o])
                     ELSE entries[o]]

Expire == entries' = Swept

\* The worker acknowledges that it has really stopped.
Stopped(o) ==
    /\ entries[o].outcome = "CancelRequested"
    /\ entries' = [entries EXCEPT
                     ![o].outcome = IF entries[o].expiry_requested THEN "Expired" ELSE "Cancelled",
                     ![o].failure = IF entries[o].expiry_requested THEN "DeadlineExceeded" ELSE "None"]

\* Commit acknowledgement.  A late commit is kept on record but never succeeds:
\* the method returns Deadline after it has written the failure.
Committed(o, rev) ==
    /\ entries[o].outcome = "Running"
    /\ rev > entries[o].revision
    /\ entries' = [entries EXCEPT
                     ![o].committed_revision = rev,
                     ![o].outcome = IF now >= entries[o].deadline THEN "Failed" ELSE "Verifying",
                     ![o].failure = IF now >= entries[o].deadline THEN "DeadlineExceeded" ELSE @]

Verified(o, readback, matched) ==
    /\ entries[o].outcome = "Verifying"
    /\ LET ok == /\ now < entries[o].deadline
                 /\ matched
                 /\ entries[o].committed_revision = readback
       IN entries' = [entries EXCEPT
                        ![o].outcome = IF ok THEN "Completed" ELSE "Failed",
                        ![o].verified_readback = ok,
                        ![o].failure = IF ok THEN "None" ELSE "ReadbackFailed"]

Forget(o) ==
    /\ entries[o] # Absent
    /\ entries[o].outcome \in Terminal
    /\ entries' = [entries EXCEPT ![o] = Absent]

-----------------------------------------------------------------------------

Tick ==
    /\ now < MaxTime
    /\ now' = now + 1

Revisions == 1 .. MaxRevision

\* One method call, by whoever holds the lock.
TableCall ==
    \/ Expire
    \/ \E o \in Ops :
         \/ Stopped(o)
         \/ Forget(o)
         \/ \E r \in Revisions : Committed(o, r)
         \/ \E r \in Revisions, m \in BOOLEAN : Verified(o, r, m)
         \/ \E a \in Actors :
              \/ Cancel(o, a)
              \/ \E f \in Failures : Fail(o, a, f)
              \/ \E r \in Revisions, g \in Generations \cup {NoGeneration} :
                   \/ Begin(o, a, r, g)
                   \/ \E t \in ReviewTimes : Prepare(o, a, r, g, t)

TableNext ==
    \/ Tick /\ UNCHANGED entries
    \/ TableCall /\ UNCHANGED now

TableSpec == TableInit /\ [][TableNext]_tableVars

-----------------------------------------------------------------------------
(* Properties *)

\* "A committed change cannot truthfully become cancelled" (expire), "Preserve
\* a real commit even when it completed late" (committed): what a record says
\* about its change agrees with what happened to it, whatever the order in
\* which the dispatcher, the worker and the sweep called the table.
ResultTruthful ==
    \A o \in Ops :
      LET e == entries[o] IN
      e # Absent =>
        /\ e.committed_revision # None =>
             /\ e.outcome \in {"Verifying", "Failed", "Completed"}
             /\ e.committed_revision > e.revision
        /\ e.outcome \in {"Verifying", "Completed"} => e.committed_revision # None
        /\ e.verified_readback <=> e.outcome = "Completed"
        /\ e.outcome \in {"Failed", "Expired"} <=> e.failure # "None"
        /\ e.outcome = "Expired" => e.failure = "DeadlineExceeded"

\* "Operation deadline expired" is only ever reported after the deadline: no
\* order of sweeps, cancellations and worker acknowledgements expires early.
ExpiryIsReal ==
    \A o \in Ops :
      entries[o] # Absent =>
        /\ entries[o].outcome = "Expired" \/ entries[o].expiry_requested
             => now >= entries[o].deadline
        /\ entries[o].expiry_requested => entries[o].outcome \in {"CancelRequested", "Expired"}

\* MAX_OPERATIONS bounds the map in every reachable state.
RetentionBounded == Cardinality(Tracked) <= MAX_OPERATIONS

\* "Refuses rewriting a terminal result" (failed), "only terminal records may
\* be removed" (forget): a result once reported is never rewritten, and a live
\* or committing operation is never dropped from the table.
FinalResultsStand ==
    [][\A o \in Ops :
         entries[o] # Absent =>
           /\ entries[o].outcome \in Terminal => entries'[o] \in {entries[o], Absent}
           /\ entries[o].outcome \notin Terminal => entries'[o] # Absent]_tableVars

\* The stage of its promise that a record stands for.
Stage(e) ==
    CASE e.outcome = "Absent"          -> "unknown"
      [] e.outcome = "Pending"         -> "reviewed"
      [] e.outcome = "Running"         -> "started"
      [] e.outcome = "CancelRequested" -> "stopping"
      [] e.outcome = "Verifying"       -> "stored"
      [] e.outcome = "Completed"       -> "done"
      [] e.outcome = "Failed"          -> "failed"
      [] OTHER                         -> "withdrawn"

Promise == INSTANCE OperationPromise WITH promise <- [o \in Ops |-> Stage(entries[o])]

\* "Running work remains cancellation requested until the worker has actually
\* stopped" (expire): started work is never waved through to Cancelled or
\* Expired, a stored change is never withdrawn, and nothing is Completed that
\* was not stored - the table implements OperationPromise.
KeepsPromise == Promise!PromiseSpec
=============================================================================
