------------------------ MODULE OperationTableProofs ------------------------
(***************************************************************************)
(* The contract of the operation table, for any number of operations,      *)
(* executions and generations, any capacity and any deadlines.             *)
(***************************************************************************)
EXTENDS OperationTable, FiniteSetTheorems, TLAPS

\* A record of the table is never mistaken for a missing one.
LEMMA TrackedIsPresent ==
    ASSUME NEW e \in TrackedOperation PROVE e # Absent /\ e.outcome # "Absent"
  BY DEF TrackedOperation, Absent, Outcomes, Terminal

\* The fields a present entry has, under the type invariant.
LEMMA EntryFields ==
    ASSUME TableTypeOK, NEW o \in Ops, entries[o] # Absent
    PROVE  entries[o] \in TrackedOperation
  BY DEF TableTypeOK

\* An entry past its deadline stays an entry when it is swept.
LEMMA ExpiredEntryType ==
    ASSUME NEW e \in TrackedOperation PROVE ExpiredEntry(e) \in TrackedOperation
  BY DEF ExpiredEntry, TrackedOperation, Outcomes, Terminal, Failures

\* Every call leaves a well-formed table (operations.rs, every method).
LEMMA TypeInductive ==
    ASSUME TableTypeOK, [TableNext]_tableVars PROVE TableTypeOK'
  <1> USE TimeAssumption DEF TableTypeOK
  <1>1. CASE Tick /\ UNCHANGED entries
    BY <1>1 DEF Tick
  <1>2. CASE TableCall /\ UNCHANGED now
    <2> SUFFICES entries' \in [Ops -> TrackedOperation \cup {Absent}]
      BY <1>2
    <2>1. CASE Expire
      <3>1. ASSUME NEW o \in Ops PROVE Swept[o] \in TrackedOperation \cup {Absent}
        BY ExpiredEntryType DEF Swept
      <3> QED BY <2>1, <3>1 DEF Expire, Swept
    <2>2. ASSUME NEW o \in Ops, Stopped(o)
          PROVE  entries' \in [Ops -> TrackedOperation \cup {Absent}]
      <3>1. entries[o] \in TrackedOperation
        BY <2>2, EntryFields DEF Stopped, Absent
      <3> QED BY <2>2, <3>1 DEF Stopped, TrackedOperation, Outcomes, Terminal, Failures
    <2>3. ASSUME NEW o \in Ops, Forget(o)
          PROVE  entries' \in [Ops -> TrackedOperation \cup {Absent}]
      BY <2>3 DEF Forget
    <2>4. ASSUME NEW o \in Ops, NEW r \in Revisions, Committed(o, r)
          PROVE  entries' \in [Ops -> TrackedOperation \cup {Absent}]
      <3>1. entries[o] \in TrackedOperation
        BY <2>4, EntryFields DEF Committed, Absent
      <3> QED BY <2>4, <3>1 DEF Committed, Revisions, TrackedOperation, Outcomes, Terminal, Failures
    <2>5. ASSUME NEW o \in Ops, NEW r \in Revisions, NEW m \in BOOLEAN, Verified(o, r, m)
          PROVE  entries' \in [Ops -> TrackedOperation \cup {Absent}]
      <3>1. entries[o] \in TrackedOperation
        BY <2>5, EntryFields DEF Verified, Absent
      <3> QED BY <2>5, <3>1 DEF Verified, TrackedOperation, Outcomes, Terminal, Failures
    <2>6. ASSUME NEW o \in Ops, NEW a \in Actors, Cancel(o, a)
          PROVE  entries' \in [Ops -> TrackedOperation \cup {Absent}]
      BY <2>6 DEF Cancel, Owned, TrackedOperation, Outcomes, Terminal
    <2>7. ASSUME NEW o \in Ops, NEW a \in Actors, NEW f \in Failures, Fail(o, a, f)
          PROVE  entries' \in [Ops -> TrackedOperation \cup {Absent}]
      <3>1. entries[o] \in TrackedOperation
        BY <2>7, EntryFields DEF Fail, Owned
      <3> QED BY <2>7, <3>1 DEF Fail, TrackedOperation, Outcomes, Terminal
    <2>8. ASSUME NEW o \in Ops, NEW a \in Actors, NEW r \in Revisions,
                 NEW g \in Generations \cup {NoGeneration}, Begin(o, a, r, g)
          PROVE  entries' \in [Ops -> TrackedOperation \cup {Absent}]
      BY <2>8 DEF Begin, CanBegin, Owned, TrackedOperation, Outcomes, Terminal
    <2>9. ASSUME NEW o \in Ops, NEW a \in Actors, NEW r \in Revisions,
                 NEW g \in Generations \cup {NoGeneration}, NEW t \in ReviewTimes,
                 Prepare(o, a, r, g, t)
          PROVE  entries' \in [Ops -> TrackedOperation \cup {Absent}]
      BY <2>9 DEF Prepare, Inserted, TrackedOperation, Outcomes, Terminal, Failures, Revisions, None
    <2> QED BY <1>2, <2>1, <2>2, <2>3, <2>4, <2>5, <2>6, <2>7, <2>8, <2>9 DEF TableCall
  <1>3. CASE UNCHANGED tableVars
    BY <1>3 DEF tableVars
  <1> QED BY <1>1, <1>2, <1>3 DEF TableNext

\* The table is well-formed in every reachable state.
THEOREM TypeCorrect == TableSpec => []TableTypeOK
  <1>1. TableInit => TableTypeOK
    BY DEF TableInit, TableTypeOK
  <1> QED BY <1>1, TypeInductive, PTL DEF TableSpec

-----------------------------------------------------------------------------
(* One entry at a time.  Every call changes one entry, or sweeps those past  *)
(* their deadline; EntryStep is what it can do to an entry e that is in the  *)
(* table, and Fresh is an entry that has just been inserted.                 *)

Fresh(e) ==
    /\ e.outcome = "Pending" /\ e.committed_revision = None /\ e.verified_readback = FALSE
    /\ e.failure = "None" /\ e.expiry_requested = FALSE

Advanced(e, f) ==
    /\ e.outcome \in {"Pending", "Running"}
    /\ f \in {[e EXCEPT !.outcome = "Running"], [e EXCEPT !.outcome = "CancelRequested"],
              [e EXCEPT !.outcome = "Cancelled"]}
    /\ f.outcome = "Running" => e.outcome = "Pending"
    /\ f.outcome = "CancelRequested" => e.outcome = "Running"
    /\ f.outcome = "Cancelled" => e.outcome = "Pending"

Failing(e, f) ==
    /\ e.outcome \in {"Running", "Verifying"}
    /\ \E reason \in Failures : f = [e EXCEPT !.outcome = "Failed", !.failure = reason]

Sweeping(e, f) == now >= e.deadline /\ f = ExpiredEntry(e)

Stopping(e, f) ==
    /\ e.outcome = "CancelRequested"
    /\ f = [e EXCEPT !.outcome = IF e.expiry_requested THEN "Expired" ELSE "Cancelled",
                     !.failure = IF e.expiry_requested THEN "DeadlineExceeded" ELSE "None"]

Committing(e, f) ==
    /\ e.outcome = "Running"
    /\ \E rev \in Revisions :
         /\ rev > e.revision
         /\ \/ f = [e EXCEPT !.committed_revision = rev, !.outcome = "Verifying"]
            \/ f = [e EXCEPT !.committed_revision = rev, !.outcome = "Failed",
                             !.failure = "DeadlineExceeded"]

Verifying(e, f) ==
    /\ e.outcome = "Verifying"
    /\ \/ f = [e EXCEPT !.outcome = "Completed", !.verified_readback = TRUE, !.failure = "None"]
       \/ f = [e EXCEPT !.outcome = "Failed", !.verified_readback = FALSE,
                        !.failure = "ReadbackFailed"]

Forgetting(e, f) == e.outcome \in Terminal /\ f = Absent

EntryStep(e, f) ==
    \/ Advanced(e, f) \/ Failing(e, f) \/ Sweeping(e, f) \/ Stopping(e, f)
    \/ Committing(e, f) \/ Verifying(e, f) \/ Forgetting(e, f)

\* Each method of the table, seen from one of its entries.
LEMMA StepOfEntry ==
    ASSUME TableTypeOK, TableNext, NEW p \in Ops, entries[p] # Absent
    PROVE  entries'[p] = entries[p] \/ EntryStep(entries[p], entries'[p])
  <1> USE DEF TableTypeOK, EntryStep
  <1>0. entries[p] \in TrackedOperation
    BY EntryFields
  <1>1. CASE Tick /\ UNCHANGED entries
    BY <1>1
  <1>2. CASE Expire
    BY <1>2, <1>0 DEF Expire, Swept, Sweeping
  <1>3. ASSUME NEW o \in Ops, Stopped(o)
        PROVE  entries'[p] = entries[p] \/ Stopping(entries[p], entries'[p])
    BY <1>3, <1>0 DEF Stopped, Stopping, TrackedOperation
  <1>4. ASSUME NEW o \in Ops, Forget(o)
        PROVE  entries'[p] = entries[p] \/ Forgetting(entries[p], entries'[p])
    BY <1>4, <1>0 DEF Forget, Forgetting
  <1>5. ASSUME NEW o \in Ops, NEW r \in Revisions, Committed(o, r)
        PROVE  entries'[p] = entries[p] \/ Committing(entries[p], entries'[p])
    BY <1>5, <1>0 DEF Committed, Committing, TrackedOperation
  <1>6. ASSUME NEW o \in Ops, NEW r \in Revisions, NEW m \in BOOLEAN, Verified(o, r, m)
        PROVE  entries'[p] = entries[p] \/ Verifying(entries[p], entries'[p])
    BY <1>6, <1>0 DEF Verified, Verifying, TrackedOperation
  <1>7. ASSUME NEW o \in Ops, NEW a \in Actors, Cancel(o, a)
        PROVE  entries'[p] = entries[p] \/ Advanced(entries[p], entries'[p])
    BY <1>7, <1>0 DEF Cancel, Owned, Advanced, TrackedOperation
  <1>8. ASSUME NEW o \in Ops, NEW a \in Actors, NEW f \in Failures, Fail(o, a, f)
        PROVE  entries'[p] = entries[p] \/ Failing(entries[p], entries'[p])
    BY <1>8, <1>0 DEF Fail, Owned, Failing, TrackedOperation
  <1>9. ASSUME NEW o \in Ops, NEW a \in Actors, NEW r \in Revisions,
               NEW g \in Generations \cup {NoGeneration}, Begin(o, a, r, g)
        PROVE  entries'[p] = entries[p] \/ Advanced(entries[p], entries'[p])
    BY <1>9, <1>0 DEF Begin, CanBegin, Owned, Advanced, TrackedOperation
  <1>10. ASSUME NEW o \in Ops, NEW a \in Actors, NEW r \in Revisions,
                NEW g \in Generations \cup {NoGeneration}, NEW t \in ReviewTimes,
                Prepare(o, a, r, g, t)
         PROVE  entries'[p] = entries[p]
    BY <1>10, <1>0 DEF Prepare, CanPrepare, Inserted
  <1> QED BY <1>1, <1>2, <1>3, <1>4, <1>5, <1>6, <1>7, <1>8, <1>9, <1>10 DEF TableNext, TableCall

\* The outcomes that can follow an outcome.
LEMMA OutcomeStep ==
    ASSUME NEW e \in TrackedOperation, NEW f, EntryStep(e, f)
    PROVE  \/ f.outcome = e.outcome
           \/ e.outcome = "Pending" /\ f.outcome \in {"Running", "Cancelled", "Expired"}
           \/ e.outcome = "Running" /\ f.outcome \in {"Verifying", "Failed", "CancelRequested"}
           \/ e.outcome = "CancelRequested" /\ f.outcome \in {"Cancelled", "Expired"}
           \/ e.outcome = "Verifying" /\ f.outcome \in {"Completed", "Failed"}
           \/ e.outcome \in Terminal /\ f = Absent
  <1> USE DEF TrackedOperation, Outcomes, Terminal
  <1>1. CASE Advanced(e, f)
    BY <1>1 DEF Advanced
  <1>2. CASE Failing(e, f)
    BY <1>2 DEF Failing
  <1>3. CASE Sweeping(e, f)
    BY <1>3 DEF Sweeping, ExpiredEntry
  <1>4. CASE Stopping(e, f)
    BY <1>4 DEF Stopping
  <1>5. CASE Committing(e, f)
    BY <1>5 DEF Committing
  <1>6. CASE Verifying(e, f)
    BY <1>6 DEF Verifying
  <1>7. CASE Forgetting(e, f)
    BY <1>7 DEF Forgetting
  <1> QED BY <1>1, <1>2, <1>3, <1>4, <1>5, <1>6, <1>7 DEF EntryStep

\* Only prepare brings an operation into the table, and it brings it in fresh.
LEMMA StepOfAbsent ==
    ASSUME TableTypeOK, TableNext, NEW p \in Ops, entries[p] = Absent, entries'[p] # Absent
    PROVE  Fresh(entries'[p])
  <1> USE DEF TableTypeOK
  <1>1. CASE Tick /\ UNCHANGED entries
    BY <1>1
  <1>2. CASE Expire
    BY <1>2 DEF Expire, Swept
  <1>3. ASSUME NEW o \in Ops,
               \/ Stopped(o) \/ Forget(o)
               \/ \E r \in Revisions : Committed(o, r)
               \/ \E r \in Revisions, m \in BOOLEAN : Verified(o, r, m)
        PROVE  entries'[p] = entries[p]
    <2>1. entries[p].outcome = "Absent"
      BY DEF Absent
    <2>2. CASE Stopped(o)
      BY <2>1, <2>2 DEF Stopped
    <2>3. CASE Forget(o)
      BY <2>3 DEF Forget
    <2>4. CASE \E r \in Revisions : Committed(o, r)
      BY <2>1, <2>4 DEF Committed
    <2>5. CASE \E r \in Revisions, m \in BOOLEAN : Verified(o, r, m)
      BY <2>1, <2>5 DEF Verified
    <2> QED BY <1>3, <2>2, <2>3, <2>4, <2>5
  <1>4. ASSUME NEW o \in Ops, NEW a \in Actors,
               \/ Cancel(o, a)
               \/ \E f \in Failures : Fail(o, a, f)
               \/ \E r \in Revisions, g \in Generations \cup {NoGeneration} : Begin(o, a, r, g)
        PROVE  entries'[p] = entries[p]
    BY <1>4 DEF Cancel, Fail, Begin, CanBegin, Owned
  <1>5. ASSUME NEW o \in Ops, NEW a \in Actors, NEW r \in Revisions,
               NEW g \in Generations \cup {NoGeneration}, NEW t \in ReviewTimes,
               Prepare(o, a, r, g, t)
        PROVE  entries'[p] = entries[p] \/ Fresh(entries'[p])
    BY <1>5 DEF Prepare, Inserted, Fresh
  <1> QED BY <1>1, <1>2, <1>3, <1>4, <1>5 DEF TableNext, TableCall

-----------------------------------------------------------------------------
(* What a record says *)

TruthfulEntry(e) ==
    /\ e.committed_revision # None =>
         /\ e.outcome \in {"Verifying", "Failed", "Completed"}
         /\ e.committed_revision > e.revision
    /\ e.outcome \in {"Verifying", "Completed"} => e.committed_revision # None
    /\ e.verified_readback <=> e.outcome = "Completed"
    /\ e.outcome \in {"Failed", "Expired"} <=> e.failure # "None"
    /\ e.outcome = "Expired" => e.failure = "DeadlineExceeded"

TimelyEntry(e, t) ==
    /\ e.outcome = "Expired" \/ e.expiry_requested => t >= e.deadline
    /\ e.expiry_requested => e.outcome \in {"CancelRequested", "Expired"}

\* A truthful record stays truthful, and an expiry is never early.
LEMMA EntryStaysTruthful ==
    ASSUME now \in Nat, NEW e \in TrackedOperation, NEW f,
           TruthfulEntry(e), TimelyEntry(e, now), EntryStep(e, f), f # Absent
    PROVE  TruthfulEntry(f) /\ TimelyEntry(f, now)
  <1> USE DEF TruthfulEntry, TimelyEntry, TrackedOperation, Outcomes, Terminal, Failures, None
  <1>1. CASE Advanced(e, f)
    BY <1>1 DEF Advanced
  <1>2. CASE Failing(e, f)
    BY <1>2 DEF Failing
  <1>3. CASE Sweeping(e, f)
    <2>1. CASE e.outcome = "Pending"
      BY <1>3, <2>1 DEF Sweeping, ExpiredEntry
    <2>2. CASE e.outcome \in {"Running", "CancelRequested"}
      BY <1>3, <2>2 DEF Sweeping, ExpiredEntry
    <2>3. CASE e.outcome = "Verifying"
      BY <1>3, <2>3 DEF Sweeping, ExpiredEntry
    <2>4. CASE e.outcome \in Terminal
      BY <1>3, <2>4 DEF Sweeping, ExpiredEntry
    <2> QED BY <2>1, <2>2, <2>3, <2>4
  <1>4. CASE Stopping(e, f)
    BY <1>4 DEF Stopping
  <1>5. CASE Committing(e, f)
    <2>1. PICK rev \in Revisions :
             /\ rev > e.revision
             /\ \/ f = [e EXCEPT !.committed_revision = rev, !.outcome = "Verifying"]
                \/ f = [e EXCEPT !.committed_revision = rev, !.outcome = "Failed",
                                 !.failure = "DeadlineExceeded"]
      BY <1>5 DEF Committing
    <2>2. rev \in Nat /\ rev # 0
      BY TimeAssumption DEF Revisions
    <2>3. /\ f.committed_revision = rev /\ f.revision = e.revision /\ f.deadline = e.deadline
          /\ f.verified_readback = e.verified_readback /\ f.expiry_requested = e.expiry_requested
          /\ \/ f.outcome = "Verifying" /\ f.failure = e.failure
             \/ f.outcome = "Failed" /\ f.failure = "DeadlineExceeded"
      BY <2>1
    <2>4. e.outcome = "Running"
      BY <1>5 DEF Committing
    <2> QED BY <2>1, <2>2, <2>3, <2>4
  <1>6. CASE Verifying(e, f)
    <2>1. /\ e.outcome = "Verifying" /\ f.committed_revision = e.committed_revision
          /\ f.revision = e.revision /\ f.expiry_requested = e.expiry_requested
          /\ f.deadline = e.deadline
          /\ \/ f.outcome = "Completed" /\ f.verified_readback = TRUE /\ f.failure = "None"
             \/ f.outcome = "Failed" /\ f.verified_readback = FALSE /\ f.failure = "ReadbackFailed"
      BY <1>6 DEF Verifying
    <2> QED BY <2>1
  <1>7. CASE Forgetting(e, f)
    BY <1>7 DEF Forgetting
  <1> QED BY <1>1, <1>2, <1>3, <1>4, <1>5, <1>6, <1>7 DEF EntryStep

TruthInv == TableTypeOK /\ ResultTruthful /\ ExpiryIsReal

\* ResultTruthful and ExpiryIsReal, one entry at a time.
LEMMA TruthByEntry ==
    (ResultTruthful /\ ExpiryIsReal) <=>
    \A o \in Ops : entries[o] # Absent => TruthfulEntry(entries[o]) /\ TimelyEntry(entries[o], now)
  BY DEF ResultTruthful, ExpiryIsReal, TruthfulEntry, TimelyEntry

\* The same of the next state.
LEMMA TruthByEntryNext ==
    (ResultTruthful' /\ ExpiryIsReal') <=>
    \A o \in Ops :
      entries'[o] # Absent => TruthfulEntry(entries'[o]) /\ TimelyEntry(entries'[o], now')
  BY DEF ResultTruthful, ExpiryIsReal, TruthfulEntry, TimelyEntry

\* TruthInv is inductive.
LEMMA TruthInductive ==
    ASSUME TruthInv, [TableNext]_tableVars PROVE TruthInv'
  <1> USE DEF TruthInv
  <1>1. TableTypeOK'
    BY TypeInductive
  <1>2. CASE UNCHANGED tableVars
    BY <1>2 DEF tableVars, TableTypeOK, ResultTruthful, ExpiryIsReal, Absent, None
  <1>3. CASE TableNext
    <2> SUFFICES ASSUME NEW o \in Ops, entries'[o] # Absent
                 PROVE  TruthfulEntry(entries'[o]) /\ TimelyEntry(entries'[o], now')
      BY <1>1, TruthByEntryNext
    <2>1. now \in Nat /\ now' \in Nat /\ now' >= now
      BY <1>1, <1>3 DEF TableTypeOK, TableNext, Tick
    <2>2. CASE entries[o] = Absent
      <3>1. Fresh(entries'[o])
        BY <1>3, <2>2, StepOfAbsent
      <3> QED BY <3>1 DEF Fresh, TruthfulEntry, TimelyEntry
    <2>3. CASE entries[o] # Absent
      <3>1. /\ entries[o] \in TrackedOperation /\ entries'[o] \in TrackedOperation
            /\ TruthfulEntry(entries[o]) /\ TimelyEntry(entries[o], now)
        BY <1>1, <2>3, TruthByEntry DEF TableTypeOK
      <3>2. TruthfulEntry(entries'[o]) /\ TimelyEntry(entries'[o], now)
        BY <1>3, <2>1, <2>3, <3>1, StepOfEntry, EntryStaysTruthful
      <3> QED BY <2>1, <3>1, <3>2 DEF TimelyEntry, TrackedOperation
    <2> QED BY <2>2, <2>3
  <1> QED BY <1>2, <1>3

\* TruthInv holds in every reachable state of the table.
LEMMA TruthInvariant == TableSpec => []TruthInv
  <1>1. TableInit => TruthInv
    BY DEF TableInit, TruthInv, TableTypeOK, ResultTruthful, ExpiryIsReal
  <1> QED BY <1>1, TruthInductive, PTL DEF TableSpec

\* "A committed change cannot truthfully become cancelled", for every table.
THEOREM Truthful == TableSpec => []ResultTruthful
  BY TruthInvariant, PTL DEF TruthInv

\* No order of sweeps, cancellations and acknowledgements expires early.
THEOREM NeverEarly == TableSpec => []ExpiryIsReal
  BY TruthInvariant, PTL DEF TruthInv

-----------------------------------------------------------------------------
(* What a step may never do *)

\* "Refuses rewriting a terminal result", "only terminal records may be
\* removed": for every table, a result stands until it is forgotten and
\* unfinished work is never dropped.
THEOREM ResultsStand == TableSpec => FinalResultsStand
  <1> DEFINE Stands == \A o \in Ops :
                entries[o] # Absent =>
                  /\ entries[o].outcome \in Terminal => entries'[o] \in {entries[o], Absent}
                  /\ entries[o].outcome \notin Terminal => entries'[o] # Absent
  <1>1. ASSUME TableTypeOK, [TableNext]_tableVars PROVE [Stands]_tableVars
    <2> SUFFICES ASSUME TableNext, NEW o \in Ops, entries[o] # Absent
                 PROVE  /\ entries[o].outcome \in Terminal => entries'[o] \in {entries[o], Absent}
                        /\ entries[o].outcome \notin Terminal => entries'[o] # Absent
      BY <1>1
    <2>1. entries[o] \in TrackedOperation
      BY <1>1, EntryFields
    <2>2. entries'[o] = entries[o] \/ EntryStep(entries[o], entries'[o])
      BY <1>1, StepOfEntry
    <2> DEFINE e == entries[o]  f == entries'[o]
    <2>3. CASE e.outcome \in Terminal
      <3>1. f \in {e, Absent}
        BY <2>1, <2>2, <2>3 DEF EntryStep, Advanced, Failing, Sweeping, ExpiredEntry, Stopping,
             Committing, Verifying, Forgetting, Terminal
      <3> QED BY <3>1, <2>3
    <2>4. CASE e.outcome \notin Terminal
      <3>1. f = e \/ f.outcome \in Outcomes
        BY <2>1, <2>2, <2>4, OutcomeStep DEF TrackedOperation, Outcomes, Terminal
      <3>2. f # Absent
        BY <3>1 DEF Absent, Outcomes, Terminal
      <3> QED BY <2>4, <3>2
    <2> QED BY <2>3, <2>4
  <1> QED BY <1>1, TypeCorrect, PTL DEF TableSpec, FinalResultsStand

\* MAX_OPERATIONS is never exceeded: only prepare adds a key, when there is room.
THEOREM Bounded == TableSpec => []RetentionBounded
  <1>1. TableInit => RetentionBounded
    <2> SUFFICES ASSUME TableInit PROVE RetentionBounded
      OBVIOUS
    <2>1. Tracked = {}
      BY DEF TableInit, Tracked
    <2> QED BY <2>1, FS_EmptySet, CapacityAssumption DEF RetentionBounded
  <1>2. ASSUME TableTypeOK, RetentionBounded, [TableNext]_tableVars PROVE RetentionBounded'
    <2>0. IsFiniteSet(Tracked) /\ Cardinality(Tracked) \in Nat
      BY OpsAssumption, FS_Subset, FS_CardinalityType DEF Tracked
    <2>1. ASSUME Tracked' \subseteq Tracked PROVE RetentionBounded'
      <3>1. Cardinality(Tracked') <= Cardinality(Tracked) /\ Cardinality(Tracked') \in Nat
        BY <2>0, <2>1, FS_Subset, FS_CardinalityType
      <3> QED BY <2>0, <3>1, <1>2, CapacityAssumption DEF RetentionBounded
    <2>2. CASE UNCHANGED tableVars
      BY <2>1, <2>2 DEF tableVars, Tracked
    <2>3. ASSUME NEW o \in Ops, NEW a \in Actors, NEW r \in Revisions,
                 NEW g \in Generations \cup {NoGeneration}, NEW t \in ReviewTimes,
                 Prepare(o, a, r, g, t)
          PROVE  RetentionBounded'
      <3>1. Tracked' \subseteq Tracked \cup {o} /\ o \notin Tracked
        BY <1>2, <2>3 DEF Tracked, Prepare, CanPrepare, Inserted, TableTypeOK
      <3>2. Cardinality(Tracked \cup {o}) = Cardinality(Tracked) + 1 /\ IsFiniteSet(Tracked \cup {o})
        BY <2>0, <3>1, FS_AddElement
      <3>3. Cardinality(Tracked') <= Cardinality(Tracked) + 1 /\ Cardinality(Tracked') \in Nat
        BY <3>1, <3>2, FS_Subset, FS_CardinalityType
      <3> QED BY <2>0, <2>3, <3>3, CapacityAssumption DEF RetentionBounded, Prepare, CanPrepare
    <2>4. CASE Tick /\ UNCHANGED entries
      BY <2>1, <2>4 DEF Tracked
    <2>5. CASE Expire
      BY <2>1, <2>5 DEF Expire, Swept, Tracked
    <2>6. ASSUME NEW o \in Ops,
                 \/ Stopped(o) \/ Forget(o)
                 \/ \E r \in Revisions : Committed(o, r)
                 \/ \E r \in Revisions, m \in BOOLEAN : Verified(o, r, m)
          PROVE  Tracked' \subseteq Tracked
      <3>1. entries[o] = Absent => entries[o].outcome = "Absent"
        BY DEF Absent
      <3>2. CASE Stopped(o)
        BY <1>2, <3>1, <3>2 DEF Stopped, Tracked, TableTypeOK
      <3>3. CASE Forget(o)
        BY <1>2, <3>3 DEF Forget, Tracked, TableTypeOK
      <3>4. CASE \E r \in Revisions : Committed(o, r)
        BY <1>2, <3>1, <3>4 DEF Committed, Tracked, TableTypeOK
      <3>5. CASE \E r \in Revisions, m \in BOOLEAN : Verified(o, r, m)
        BY <1>2, <3>1, <3>5 DEF Verified, Tracked, TableTypeOK
      <3> QED BY <2>6, <3>2, <3>3, <3>4, <3>5
    <2>7. ASSUME NEW o \in Ops, NEW a \in Actors,
                 \/ Cancel(o, a)
                 \/ \E f \in Failures : Fail(o, a, f)
                 \/ \E r \in Revisions, g \in Generations \cup {NoGeneration} : Begin(o, a, r, g)
          PROVE  Tracked' \subseteq Tracked
      BY <1>2, <2>7 DEF Cancel, Fail, Begin, CanBegin, Owned, Tracked, TableTypeOK
    <2> QED BY <1>2, <2>1, <2>2, <2>3, <2>4, <2>5, <2>6, <2>7 DEF TableNext, TableCall
  <1> QED BY <1>1, <1>2, TypeCorrect, PTL DEF TableSpec

\* The table implements OperationPromise: every method call is a step of the
\* promise or none, for every number of operations.
THEOREM Refinement == TableSpec => KeepsPromise
  <1>1. TableInit => Promise!PromiseInit
    BY DEF TableInit, Promise!PromiseInit, Stage, Absent
  <1>2. ASSUME TableTypeOK, TableTypeOK', [TableNext]_tableVars
        PROVE  [Promise!PromiseNext]_([o \in Ops |-> Stage(entries[o])])
    <2>1. CASE UNCHANGED tableVars
      BY <2>1 DEF tableVars
    <2>2. CASE TableNext
      <3>1. \A o \in Ops : Stage(entries'[o]) \in Promise!Stages
        BY DEF Stage, Promise!Stages
      <3>2. ASSUME NEW o \in Ops
            PROVE  \/ Stage(entries'[o]) = Stage(entries[o])
                   \/ Stage(entries'[o]) \in Promise!Following(Stage(entries[o]))
        <4>1. CASE entries[o] = Absent /\ entries'[o] = Absent
          BY <4>1
        <4>2. CASE entries[o] = Absent /\ entries'[o] # Absent
          <5>1. entries[o].outcome = "Absent"
            BY <4>2 DEF Absent
          <5>2. Fresh(entries'[o])
            BY <1>2, <2>2, <4>2, StepOfAbsent
          <5> QED BY <5>1, <5>2 DEF Fresh, Stage, Promise!Following
        <4>3. CASE entries[o] # Absent
          <5>1. entries[o] \in TrackedOperation
            BY <1>2, <4>3, EntryFields
          <5>2. CASE entries'[o] = entries[o]
            BY <5>2
          <5>3. CASE EntryStep(entries[o], entries'[o])
            <6>1. Absent.outcome = "Absent"
              BY DEF Absent
            <6> QED BY <5>1, <5>3, <6>1, OutcomeStep DEF Stage, Promise!Following, Terminal
          <5> QED BY <1>2, <2>2, <4>3, <5>2, <5>3, StepOfEntry
        <4> QED BY <4>1, <4>2, <4>3
      <3> QED BY <3>1, <3>2 DEF Promise!PromiseNext
    <2> QED BY <1>2, <2>1, <2>2
  <1> QED BY <1>1, <1>2, TypeCorrect, PTL DEF TableSpec, KeepsPromise, Promise!PromiseSpec
=============================================================================
