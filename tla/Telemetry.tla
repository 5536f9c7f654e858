------------------------------ MODULE Telemetry ------------------------------
(***************************************************************************)
(* Security history (telemetry.py, findings.py, reconcile_history of the    *)
(* session service).  Root collectors append events to a                    *)
(* bounded spool under /run; the session service imports the whole spool    *)
(* again and again into its own database, which drops what it has already   *)
(* and prunes what is old or too much.  Findings are derived when an event  *)
(* is inserted, or once, batch by batch, for a database older than them.    *)
(*                                                                         *)
(* Every event here is a failure of one operation, so all of them feed one  *)
(* finding.  An id orders events for the migration, at says when it         *)
(* happened (0: not yet).  Each transaction of the database is one step.    *)
(***************************************************************************)
EXTENDS Naturals, Sequences, FiniteSets, FiniteSetsExt, SequencesExt

CONSTANTS
    MaxEvents,               \* bound: event ids are 1 .. MaxEvents
    MaxNow,                  \* bound on the clock
    RETENTION,               \* how long an event is kept (7 or 30 days)
    MAX_ROOT_SPOOL_EVENTS,
    MIGRATION_LIMIT          \* 64 in the code

ASSUME TelemetryConstants ==
    /\ {MaxEvents, MaxNow, RETENTION} \subseteq Nat
    /\ {MAX_ROOT_SPOOL_EVENTS, MIGRATION_LIMIT} \subseteq Nat \ {0}

VARIABLES
    now, at,
    spool,         \* telemetry-events.jsonl
    stored,        \* table events: the ids in it
    finding,       \* the finding's row
    migrated_to    \* metadata finding-event-migration/v1

telemetryVars == <<now, at, spool, stored, finding, migrated_to>>

-----------------------------------------------------------------------------

Ids == 1 .. MaxEvents
NoFinding == [state |-> "NONE", last_seen |-> 0, resolved_at |-> 0]

TelemetryTypeOK ==
    /\ now \in 1 .. MaxNow /\ at \in [Ids -> 0 .. MaxNow]
    /\ spool \in Seq(Ids) /\ Len(spool) <= MAX_ROOT_SPOOL_EVENTS
    /\ stored \subseteq {e \in Ids : at[e] # 0}
    /\ finding \in [state : {"NONE", "UNRESOLVED", "RESOLVED"}, last_seen : 0 .. MaxNow, resolved_at : 0 .. MaxNow]
    /\ migrated_to \in [cursor : 0 .. MaxEvents, complete : BOOLEAN]

\* A database of an earlier release has events and no findings.
TelemetryInit ==
    /\ now = 1 /\ spool = <<>>
    /\ \E old \in SUBSET Ids : at = [e \in Ids |-> IF e \in old THEN 1 ELSE 0] /\ stored = old
    /\ finding = NoFinding /\ migrated_to = [cursor |-> 0, complete |-> FALSE]

-----------------------------------------------------------------------------
(* Events and their finding.                                                *)

\* _retention: expires_at has not passed.
Unexpired(e) == at[e] + RETENTION >= now

\* prune: the expired, then, while the database is too large, the oldest
\* events (an equal time is ordered by the id).  It is a transaction of its
\* own after the insertion, so a service that dies between skips it.
Older(e, f) == at[e] < at[f] \/ (at[e] = at[f] /\ e < f)
Pruned(ids) ==
    LET live == {e \in ids : Unexpired(e)} IN
    {ids} \cup {{e \in live : Cardinality({f \in live : Older(f, e)}) >= evicted} : evicted \in 0 .. Cardinality(live)}

\* event_finding and _upsert_finding.
Upserted(latest) == [state |-> "UNRESOLVED", last_seen |-> latest, resolved_at |-> 0]

\* Fault: an event that is inserted again reopens the finding.
ReopensAlways(latest) == TRUE

\* The comparison of _record_value.
Reopens(latest) ==
    \/ finding.state = "NONE"
    \/ latest > (IF finding.resolved_at # 0 THEN finding.resolved_at ELSE finding.last_seen)

\* record_many: duplicates are ignored; the newest of the new events decides.
RecordMany(values) ==
    LET derived == {at[e] : e \in {x \in values \ stored : Unexpired(x)}} IN
    /\ stored' \in Pruned(stored \cup values)
    /\ finding' = IF derived # {} /\ Reopens(Max(derived)) THEN Upserted(Max(derived)) ELSE finding

\* record_event of a root collector: spool_event keeps the last ones.
SpoolEvent(e) ==
    LET lines == Append(spool, e) IN
    /\ at[e] = 0 /\ at' = [at EXCEPT ![e] = now]
    /\ spool' = IF Len(lines) > MAX_ROOT_SPOOL_EVENTS THEN Tail(lines) ELSE lines
    /\ UNCHANGED <<now, stored, finding, migrated_to>>

\* import_root_spool: all of it, every time.
ImportRootSpool ==
    /\ spool # <<>>
    /\ RecordMany(ToSet(spool))
    /\ UNCHANGED <<now, at, spool, migrated_to>>

\* _row_value and event_finding of one batch, in the order of the ids.
Batch == LET rest == {e \in stored : e > migrated_to.cursor} IN
         {e \in rest : Cardinality({f \in rest : f < e}) < MIGRATION_LIMIT}

\* reconcile_findings: a resolved finding stays as it is.
ReconcileFindings ==
    LET derived == {at[e] : e \in {x \in Batch : Unexpired(x)}} IN
    /\ ~migrated_to.complete
    /\ finding' = IF derived # {} /\ (finding.state = "NONE" \/ (finding.state = "UNRESOLVED" /\ Max(derived) > finding.last_seen))
                  THEN Upserted(Max(derived)) ELSE finding
    /\ migrated_to' = [cursor |-> IF Batch = {} THEN migrated_to.cursor ELSE Max(Batch),
                     complete |-> Cardinality(Batch) < MIGRATION_LIMIT]
    /\ UNCHANGED <<now, at, spool, stored>>

\* upsert_finding with state RESOLVED.
ResolveFinding ==
    /\ finding.state = "UNRESOLVED"
    /\ finding' = [finding EXCEPT !.state = "RESOLVED", !.resolved_at = now]
    /\ UNCHANGED <<now, at, spool, stored, migrated_to>>

-----------------------------------------------------------------------------

Tick ==
    /\ now < MaxNow /\ now' = now + 1
    /\ UNCHANGED <<at, spool, stored, finding, migrated_to>>

\* /run is empty after a restart of the machine.
SpoolLost ==
    /\ spool # <<>> /\ spool' = <<>>
    /\ UNCHANGED <<now, at, stored, finding, migrated_to>>

TelemetryNext ==
    \/ ImportRootSpool \/ ReconcileFindings \/ ResolveFinding \/ Tick \/ SpoolLost
    \/ \E e \in Ids : SpoolEvent(e)

TelemetrySpec == TelemetryInit /\ [][TelemetryNext]_telemetryVars

-----------------------------------------------------------------------------

(* "Replay cannot reopen a resolved finding": the spool is imported over and *)
(* over and evicted events come back with it, but a finding that was         *)
(* resolved is reopened only by an event that happened after that            *)
(* (_record_value, reconcile_findings).                                      *)
ResolvedStaysResolved ==
    [][finding.state = "RESOLVED" /\ finding'.state # "RESOLVED" =>
        \E e \in ToSet(spool) : at[e] > finding.resolved_at]_telemetryVars

(* Nothing is missed: once the migration is complete, every stored event     *)
(* that has not expired is in the finding, or was resolved with it, in       *)
(* whatever order events arrived, were evicted and came back                 *)
(* (reconcile_findings, _record_value).                                      *)
FindingsFollowEvidence ==
    migrated_to.complete => \A e \in stored : Unexpired(e) => at[e] <= Max({finding.last_seen, finding.resolved_at})
=============================================================================
