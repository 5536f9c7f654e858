---------------------------- MODULE LocalActivity ----------------------------
(***************************************************************************)
(* The activity list of Security Center (local_activity.py): presentation   *)
(* events in the session's event store.  An earlier release kept them in a  *)
(* file, which is imported once and never deleted.  Items are numbered from *)
(* old to new, the ones of the file first.  Each transaction is a step, and *)
(* the process may stop between two of them.                                *)
(***************************************************************************)
EXTENDS Naturals, FiniteSets, FiniteSetsExt

CONSTANTS
    Legacy,         \* how many items the file has
    MaxItem,        \* bound on the items ever recorded
    MAX_ITEMS       \* 64 in the code

ASSUME LocalConstants == {Legacy, MaxItem} \subseteq Nat /\ MAX_ITEMS \in Nat \ {0}

VARIABLE local      \* the items, the next number, the marker, the items cleared

LocalTypeOK ==
    local \in [items : SUBSET (1 .. MaxItem), next : 1 .. MaxItem + 1, migrated : BOOLEAN, cleared : SUBSET (1 .. MaxItem)]

LocalInit == local = [items |-> {}, next |-> Legacy + 1, migrated |-> FALSE, cleared |-> {}]

-----------------------------------------------------------------------------

\* _trim: the newest MAX_ITEMS.
Trim(items) == {i \in items : Cardinality({j \in items : j > i}) < MAX_ITEMS}

\* Fault: the marker is not part of the transaction that imports the file.
MigratedWithoutMarker == IF local.migrated THEN local ELSE [local EXCEPT !.items = Trim(@ \cup 1 .. Legacy)]

\* migrate: the events and the marker in one transaction.
Migrated == IF local.migrated THEN local
            ELSE [local EXCEPT !.items = Trim(@ \cup 1 .. Legacy), !.migrated = TRUE]

\* reconcile_history imports the file.
MigrateLocal == local' = Migrated

\* prune: the oldest ones go first.
PruneLocal == local.items # {} /\ local' = [local EXCEPT !.items = @ \ {Min(@)}]

\* record: a transaction after the migration.
RecordLocal ==
    /\ local.next <= MaxItem
    /\ local' \in {Migrated, [Migrated EXCEPT !.items = Trim(@ \cup {local.next}), !.next = @ + 1]}

\* clear: the migration first, so that the file cannot come after it; the
\* deletion is a transaction of its own.
ClearLocal ==
    local' \in {Migrated, [Migrated EXCEPT !.items = {}, !.cleared = @ \cup Migrated.items]}

LocalNext == MigrateLocal \/ PruneLocal \/ RecordLocal \/ ClearLocal

LocalSpec == LocalInit /\ [][LocalNext]_local

-----------------------------------------------------------------------------

(* What the user cleared does not come back, though the file it was imported *)
(* from is still there and every call imports it if it has not been          *)
(* (clear, record, migrate).                                                 *)
ClearedStaysCleared == local.items \cap local.cleared = {}
=============================================================================
