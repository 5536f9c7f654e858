-------------------------- MODULE SessionWorkflows --------------------------
(***************************************************************************)
(* The session's side of Application Security (application_workflows.py,    *)
(* safe_open.py, the calls of user_bus.py): reviews and launches are leases *)
(* bound to the process that asked, on one root broker whose bus name the   *)
(* adapter pins, and denials are read from the broker (access_events.rs)    *)
(* into the session's history.  A broker has a life: its sequence numbers,  *)
(* its reviews and its launches end with it.  A call compares the owner of  *)
(* the name with the pinned one before and after.  Policy operations are    *)
(* PolicyWorkflow; here a review is applied, or its result read, or not.    *)
(***************************************************************************)
EXTENDS Naturals, Sequences, FiniteSets, FiniteSetsExt, SequencesExt

CONSTANTS
    Actors,         \* processes of the session
    MaxLife,        \* bound on the broker's lives
    MaxReference,   \* bound on the reviews and launches of all lives
    MaxDenial,      \* bound on the denials
    RETAIN,         \* events the broker keeps, 256
    LIMIT           \* events a read returns, 100

ASSUME SessionConstants ==
    {MaxLife, MaxReference, MaxDenial} \subseteq Nat /\ {RETAIN, LIMIT} \subseteq Nat \ {0}

VARIABLES
    root,       \* the broker
    denials,    \* how many denials the audit log has
    session,    \* the adapter: pinned owner, leases, cursor, counts
    answer,     \* the broker's answer that reconcile_access_events works on
    kept,       \* the session's history, what a truncated read skipped, what
                \* the store refused
    opening     \* a document that is being opened

sessionVars == <<root, denials, session, answer, kept, opening>>

Lives == 1 .. MaxLife
References == 1 .. MaxReference
LeaseKinds == {"change", "launch"}

\* owners and launches: who reviewed what with which broker; a change can be
\* applied in its first period and its result read in the second.
Leases == [ref : References, kind : LeaseKinds, actor : Actors, life : Lives, age : 0 .. 1]

SessionTypeOK ==
    /\ root.life \in 0 .. MaxLife /\ root.last \in 0 .. MaxLife /\ root.next \in 1 .. MaxReference + 1
    /\ root.emitted \in Seq(1 .. MaxDenial) /\ root.collected \in 0 .. MaxDenial /\ root.truncated \in BOOLEAN
    /\ denials \in 0 .. MaxDenial
    /\ session.pinned \in 0 .. MaxLife /\ session.leases \subseteq Leases
    /\ {session.cursor, session.foreign} \subseteq 0 .. MaxDenial /\ session.blocks \in 0 .. MaxDenial
    /\ answer.life \in 0 .. MaxLife /\ answer.events \cup answer.skipped \subseteq 1 .. MaxDenial
    /\ answer.cursor \in 0 .. MaxDenial
    /\ kept.denials \cup kept.skipped \cup kept.refused \subseteq 1 .. MaxDenial
    /\ kept.outcomes \subseteq References
    /\ opening \in [phase : {"none", "selected", "resolved", "prepared"}, actor : Actors, changed : BOOLEAN,
                     ref : 1 .. MaxReference]

\* foreign is history: how far the cursor was moved by an answer of a broker
\* that was forgotten meanwhile.
SessionStart == [pinned |-> 0, leases |-> {}, cursor |-> 0, foreign |-> 0, blocks |-> 0]

NotReading == [life |-> 0, events |-> {}, skipped |-> {}, cursor |-> 0]

NotOpening == [phase |-> "none", actor |-> CHOOSE a \in Actors : TRUE, changed |-> FALSE, ref |-> 1]

SessionInit ==
    /\ root = [life |-> 1, last |-> 1, next |-> 1, emitted |-> <<>>, collected |-> 0, truncated |-> FALSE]
    /\ denials = 0
    /\ session = SessionStart
    /\ answer = NotReading
    /\ kept = [denials |-> {}, skipped |-> {}, refused |-> {}, outcomes |-> {}]
    /\ opening = NotOpening

-----------------------------------------------------------------------------
(* The root broker.                                                          *)

\* AccessEvents.open: a new broker starts at the end of the audit log.
Reborn == [root EXCEPT !.life = root.last + 1, !.last = @ + 1, !.emitted = <<>>, !.collected = denials,
                       !.truncated = FALSE]

RootDies ==
    /\ root.life # 0
    /\ root' = [root EXCEPT !.life = 0]
    /\ UNCHANGED <<denials, session, answer, kept, opening>>

RootStarts ==
    /\ root.life = 0 /\ root.last < MaxLife
    /\ root' = Reborn
    /\ UNCHANGED <<denials, session, answer, kept, opening>>

Deny ==
    /\ denials < MaxDenial
    /\ denials' = denials + 1
    /\ UNCHANGED <<root, session, answer, kept, opening>>

\* collect, when the log was rotated: what was not read is gone.
AuditRotates ==
    /\ root.life # 0 /\ root.collected < denials
    /\ root' = [root EXCEPT !.collected = denials, !.truncated = TRUE]
    /\ UNCHANGED <<denials, session, answer, kept, opening>>

\* collect, ingest: every denial gets the next sequence number.
CollectedEvents == [root EXCEPT !.emitted = @ \o [i \in 1 .. denials - root.collected |-> root.collected + i],
                                !.collected = denials]

\* read: the retained events after the cursor, the next cursor, truncated.
EventReply(r, cursor) ==
    LET last == Len(r.emitted)
        front == Max({1, last - RETAIN + 1})
        first == Max({cursor + 1, front})
        end == Min({last, first + LIMIT - 1})
    IN [from |-> first, to |-> end, cursor |-> IF first <= end THEN end ELSE Min({last, cursor}),
        truncated |-> r.truncated \/ cursor > last \/ (last > 0 /\ cursor + 1 < front)]

-----------------------------------------------------------------------------
(* A call of the adapter.                                                    *)

\* Fault: after the broker changed the cursor of the old one stays.
KeepsCursor == [session EXCEPT !.pinned = 0, !.leases = {}, !.blocks = 0, !.foreign = 0]

\* _call on BROKER_CHANGED, reset_owner
Forgotten == [session EXCEPT !.pinned = 0, !.leases = {}, !.cursor = 0, !.foreign = 0, !.blocks = 0]

\* WorkflowTransport.call: the pinned owner, or the first one there is.
Reachable == root.life # 0 /\ session.pinned \in {0, root.life}

\* self.lock: reconcile_access_events has it from its call to its last write.
\* The administration calls do without, so that they find the broker changed,
\* or pin it, also meanwhile.
Locked == answer.life # 0

\* The name has another owner: nothing was called.
FindChanged ==
    /\ root.life # 0 /\ session.pinned \notin {0, root.life}
    /\ session' = Forgotten
    /\ UNCHANGED <<root, denials, answer, kept, opening>>

\* The broker took the call and was replaced before the answer was accepted.
ChangeDuringCall ==
    /\ Reachable /\ root.last < MaxLife
    /\ root' = Reborn
    /\ session' = Forgotten
    /\ UNCHANGED <<denials, answer, kept, opening>>

\* administration_state, open_administration
AdministrationCall ==
    /\ Reachable
    /\ session' = [session EXCEPT !.pinned = root.life]
    /\ UNCHANGED <<root, denials, answer, kept, opening>>

\* The broker's answer becomes a lease of the process that asked.
Leased(kind, actor) ==
    /\ ~Locked /\ Reachable /\ root.next <= MaxReference
    /\ root' = [root EXCEPT !.next = @ + 1]
    /\ session' = [session EXCEPT !.pinned = root.life, !.leases = @ \cup
                     {[ref |-> root.next, kind |-> kind, actor |-> actor, life |-> root.life, age |-> 0]}]
    /\ UNCHANGED <<denials, answer>>

\* preview
PreviewChange(actor) == Leased("change", actor) /\ UNCHANGED <<kept, opening>>

\* prepare_launch
PrepareLaunch(actor) == Leased("launch", actor) /\ UNCHANGED <<kept, opening>>

\* The answer is refused (decode, validate_preview, validate_operation) or the
\* broker does not answer in time: its review has no lease here.
RefuseAnswer ==
    /\ ~Locked /\ Reachable
    /\ session' = [session EXCEPT !.pinned = root.life]
    /\ root' \in {root, [root EXCEPT !.next = Min({@ + 1, MaxReference + 1})]}
    /\ UNCHANGED <<denials, answer, kept, opening>>

\* The lease of a reference, for the process that has it.
LeaseOf(kind, actor, ref) ==
    {lease \in session.leases : lease.kind = kind /\ lease.actor = actor /\ lease.ref = ref}

\* operation: the call, and the history of an outcome that is final, unless
\* the store fails; the lease stays, so that the outcome can be read again.
Operate(ref) ==
    /\ ~Locked /\ Reachable
    /\ session' = [session EXCEPT !.pinned = root.life]
    /\ kept' \in {kept, [kept EXCEPT !.outcomes = @ \cup {ref}]}
    /\ UNCHANGED <<root, denials, answer, opening>>

\* operation, ApplyPolicyChange: only while the review lasts.
ApplyPolicyChange(actor, ref) ==
    (\E lease \in LeaseOf("change", actor, ref) : lease.age = 0) /\ Operate(ref)

\* operation, GetOperation and CancelOperation
ReadOrCancel(actor, ref) == LeaseOf("change", actor, ref) # {} /\ Operate(ref)

\* start_launch: the lease goes before the call.
Started(actor, ref) ==
    /\ ~Locked /\ Reachable /\ LeaseOf("launch", actor, ref) # {}
    /\ session' = [session EXCEPT !.pinned = root.life, !.leases = @ \ LeaseOf("launch", actor, ref)]
    /\ UNCHANGED <<root, denials, answer, kept>>

StartLaunch(actor, ref) == Started(actor, ref) /\ UNCHANGED opening

-----------------------------------------------------------------------------
(* Safe Open of one document.                                                *)

\* SelectedFile: a regular file of a permitted place, held by its descriptor.
SelectDocument(actor) ==
    /\ opening.phase = "none"
    /\ opening' = [opening EXCEPT !.phase = "selected", !.actor = actor, !.changed = FALSE]
    /\ UNCHANGED <<root, denials, session, answer, kept>>

DocumentChanges ==
    /\ opening.phase = "selected" /\ ~opening.changed
    /\ opening' = [opening EXCEPT !.changed = TRUE]
    /\ UNCHANGED <<root, denials, session, answer, kept>>

\* resolve_application, revalidate: without a handler, or when the file is no
\* longer what was selected, nothing is opened.
ResolveHandler ==
    /\ opening.phase = "selected"
    /\ opening' \in {NotOpening} \cup IF opening.changed THEN {} ELSE {[opening EXCEPT !.phase = "resolved"]}
    /\ UNCHANGED <<root, denials, session, answer, kept>>

\* launch: prepare_launch for the descriptor, then start_launch.
PrepareDocument ==
    /\ opening.phase = "resolved" /\ Leased("launch", opening.actor)
    /\ opening' = [opening EXCEPT !.phase = "prepared", !.ref = root.next]
    /\ UNCHANGED kept

StartDocument ==
    /\ opening.phase = "prepared" /\ Started(opening.actor, opening.ref)
    /\ opening' = NotOpening

\* The broker refuses, has changed, or the lease is over: no fallback.
DocumentRefused ==
    /\ opening.phase \in {"resolved", "prepared"}
    /\ opening' = NotOpening
    /\ UNCHANGED <<root, denials, session, answer, kept>>

-----------------------------------------------------------------------------

\* The clock: a launch is not started, a change not applied after its time; a
\* change's result can be read for a while.
LeaseAges(lease) ==
    /\ lease \in session.leases
    /\ session' = [session EXCEPT !.leases = (@ \ {lease}) \cup
                     IF lease.kind = "change" /\ lease.age = 0 THEN {[lease EXCEPT !.age = 1]} ELSE {}]
    /\ UNCHANGED <<root, denials, answer, kept, opening>>

\* reconcile_access_events: the call and its answer.
ReadSecurityEvents ==
    /\ ~Locked /\ Reachable
    /\ LET r == CollectedEvents
           reply == EventReply(r, session.cursor)
       IN /\ root' = r
          /\ answer' = [life |-> root.life, cursor |-> reply.cursor,
                        events |-> {r.emitted[s] : s \in reply.from .. reply.to},
                        skipped |-> IF reply.truncated
                                      THEN {r.emitted[s] : s \in session.cursor + 1 .. Min({reply.from - 1, Len(r.emitted)})}
                                      ELSE {}]
    /\ session' = [session EXCEPT !.pinned = root.life]
    /\ UNCHANGED <<denials, kept, opening>>

\* Every event is recorded and counted, or refused by a store that fails
\* (record_event returns False), and the cursor moves.
ReconcileAccessEvents ==
    /\ Locked
    /\ \E stored \in SUBSET answer.events :
         /\ kept' = [kept EXCEPT !.denials = @ \cup stored, !.skipped = @ \cup answer.skipped,
                                 !.refused = @ \cup (answer.events \ stored)]
         /\ session' = [session EXCEPT
              !.blocks = @ + Cardinality(stored \ kept.denials), !.cursor = answer.cursor,
              !.foreign = IF session.pinned = answer.life THEN Min({@, answer.cursor}) ELSE answer.cursor]
    /\ answer' = NotReading
    /\ UNCHANGED <<root, denials, opening>>

\* The store cannot be opened, or an event not be made, at one of the events:
\* the cursor stays.
ReconcileStops ==
    /\ Locked
    /\ \E stored \in SUBSET answer.events :
         /\ kept' = [kept EXCEPT !.denials = @ \cup stored]
         /\ session' = [session EXCEPT !.blocks = @ + Cardinality(stored \ kept.denials)]
    /\ answer' = NotReading
    /\ UNCHANGED <<root, denials, opening>>

\* recent_access_blocks: five minutes later.
BlocksExpire ==
    /\ session.blocks > 0
    /\ session' = [session EXCEPT !.blocks = 0]
    /\ UNCHANGED <<root, denials, answer, kept, opening>>

SessionRestarts ==
    /\ session # SessionStart \/ Locked
    /\ session' = SessionStart /\ answer' = NotReading /\ opening' = NotOpening
    /\ UNCHANGED <<root, denials, kept>>

SessionNext ==
    \/ RootDies \/ RootStarts \/ Deny \/ AuditRotates
    \/ FindChanged \/ ChangeDuringCall \/ AdministrationCall \/ RefuseAnswer
    \/ \E actor \in Actors : PreviewChange(actor) \/ PrepareLaunch(actor) \/ SelectDocument(actor)
    \/ \E actor \in Actors, ref \in References :
          ApplyPolicyChange(actor, ref) \/ ReadOrCancel(actor, ref) \/ StartLaunch(actor, ref)
    \/ DocumentChanges \/ ResolveHandler \/ PrepareDocument \/ StartDocument \/ DocumentRefused
    \/ \E lease \in session.leases : LeaseAges(lease)
    \/ ReadSecurityEvents \/ ReconcileAccessEvents \/ ReconcileStops \/ BlocksExpire \/ SessionRestarts

SessionSpec == SessionInit /\ [][SessionNext]_sessionVars

-----------------------------------------------------------------------------

(* Every denial that the cursor has passed is in the session's history, or   *)
(* was passed over in a read the broker called truncated, or was refused by  *)
(* the store (record_event): across restarts of either side, a reconcile     *)
(* that stops between two events, a full buffer and a rotated log            *)
(* (reconcile_access_events, _call; AccessEvents.read).  One thing more      *)
(* loses denials: an answer that moves the cursor after an administration    *)
(* call, which does not take the lock, has forgotten the broker it came      *)
(* from; the new broker's events up to there (foreign) are passed over.      *)
DenialsAreKept ==
    (root.life # 0 /\ session.pinned = root.life) =>
        \A s \in session.foreign + 1 .. Min({session.cursor, Len(root.emitted)}) :
            root.emitted[s] \in kept.denials \cup kept.skipped \cup kept.refused

(* Said of the code by STATUS.md: bounded root denials enter the existing    *)
(* history (reconcile_access_events, record_event).                          *)
DenialsEnterHistory ==
    (root.life # 0 /\ session.pinned = root.life) =>
        \A s \in 1 .. Min({session.cursor, Len(root.emitted)}) : root.emitted[s] \in kept.denials \cup kept.skipped

(* "Never replay a mutation or carry leases across root owners": a review or *)
(* a launch the adapter would pass on was made by the broker it has pinned.  *)
LeasesAreOfTheirBroker == \A lease \in session.leases : lease.life = session.pinned
=============================================================================
