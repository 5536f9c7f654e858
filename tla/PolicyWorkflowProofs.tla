------------------------ MODULE PolicyWorkflowProofs ------------------------
(***************************************************************************)
(* The policy broker for any operations, clients, owners and directories,  *)
(* any limits, deadlines and number of crashes: what a review stores, what *)
(* the kernel allows and what the table reports agree, whatever is         *)
(* cancelled, expires, exits, is updated or dies between the steps.        *)
(***************************************************************************)
EXTENDS PolicyWorkflow, FiniteSetTheorems, TLAPS

\* What a request or a review may name.
TargetsOf(kind) == IF kind \in {"Register", "ProposeGrant"} THEN Directories ELSE Ops

Reviewed(r) ==
    /\ r \in Review
    /\ r.target \in TargetsOf(r.kind)
    /\ r.kind = "ProposeGrant" => r.generation \in Generations

Requested(j) == j \in Job /\ j.target \in TargetsOf(j.kind)

\* The shape of the worker's record where it stands.
Short == {"begin", "authorize", "ack", "context", "withdraw", "resource", "journal",
          "label", "verify", "readback"}

Preparing(w) ==
    /\ w \in [pc : {"observe", "review"}, op : {NoOp}, job : Job, lease : Nat,
              generation : Generations \cup {NoGeneration}]
    /\ Requested(w.job)
    /\ w.job.kind = "ProposeGrant" /\ w.pc = "review" => w.generation \in Generations
    /\ w.job.kind # "Apply"

WorkerShape(w) ==
    \/ w \in [pc : {"idle"}, op : {NoOp}]
    \/ Preparing(w)
    \/ w \in [pc : Short, op : Ops]
    \/ w \in [pc : {"commit"}, op : Ops, ticket : Nat]
    \/ w \in [pc : {"fail"}, op : Ops, reason : Table!Failures]
    \/ w \in [pc : {"write"}, op : Ops, preserved : SUBSET Ops, types : SUBSET Ops]
    \/ w \in [pc : {"load", "access", "check"}, op : Ops, preserved : SUBSET Ops]

TableRows == entries \in [Ops -> Table!TrackedOperation \cup {Table!Absent}] /\ now \in Nat

StoreRows ==
    /\ revision \in Nat
    /\ resources \subseteq Store!ResourceIntent
    /\ grants \subseteq Store!GrantIntent
    /\ registry \in [Uids -> Generations \cup {NotInstalled}]

KernelRows ==
    /\ journal \in [Directories -> {"None", "PREPARED", "APPLIED", "VERIFIED", "FAILED"}]
    /\ labels \in [Directories -> {"original", "partial", "target"}]
    /\ denied \subseteq Directories /\ live \subseteq Directories
    /\ access \in [Uids -> SUBSET Ops] /\ contexts \in [Uids -> SUBSET Ops]
    /\ contextFile \in [Uids -> (SUBSET Ops) \cup {Torn}]

BrokerRows ==
    /\ installed \in [Uids -> Generations] /\ alive \subseteq Actors
    /\ review \in [Ops -> Review \cup {NoReview}]
    /\ \A o \in Ops : review[o] # NoReview => Reviewed(review[o])
    /\ pending \subseteq Ops
    /\ queue \in Seq(Job)
    /\ \A i \in 1 .. Len(queue) : Requested(queue[i])
    /\ WorkerShape(worker)
    /\ log \in Seq(Ops)
    /\ crashes \in 0 .. MaxCrashes

Rows == TableRows /\ StoreRows /\ KernelRows /\ BrokerRows

-----------------------------------------------------------------------------

ProviderSteps == {"context", "write", "load", "access", "withdraw", "resource", "journal",
                  "label", "verify", "check", "readback"}
ApplySteps == {"authorize", "commit", "ack", "fail"} \cup ProviderSteps

\* What the table, the held reviews and the log say of one another, and of the
\* operation the worker is applying.
LedgerInv ==
    /\ \A o \in pending : review[o] # NoReview /\ o \notin Stored
    /\ \A o \in Stored : /\ review[o] # NoReview
                         /\ entries[o].outcome \notin
                              {"Pending", "Cancelled", "Expired", "CancelRequested"}
    /\ \A o \in Ops : entries[o] # Table!Absent => review[o] # NoReview
    /\ NoOrphanRunning
    /\ worker.pc \in ApplySteps => review[worker.op] # NoReview
    /\ worker.pc \in {"authorize", "commit"} =>
         /\ entries[worker.op].outcome = "Running"
         /\ worker.op \notin Stored /\ worker.op \notin pending
    /\ worker.pc = "ack" => entries[worker.op].outcome = "Running" /\ worker.op \in Stored
    /\ worker.pc \in ProviderSteps =>
         entries[worker.op].outcome = "Verifying" /\ worker.op \in Stored
    /\ worker.pc = "fail" => entries[worker.op].outcome \in {"Running", "Verifying"}
    /\ crashes = 0 => \A o \in Stored : entries[o] # Table!Absent

LogInv ==
    /\ \A i, j \in 1 .. Len(log) : log[i] = log[j] => i = j
    /\ revision = 1 + Cardinality(Registered) + Len(log)
    /\ \A o \in Stored : review[o].rev + 1 <= revision
    /\ worker.pc \in {"observe", "review"} => worker.lease <= now + REVIEW_TIME

\* The provider's steps are those of the kind of change that is applied.
KindInv ==
    /\ worker.pc \in {"context", "write", "load", "access"} =>
         review[worker.op].kind = "ProposeGrant"
    /\ worker.pc = "withdraw" => review[worker.op].kind = "RevokeGrant"
    /\ worker.pc = "check" => review[worker.op].kind \in {"ProposeGrant", "RevokeGrant"}
    /\ worker.pc \in {"resource", "journal", "label", "verify"} =>
         review[worker.op].kind = "Register"

\* Every stored record is what its reviewed operation stored.
RecordInv ==
    /\ \A g \in grants : /\ g.ref \in Stored /\ review[g.ref].kind = "ProposeGrant"
                         /\ g.owner = Owner(g.ref)
    /\ \A o \in Stored : review[o].kind = "Register" =>
         \E r \in resources : r.ref = review[o].target /\ r.owner = Owner(o)
    /\ \A o \in Stored : review[o].kind = "RevokeGrant" =>
         review[o].target \in Stored /\ Owner(review[o].target) = Owner(o)

\* How far the labelling of the directory has come.
LabelInv ==
    /\ LabelsAreJournaled
    /\ worker.pc \in {"journal", "label", "verify"} => review[worker.op].target \in denied
    /\ worker.pc \in {"label", "verify"} =>
         journal[review[worker.op].target] # "None" /\ review[worker.op].target \notin live
    /\ worker.pc = "readback" /\ review[worker.op].kind = "Register" =>
         review[worker.op].target \in live

\* How far the loading of the grant, or its withdrawal, has come.
LoadInv ==
    /\ worker.pc \in {"write", "load", "access"} =>
         worker.preserved \subseteq access[Owner(worker.op)]
    /\ worker.pc = "write" => worker.op \in worker.types
    /\ worker.pc = "load" =>
         /\ contextFile[Owner(worker.op)] \subseteq Ops
         /\ worker.op \in contextFile[Owner(worker.op)]
    /\ worker.pc = "access" => worker.op \in contexts[Owner(worker.op)]
    /\ worker.pc = "readback" /\ review[worker.op].kind = "ProposeGrant" =>
         worker.op \in Desired /\ worker.op \in access[Owner(worker.op)]
    /\ worker.pc = "readback" /\ review[worker.op].kind = "RevokeGrant" =>
         review[worker.op].target \notin Desired \cup access[Owner(worker.op)]

\* A rule that outlives its grant has a stored revocation that is not Completed;
\* the table has forgotten it only if the broker died.
ResidualInv ==
    \A u \in Uids : \A g \in access[u] \ Desired :
      \E o \in Stored : /\ review[o].kind = "RevokeGrant" /\ review[o].target = g
                        /\ entries[o].outcome \in {"Running", "Verifying", "Failed", "Absent"}

WorkflowInv ==
    /\ Rows /\ LedgerInv /\ LogInv /\ KindInv /\ RecordInv
    /\ LabelInv /\ KernelWithinReviewed /\ LoadInv /\ ResidualInv

-----------------------------------------------------------------------------
(* The table's methods, as the broker calls them *)

\* The entry of o has a new outcome, and no other entry has changed.
Changed(o, outcome) ==
    /\ entries' \in [Ops -> Table!TrackedOperation \cup {Table!Absent}]
    /\ entries'[o] # Table!Absent /\ entries'[o].outcome = outcome
    /\ \A p \in Ops \ {o} : entries'[p] = entries[p]

\* A missing entry has the outcome Absent, and only a missing one.
LEMMA AbsentOutcome ==
    ASSUME NEW e \in Table!TrackedOperation \cup {Table!Absent}
    PROVE  /\ e = Table!Absent <=> e.outcome = "Absent"
           /\ e # Table!Absent => e \in Table!TrackedOperation
  BY DEF Table!TrackedOperation, Table!Absent, Table!Outcomes, Table!Terminal

\* begin: the operation runs.
LEMMA BeginChanges ==
    ASSUME TableRows, NEW o \in Ops, NEW a, NEW r, NEW g, Table!Begin(o, a, r, g)
    PROVE  Changed(o, "Running") /\ entries[o].outcome = "Pending"
  <1>1. entries[o] \in Table!TrackedOperation /\ entries[o].outcome = "Pending"
    BY AbsentOutcome DEF Table!Begin, Table!CanBegin, Table!Owned, TableRows
  <1>2. /\ [entries[o] EXCEPT !.outcome = "Running"] \in Table!TrackedOperation
        /\ [entries[o] EXCEPT !.outcome = "Running"].outcome = "Running"
    BY <1>1 DEF Table!TrackedOperation, Table!Outcomes, Table!Terminal
  <1>3. entries' = [entries EXCEPT ![o] = [entries[o] EXCEPT !.outcome = "Running"]]
    BY <1>1 DEF Table!Begin, TableRows
  <1> QED BY <1>1, <1>2, <1>3, AbsentOutcome DEF Changed, TableRows

\* cancel, of a review that has not started.
LEMMA CancelChanges ==
    ASSUME TableRows, NEW o \in Ops, NEW a, Table!Cancel(o, a), entries[o].outcome = "Pending"
    PROVE  Changed(o, "Cancelled")
  <1>1. entries[o] \in Table!TrackedOperation
    BY AbsentOutcome DEF Table!Cancel, Table!Owned, TableRows
  <1>2. /\ [entries[o] EXCEPT !.outcome = "Cancelled"] \in Table!TrackedOperation
        /\ [entries[o] EXCEPT !.outcome = "Cancelled"].outcome = "Cancelled"
    BY <1>1 DEF Table!TrackedOperation, Table!Outcomes, Table!Terminal
  <1>3. entries' = [entries EXCEPT ![o] = [entries[o] EXCEPT !.outcome = "Cancelled"]]
    BY <1>1 DEF Table!Cancel, TableRows
  <1> QED BY <1>1, <1>2, <1>3, AbsentOutcome DEF Changed, TableRows

\* failed: the error of apply is recorded.
LEMMA FailChanges ==
    ASSUME TableRows, NEW o \in Ops, NEW a, NEW reason \in Table!Failures, Table!Fail(o, a, reason)
    PROVE  Changed(o, "Failed")
  <1>1. entries[o] \in Table!TrackedOperation
    BY AbsentOutcome DEF Table!Fail, Table!Owned, TableRows
  <1> DEFINE e == [entries[o] EXCEPT !.outcome = "Failed", !.failure = reason]
  <1>2. e \in Table!TrackedOperation /\ e.outcome = "Failed"
    BY <1>1 DEF Table!TrackedOperation, Table!Outcomes, Table!Terminal, Table!Failures
  <1>3. entries' = [entries EXCEPT ![o] = e]
    BY <1>1 DEF Table!Fail, TableRows, Table!TrackedOperation
  <1> HIDE DEF e
  <1> QED BY <1>1, <1>2, <1>3, AbsentOutcome DEF Changed, TableRows

\* committed: the change is on record, in time or not.
LEMMA CommittedChanges ==
    ASSUME TableRows, NEW o \in Ops, NEW r \in Nat, Table!Committed(o, r)
    PROVE  \E outcome \in {"Verifying", "Failed"} : Changed(o, outcome)
  <1>1. entries[o] \in Table!TrackedOperation
    BY AbsentOutcome DEF Table!Committed, Table!Absent, TableRows
  <1>2. CASE now >= entries[o].deadline
    <2> DEFINE e == [entries[o] EXCEPT !.committed_revision = r, !.outcome = "Failed",
                                       !.failure = "DeadlineExceeded"]
    <2>1. e \in Table!TrackedOperation /\ e.outcome = "Failed"
      BY <1>1 DEF Table!TrackedOperation, Table!Outcomes, Table!Terminal, Table!Failures
    <2>2. entries' = [entries EXCEPT ![o] = e]
      BY <1>1, <1>2 DEF Table!Committed, TableRows, Table!TrackedOperation
    <2> HIDE DEF e
    <2> QED BY <2>1, <2>2, AbsentOutcome DEF Changed, TableRows
  <1>3. CASE ~(now >= entries[o].deadline)
    <2> DEFINE e == [entries[o] EXCEPT !.committed_revision = r, !.outcome = "Verifying"]
    <2>1. e \in Table!TrackedOperation /\ e.outcome = "Verifying"
      BY <1>1 DEF Table!TrackedOperation, Table!Outcomes, Table!Terminal
    <2>2. entries' = [entries EXCEPT ![o] = e]
      BY <1>1, <1>3 DEF Table!Committed, TableRows, Table!TrackedOperation
    <2> HIDE DEF e
    <2> QED BY <2>1, <2>2, AbsentOutcome DEF Changed, TableRows
  <1> QED BY <1>2, <1>3

\* verified: the operation has its result.
LEMMA VerifiedChanges ==
    ASSUME TableRows, NEW o \in Ops, NEW r, Table!Verified(o, r, TRUE)
    PROVE  \E outcome \in {"Completed", "Failed"} : Changed(o, outcome)
  <1>1. entries[o] \in Table!TrackedOperation
    BY AbsentOutcome DEF Table!Verified, Table!Absent, TableRows
  <1>2. CASE now < entries[o].deadline /\ entries[o].committed_revision = r
    <2> DEFINE e == [entries[o] EXCEPT !.outcome = "Completed", !.verified_readback = TRUE,
                                       !.failure = "None"]
    <2>1. e \in Table!TrackedOperation /\ e.outcome = "Completed"
      BY <1>1 DEF Table!TrackedOperation, Table!Outcomes, Table!Terminal, Table!Failures
    <2>2. entries' = [entries EXCEPT ![o] = e]
      BY <1>1, <1>2 DEF Table!Verified, TableRows, Table!TrackedOperation
    <2> HIDE DEF e
    <2> QED BY <2>1, <2>2, AbsentOutcome DEF Changed, TableRows
  <1>3. CASE ~(now < entries[o].deadline /\ entries[o].committed_revision = r)
    <2> DEFINE e == [entries[o] EXCEPT !.outcome = "Failed", !.verified_readback = FALSE,
                                       !.failure = "ReadbackFailed"]
    <2>1. e \in Table!TrackedOperation /\ e.outcome = "Failed"
      BY <1>1 DEF Table!TrackedOperation, Table!Outcomes, Table!Terminal, Table!Failures
    <2>2. entries' = [entries EXCEPT ![o] = e]
      BY <1>1, <1>3 DEF Table!Verified, TableRows, Table!TrackedOperation
    <2> HIDE DEF e
    <2> QED BY <2>1, <2>2, AbsentOutcome DEF Changed, TableRows
  <1> QED BY <1>2, <1>3

\* prepare_binding: a new review is Pending.
LEMMA InsertedChanges ==
    ASSUME TableRows, NEW o \in Ops, NEW a \in Actors, NEW r \in Nat, NEW t \in Nat,
           NEW g \in Generations \cup {NoGeneration},
           entries' = Table!Inserted(entries, o, a, r, g, t)
    PROVE  Changed(o, "Pending")
  <1> DEFINE e == [outcome |-> "Pending", owner |-> a, revision |-> r, generation |-> g,
                   deadline |-> now + t, committed_revision |-> 0, verified_readback |-> FALSE,
                   failure |-> "None", expiry_requested |-> FALSE]
  <1>0. now + t \in Nat
    BY DEF TableRows
  <1>1. e \in Table!TrackedOperation /\ e.outcome = "Pending"
    BY <1>0 DEF Table!TrackedOperation, Table!Outcomes, Table!Terminal, Table!Failures
  <1>2. entries' = [entries EXCEPT ![o] = e]
    BY DEF Table!Inserted, Table!None
  <1> HIDE DEF e
  <1> QED BY <1>1, <1>2, AbsentOutcome DEF Changed, TableRows

\* expire, when nothing is started: only reviews that wait are changed.
LEMMA SweepChanges ==
    ASSUME TableRows, entries' = Table!Swept,
           \A o \in Ops : entries[o].outcome \notin {"Running", "Verifying", "CancelRequested"}
    PROVE  /\ entries' \in [Ops -> Table!TrackedOperation \cup {Table!Absent}]
           /\ \A o \in Ops : \/ entries'[o] = entries[o]
                             \/ /\ entries[o].outcome = "Pending"
                                /\ entries'[o] # Table!Absent
                                /\ entries'[o].outcome = "Expired"
  <1>1. ASSUME NEW o \in Ops
        PROVE  \/ Table!Swept[o] = entries[o]
               \/ /\ entries[o].outcome = "Pending"
                  /\ Table!Swept[o] \in Table!TrackedOperation
                  /\ Table!Swept[o].outcome = "Expired"
    <2>1. CASE entries[o] # Table!Absent /\ now >= entries[o].deadline
      <3>1. entries[o] \in Table!TrackedOperation
        BY <2>1, AbsentOutcome DEF TableRows
      <3>2. Table!Swept[o] = Table!ExpiredEntry(entries[o])
        BY <2>1 DEF Table!Swept
      <3>3. CASE entries[o].outcome = "Pending"
        BY <3>1, <3>2, <3>3, ZenonT(40) DEF Table!ExpiredEntry, Table!TrackedOperation, Table!Outcomes,
             Table!Terminal, Table!Failures
      <3>4. CASE entries[o].outcome # "Pending"
        BY <3>2, <3>4 DEF Table!ExpiredEntry
      <3> QED BY <3>3, <3>4
    <2>2. CASE ~(entries[o] # Table!Absent /\ now >= entries[o].deadline)
      BY <2>2 DEF Table!Swept
    <2> QED BY <2>1, <2>2
  <1>2. entries' = [o \in Ops |-> Table!Swept[o]]
    BY DEF Table!Swept
  <1> QED BY <1>1, <1>2, AbsentOutcome DEF TableRows

-----------------------------------------------------------------------------
(* The steps, seen from the variables they change *)

\* Only a commit changes the stored policy and its log, only a new review the
\* reviews, and the table is changed by its callers.
LEMMA Frames ==
    ASSUME [WorkflowNext]_vars
    PROVE  /\ WorkerCommit \/ UNCHANGED <<revision, resources, grants, log>>
           /\ WorkerCommit \/ WorkerObserve \/ UNCHANGED registry
           /\ (\E o \in Ops : WorkerReview(o)) \/ UNCHANGED review
           /\ \/ UNCHANGED entries
              \/ \E a \in Actors, o \in Ops : RequestCancel(a, o)
              \/ WorkerTake \/ (\E o \in Ops : WorkerReview(o)) \/ WorkerBegin
              \/ WorkerAcknowledge \/ WorkerFail \/ WorkerVerified \/ Crash
           /\ Tick \/ UNCHANGED now
           /\ Crash \/ UNCHANGED crashes
  <1>1. CASE Dispatcher
    BY <1>1 DEF Dispatcher, RequestPreview, RequestApply, RequestCancel, policyVars
  <1>2. CASE Worker
    BY <1>2 DEF Worker, WorkerTake, WorkerObserve, WorkerReview, WorkerRefuse, WorkerBegin,
         WorkerAuthorize, WorkerCommitRefused, WorkerAcknowledge, WorkerFail,
         WorkerVerified, WorkerProviderFails, WorkerContext, WorkerWrite, WorkerLoadContexts,
         WorkerLoadAccess, WorkerWithdraw, WorkerCheck, WorkerDeny, WorkerJournal, WorkerLabel,
         WorkerReceipt, WorkerLabelFails, policyVars, WorkerCommit
  <1>3. CASE Environment
    BY <1>3 DEF Environment, Tick, ClientExit, UpdateCode, Crash, policyVars
  <1>4. CASE UNCHANGED vars
    BY <1>4 DEF vars, policyVars
  <1> QED BY <1>1, <1>2, <1>3, <1>4 DEF WorkflowNext

\* The labels and the kernel are changed by the provider's steps and a crash.
LEMMA KernelFrames ==
    ASSUME [WorkflowNext]_vars
    PROVE  /\ WorkerDeny \/ UNCHANGED denied
           /\ WorkerLoadAccess \/ WorkerWithdraw \/ UNCHANGED access
           /\ WorkerLoadContexts \/ UNCHANGED contexts
           /\ WorkerContext \/ WorkerWrite \/ Crash \/ UNCHANGED contextFile
           /\ WorkerJournal \/ WorkerLabel \/ WorkerReceipt \/ WorkerLabelFails \/ UNCHANGED journal
           /\ WorkerLabel \/ UNCHANGED labels
           /\ WorkerReceipt \/ Crash \/ UNCHANGED live
  <1>1. CASE Dispatcher
    BY <1>1 DEF Dispatcher, RequestPreview, RequestApply, RequestCancel, kernelVars, fileVars
  <1>2. CASE Worker
    BY <1>2 DEF Worker, WorkerTake, WorkerObserve, WorkerReview, WorkerRefuse, WorkerBegin,
         WorkerAuthorize, WorkerCommit, WorkerCommitRefused, WorkerAcknowledge, WorkerFail,
         WorkerVerified, WorkerProviderFails, WorkerContext, WorkerWrite, WorkerLoadContexts,
         WorkerLoadAccess, WorkerWithdraw, WorkerCheck, WorkerDeny, WorkerJournal, WorkerLabel,
         WorkerReceipt, WorkerLabelFails, kernelVars, fileVars
  <1>3. CASE Environment
    BY <1>3 DEF Environment, Tick, ClientExit, UpdateCode, Crash, kernelVars, fileVars
  <1>4. CASE UNCHANGED vars
    BY <1>4 DEF vars, kernelVars, fileVars
  <1> QED BY <1>1, <1>2, <1>3, <1>4 DEF WorkflowNext

\* Where the worker stands tells what its record holds.
LEMMA WorkerFields ==
    ASSUME BrokerRows
    PROVE  /\ worker.pc \in {"idle", "observe", "review", "begin"} \cup ApplySteps
           /\ worker.pc \in ApplySteps \cup {"begin"} => worker.op \in Ops
           /\ worker.pc \in {"idle", "observe", "review"} => worker.op = NoOp
           /\ worker.pc \in Short => worker = [pc |-> worker.pc, op |-> worker.op]
           /\ worker.pc \in {"observe", "review"} => Preparing(worker)
           /\ worker.pc = "fail" => worker.reason \in Table!Failures
           /\ worker.pc \in {"write", "load", "access", "check"} => worker.preserved \subseteq Ops
           /\ worker.pc = "write" => worker.types \subseteq Ops
           /\ worker.pc \in {"load", "access", "check"} =>
                worker = [pc |-> worker.pc, op |-> worker.op, preserved |-> worker.preserved]
           /\ worker.pc = "commit" => worker.ticket \in Nat
  BY DEF BrokerRows, WorkerShape, Preparing, Short, ApplySteps, ProviderSteps

\* What the worker applies is a review of an owner.
LEMMA CurrentReview ==
    ASSUME BrokerRows, LedgerInv, worker.pc \in ApplySteps
    PROVE  worker.op \in Ops /\ Reviewed(review[worker.op]) /\ Owner(worker.op) \in Uids
  <1>1. worker.op \in Ops /\ review[worker.op] # NoReview
    BY WorkerFields DEF LedgerInv
  <1>2. Reviewed(review[worker.op])
    BY <1>1 DEF BrokerRows
  <1> QED BY <1>1, <1>2, WorkflowSets DEF Owner, Reviewed, Review

\* Goto changes the pc alone.
LEMMA GotoStep ==
    ASSUME BrokerRows, NEW p, Goto(p)
    PROVE  /\ worker.pc \in Short => worker' = [pc |-> p, op |-> worker.op]
           /\ worker.pc \in {"load", "access", "check"} =>
                worker' = [pc |-> p, op |-> worker.op, preserved |-> worker.preserved]
  <1>1. CASE worker.pc \in Short
    BY <1>1, WorkerFields DEF Goto, Short
  <1>2. CASE worker.pc \in {"load", "access", "check"}
    BY <1>2, WorkerFields DEF Goto, Short
  <1> QED BY <1>1, <1>2

\* commit_intent_change, by the kind of the reviewed change.
LEMMA CommitByKind ==
    ASSUME BrokerRows, LedgerInv, StoreRows, WorkerCommit
    PROVE  /\ revision = review[worker.op].rev /\ revision' = revision + 1
           /\ UNCHANGED registry
           /\ review[worker.op].kind = "Register" =>
                /\ resources' = resources \cup {ChangeOf(worker.op, review[worker.op]).record}
                /\ grants' = grants
           /\ review[worker.op].kind = "ProposeGrant" =>
                /\ grants' = grants \cup {ChangeOf(worker.op, review[worker.op]).record}
                /\ resources' = resources
           /\ review[worker.op].kind = "RevokeGrant" =>
                /\ Store!ValidRevocation(Owner(worker.op), review[worker.op].target)
                /\ grants' = {g \in grants : ~(g.ref = review[worker.op].target
                                                /\ g.owner = Owner(worker.op))}
                /\ resources' = resources
  <1> DEFINE r == review[worker.op]
             change == ChangeOf(worker.op, r)
  <1>1. Reviewed(r) /\ worker.op \in Ops
    BY CurrentReview DEF WorkerCommit, At, ApplySteps
  <1>2. Store!commit_intent_change(Owner(worker.op), r.rev, change)
    BY DEF WorkerCommit, Current
  <1>3. /\ r.kind = "Register" => change.kind = "Register"
        /\ r.kind = "ProposeGrant" => change.kind = "ProposeGrant"
        /\ r.kind = "RevokeGrant" => change.kind = "RevokeGrant" /\ change.ref = r.target
    BY DEF ChangeOf
  <1> HIDE DEF change
  <1>4. revision = r.rev /\ revision' = r.rev + 1 /\ UNCHANGED registry
        /\ Store!ValidChange(Owner(worker.op), r.rev, change)
    BY <1>2 DEF Store!commit_intent_change, Store!validate_change, Store!registryVars
  <1>5. CASE r.kind = "Register"
    BY <1>2, <1>3, <1>4, <1>5 DEF Store!commit_intent_change, change
  <1>6. CASE r.kind = "ProposeGrant"
    BY <1>2, <1>3, <1>4, <1>6 DEF Store!commit_intent_change, change
  <1>7. CASE r.kind = "RevokeGrant"
    BY <1>2, <1>3, <1>4, <1>7 DEF Store!commit_intent_change, Store!ValidChange
  <1> QED BY <1>4, <1>5, <1>6, <1>7

\* A revocation that may be stored names a stored grant.
LEMMA RevocableGrant ==
    ASSUME NEW uid, NEW o, Store!ValidRevocation(uid, o)
    PROVE  GrantOf(o) \in grants /\ GrantOf(o).ref = o
  BY DEF Store!ValidRevocation, GrantOf

\* The review the worker draws is one of its job, and its entry is Pending.
LEMMA ReviewInserts ==
    ASSUME TableRows, StoreRows, BrokerRows, LogInv, NEW o \in Ops, WorkerReview(o)
    PROVE  /\ Changed(o, "Pending")
           /\ Reviewed(NewReview(worker.job))
           /\ NewReview(worker.job).rev = revision
           /\ review[o] = NoReview /\ review' = [review EXCEPT ![o] = NewReview(worker.job)]
           /\ worker' = Idle /\ pending' = pending \cup {o}
           /\ \E g \in Generations \cup {NoGeneration}, t \in 1 .. REVIEW_TIME :
                Table!Prepare(o, worker.job.actor, revision, g, t)
  <1> DEFINE j == worker.job
             gen == IF j.kind = "RevokeGrant" THEN GrantOf(j.target).generation
                                              ELSE worker.generation
             t == IF j.kind = "Register" THEN worker.lease - now ELSE REVIEW_TIME
  <1>1. Preparing(worker)
    BY WorkerFields DEF WorkerReview, At
  <1>2. /\ j \in Job /\ j.target \in TargetsOf(j.kind) /\ j.kind \in Kinds
        /\ worker.lease \in Nat /\ now \in Nat /\ REVIEW_TIME \in Nat
        /\ now < worker.lease /\ worker.lease <= now + REVIEW_TIME /\ revision = j.rev
    BY <1>1, WorkflowLimits
       DEF Preparing, Requested, WorkerReview, At, LeaseGranted, LogInv, TableRows, Job
  <1>3. t \in 1 .. REVIEW_TIME
    <2>1. worker.lease - now \in 1 .. REVIEW_TIME /\ REVIEW_TIME \in 1 .. REVIEW_TIME
      BY <1>2
    <2> QED BY <2>1
  <1>4. gen \in Generations \cup {NoGeneration} /\ (j.kind = "ProposeGrant" => gen \in Generations)
    <2>1. CASE j.kind = "RevokeGrant"
      <3>1. GrantOf(j.target) \in grants
        BY <2>1, RevocableGrant DEF WorkerReview
      <3> QED BY <2>1, <3>1 DEF StoreRows, Store!GrantIntent
    <2>2. CASE j.kind # "RevokeGrant"
      BY <1>1, <2>2 DEF Preparing, WorkerReview, At
    <2> QED BY <2>1, <2>2
  <1> HIDE DEF gen, t
  <1>5. NewReview(j) = [kind |-> j.kind, actor |-> j.actor, target |-> j.target, rev |-> j.rev,
                        generation |-> gen, deadline |-> worker.lease,
                        told |-> now < j.deadline]
    BY DEF NewReview, gen
  <1>6. Reviewed(NewReview(j)) /\ NewReview(j).rev = revision
    <2>1. j.actor \in Actors /\ j.target \in Ops \cup Directories /\ j.rev \in Nat
      BY <1>2 DEF Job
    <2>2. (now < j.deadline) \in BOOLEAN
      OBVIOUS
    <2>3. NewReview(j) \in Review
      BY <1>2, <1>4, <1>5, <2>1, <2>2 DEF Review
    <2> QED BY <1>2, <1>4, <1>5, <2>3 DEF Reviewed
  <1>7. entries' = Table!Inserted(entries, o, j.actor, revision, gen, t) /\ Table!CanPrepare(o)
    BY <1>2, <1>5 DEF WorkerReview, t
  <1>8. Changed(o, "Pending")
    <2>1. j.actor \in Actors /\ revision \in Nat /\ t \in Nat
      BY <1>2, <1>3 DEF Job, StoreRows
    <2> QED BY <1>4, <1>7, <2>1, InsertedChanges
  <1>9. Table!Prepare(o, j.actor, revision, gen, t)
    BY <1>7 DEF Table!Prepare
  <1> QED BY <1>3, <1>4, <1>6, <1>8, <1>9 DEF WorkerReview, Stop

ProviderAction ==
    \/ WorkerProviderFails \/ WorkerContext \/ WorkerWrite \/ WorkerLoadContexts
    \/ WorkerLoadAccess \/ WorkerWithdraw \/ WorkerCheck
    \/ WorkerDeny \/ WorkerJournal \/ WorkerLabel \/ WorkerReceipt \/ WorkerLabelFails

\* The provider works on one operation, step by step, until it gives up.
LEMMA ProviderMoves ==
    ASSUME BrokerRows, ProviderAction
    PROVE  /\ worker.pc \in ProviderSteps /\ worker'.op = worker.op
           /\ \/ worker'.pc = "fail"
              \/ WorkerContext /\ worker.pc = "context" /\ worker'.pc = "write"
              \/ WorkerWrite /\ worker.pc = "write" /\ worker'.pc = "load"
                   /\ worker'.preserved = worker.preserved
              \/ WorkerLoadContexts /\ worker.pc = "load" /\ worker'.pc = "access"
                   /\ worker'.preserved = worker.preserved
              \/ WorkerLoadAccess /\ worker.pc = "access" /\ worker'.pc = "check"
                   /\ worker'.preserved = worker.preserved
              \/ WorkerWithdraw /\ worker.pc = "withdraw" /\ worker'.pc = "check"
              \/ WorkerCheck /\ worker.pc = "check" /\ worker'.pc = "readback"
              \/ WorkerDeny /\ worker.pc = "resource" /\ worker'.pc = "journal"
              \/ WorkerJournal /\ worker.pc = "journal" /\ worker'.pc = "label"
              \/ WorkerLabel /\ worker.pc = "label" /\ worker'.pc \in {"label", "verify"}
              \/ WorkerReceipt /\ worker.pc = "verify" /\ worker'.pc = "readback"
  <1> USE DEF At, Current, ProviderSteps
  <1>0. ASSUME NEW reason, Abandon(reason) PROVE worker'.pc = "fail" /\ worker'.op = worker.op
    BY <1>0 DEF Abandon
  <1>1. CASE WorkerProviderFails
    BY <1>0, <1>1 DEF WorkerProviderFails
  <1>2. CASE WorkerContext
    <2>1. worker.pc = "context" /\ \E kept, types :
            worker' = [pc |-> "write", op |-> worker.op, preserved |-> kept, types |-> types]
      BY <1>2, Zenon DEF WorkerContext
    <2> QED BY <1>2, <2>1
  <1>3. CASE WorkerWrite
    BY <1>0, <1>3 DEF WorkerWrite
  <1>4. CASE WorkerLoadContexts
    BY <1>0, <1>4, GotoStep DEF WorkerLoadContexts, Loaded
  <1>5. CASE WorkerLoadAccess
    BY <1>0, <1>5, GotoStep DEF WorkerLoadAccess, Loaded
  <1>6. CASE WorkerWithdraw
    <2>1. /\ worker.pc = "withdraw"
          /\ \/ \E kept : worker' = [pc |-> "check", op |-> worker.op, preserved |-> kept]
             \/ Abandon("ReadbackFailed")
      BY <1>6, Zenon DEF WorkerWithdraw
    <2> QED BY <1>0, <1>6, <2>1
  <1>7. CASE WorkerCheck
    BY <1>7 DEF WorkerCheck
  <1>8. CASE WorkerDeny
    BY <1>0, <1>8, GotoStep DEF WorkerDeny, Loaded, Short
  <1>9. CASE WorkerJournal
    BY <1>9, GotoStep DEF WorkerJournal, Short
  <1>10. CASE WorkerLabel
    BY <1>10, GotoStep DEF WorkerLabel, Short
  <1>11. CASE WorkerReceipt
    BY <1>0, <1>11, GotoStep DEF WorkerReceipt, Short
  <1>12. CASE WorkerLabelFails
    BY <1>0, <1>12 DEF WorkerLabelFails
  <1> QED BY <1>1, <1>2, <1>3, <1>4, <1>5, <1>6, <1>7, <1>8, <1>9, <1>10, <1>11, <1>12
          DEF ProviderAction

-----------------------------------------------------------------------------
(* Every step leaves well-formed state *)

\* Nothing is started while the worker is between jobs.
LEMMA IdleIsQuiet ==
    ASSUME BrokerRows, LedgerInv, worker.pc \in {"idle", "observe", "review", "begin"}
    PROVE  \A o \in Ops : entries[o].outcome \notin {"Running", "Verifying", "CancelRequested"}
  BY WorkerFields, WorkflowSets DEF LedgerInv, NoOrphanRunning

\* The table, whichever of its methods was called.
LEMMA TableRowsInductive ==
    ASSUME TableRows, StoreRows, BrokerRows, LedgerInv, LogInv, [WorkflowNext]_vars
    PROVE  TableRows'
  <1>1. now' \in Nat
    <2>1. CASE Tick
      BY <2>1 DEF Tick, Table!Tick, TableRows
    <2>2. CASE UNCHANGED now
      BY <2>2 DEF TableRows
    <2> QED BY <2>1, <2>2, Frames
  <1> SUFFICES entries' \in [Ops -> Table!TrackedOperation \cup {Table!Absent}]
    BY <1>1 DEF TableRows
  <1>2. CASE UNCHANGED entries
    BY <1>2 DEF TableRows
  <1>3. ASSUME NEW a \in Actors, NEW o \in Ops, RequestCancel(a, o)
        PROVE  entries' \in [Ops -> Table!TrackedOperation \cup {Table!Absent}]
    BY <1>3, CancelChanges DEF RequestCancel, Changed
  <1>4. CASE WorkerTake
    <2>1. CASE UNCHANGED entries
      BY <2>1 DEF TableRows
    <2>2. CASE entries' = Table!Swept
      BY <1>4, <2>2, IdleIsQuiet, SweepChanges DEF WorkerTake, At
    <2> QED BY <1>4, <2>1, <2>2 DEF WorkerTake
  <1>5. ASSUME NEW o \in Ops, WorkerReview(o)
        PROVE  entries' \in [Ops -> Table!TrackedOperation \cup {Table!Absent}]
    <2>1. Changed(o, "Pending")
      BY <1>5, ReviewInserts
    <2> QED BY <2>1 DEF Changed
  <1>6. CASE WorkerBegin
    <2>1. CASE UNCHANGED entries
      BY <2>1 DEF TableRows
    <2>2. CASE Table!Begin(Current, Actor, revision, review[Current].generation)
      <3>1. worker.op \in Ops
        BY <1>6, WorkerFields DEF WorkerBegin, At
      <3> QED BY <2>2, <3>1, BeginChanges DEF Current, Changed
    <2> QED BY <1>6, <2>1, <2>2 DEF WorkerBegin
  <1>7. CASE WorkerAcknowledge
    <2>1. worker.op \in Ops
      BY <1>7, WorkerFields DEF WorkerAcknowledge, At, ApplySteps
    <2> QED BY <1>7, <2>1, CommittedChanges DEF WorkerAcknowledge, Current, Changed, StoreRows
  <1>8. CASE WorkerFail
    <2>1. worker.op \in Ops /\ worker.reason \in Table!Failures
      BY <1>8, WorkerFields DEF WorkerFail, At, ApplySteps
    <2>2. Table!Fail(worker.op, Actor, worker.reason) \/ UNCHANGED entries
      BY <1>8 DEF WorkerFail, Current
    <2> QED BY <2>1, <2>2, FailChanges DEF Changed, TableRows
  <1>9. CASE WorkerVerified
    <2>1. worker.op \in Ops
      BY <1>9, WorkerFields DEF WorkerVerified, At, ApplySteps, ProviderSteps
    <2> QED BY <1>9, <2>1, VerifiedChanges DEF WorkerVerified, Current, Changed
  <1>10. CASE Crash
    BY <1>10 DEF Crash
  <1> QED BY <1>2, <1>3, <1>4, <1>5, <1>6, <1>7, <1>8, <1>9, <1>10, Frames

\* The stored policy and the registry.
LEMMA StoreRowsInductive ==
    ASSUME StoreRows, BrokerRows, LedgerInv, [WorkflowNext]_vars
    PROVE  StoreRows'
  <1>1. registry' \in [Uids -> Generations \cup {NotInstalled}]
    <2>1. CASE WorkerObserve
      <3>1. PICK u \in Uids : registry' = [registry EXCEPT ![u] = installed[u]]
        <4>1. Preparing(worker)
          BY <2>1, WorkerFields DEF WorkerObserve, At
        <4>2. ActorUid[worker.job.actor] \in Uids
          BY <4>1, WorkflowSets DEF Preparing, Job
        <4> QED BY <2>1, <4>2 DEF WorkerObserve
      <3> QED BY <3>1 DEF StoreRows, BrokerRows
    <2>2. CASE WorkerCommit
      BY <2>2, CommitByKind DEF StoreRows
    <2>3. CASE UNCHANGED registry
      BY <2>3 DEF StoreRows
    <2> QED BY <2>1, <2>2, <2>3, Frames
  <1>2. CASE WorkerCommit
    <2> DEFINE r == review[worker.op]
               record == ChangeOf(worker.op, r).record
    <2>0. worker.op \in Ops /\ Reviewed(r) /\ Owner(worker.op) \in Uids
      BY <1>2, CurrentReview DEF WorkerCommit, At, ApplySteps
    <2>1. r.rev + 1 \in Nat
      BY <2>0 DEF Reviewed, Review
    <2>2. r.kind = "Register" => record \in Store!ResourceIntent
      <3>1. SUFFICES ASSUME r.kind = "Register" PROVE record \in Store!ResourceIntent
        OBVIOUS
      <3>2. record = [ref |-> r.target, object |-> r.target, owner |-> Owner(worker.op),
                      custom |-> FALSE, policy_revision |-> r.rev + 1]
        BY <3>1 DEF ChangeOf, Owner
      <3>3. r.target \in Directories
        BY <2>0, <3>1 DEF Reviewed, TargetsOf
      <3> QED BY <2>0, <2>1, <3>2, <3>3 DEF Store!ResourceIntent
    <2>3. r.kind = "ProposeGrant" => record \in Store!GrantIntent
      <3>1. SUFFICES ASSUME r.kind = "ProposeGrant" PROVE record \in Store!GrantIntent
        OBVIOUS
      <3>2. record = [ref |-> worker.op, owner |-> Owner(worker.op),
                      installation |-> Owner(worker.op), generation |-> r.generation,
                      resources |-> {r.target}, policy_revision |-> r.rev + 1]
        BY <3>1 DEF ChangeOf, Owner
      <3>3. r.target \in Directories /\ r.generation \in Generations
        BY <2>0, <3>1 DEF Reviewed, TargetsOf
      <3> QED BY <2>0, <2>1, <3>2, <3>3 DEF Store!GrantIntent
    <2> HIDE DEF record
    <2>4. resources' \subseteq Store!ResourceIntent /\ grants' \subseteq Store!GrantIntent
      <3>1. r.kind \in {"Register", "ProposeGrant", "RevokeGrant"}
        BY <2>0 DEF Reviewed, Review, Kinds
      <3>2. CASE r.kind = "Register"
        BY <1>2, <2>2, <3>2, CommitByKind DEF StoreRows, record
      <3>3. CASE r.kind = "ProposeGrant"
        BY <1>2, <2>3, <3>3, CommitByKind DEF StoreRows, record
      <3>4. CASE r.kind = "RevokeGrant"
        BY <1>2, <3>4, CommitByKind DEF StoreRows
      <3> QED BY <3>1, <3>2, <3>3, <3>4
    <2>5. revision' \in Nat
      BY <1>2, CommitByKind DEF StoreRows
    <2> QED BY <1>1, <2>4, <2>5 DEF StoreRows
  <1>3. CASE UNCHANGED <<revision, resources, grants, log>>
    BY <1>1, <1>3 DEF StoreRows
  <1> QED BY <1>2, <1>3, Frames

\* The journal, the labels and the rules in the kernel.
LEMMA KernelRowsInductive ==
    ASSUME KernelRows, StoreRows, BrokerRows, LedgerInv, KindInv, LoadInv, [WorkflowNext]_vars
    PROVE  KernelRows'
  <1> DEFINE u == Owner(worker.op)
             d == review[worker.op].target
  <1>1. worker.pc \in ApplySteps => worker.op \in Ops /\ u \in Uids /\ Reviewed(review[worker.op])
    BY CurrentReview
  <1>2. worker.pc \in {"resource", "journal", "label", "verify"} => d \in Directories
    BY <1>1 DEF KindInv, Reviewed, TargetsOf, ApplySteps, ProviderSteps
  <1> HIDE DEF u, d
  <1>3. denied' \subseteq Directories
    <2>1. CASE WorkerDeny
      <3>1. \A r \in resources : r.ref \in Directories
        BY DEF StoreRows, Store!ResourceIntent
      <3> QED BY <2>1, <3>1 DEF WorkerDeny, KernelRows
    <2> QED BY <2>1, KernelFrames DEF KernelRows
  <1>4. access' \in [Uids -> SUBSET Ops]
    <2>1. CASE WorkerLoadAccess
      BY <2>1, <1>1, WorkerFields DEF WorkerLoadAccess, At, Current, KernelRows, ApplySteps,
           ProviderSteps, u
    <2>2. CASE WorkerWithdraw
      <3>1. PICK preserved \in SUBSET Preservable(NoOp) :
              access' = [access EXCEPT ![Owner(Current)] = preserved]
        BY <2>2 DEF WorkerWithdraw
      <3>2. preserved \subseteq Ops
        BY <1>1, <2>2, <3>1 DEF Preservable, WorkerWithdraw, At, KernelRows, Current, u,
             ApplySteps, ProviderSteps
      <3> QED BY <3>1, <3>2 DEF KernelRows
    <2> QED BY <2>1, <2>2, KernelFrames DEF KernelRows
  <1>5. contexts' \in [Uids -> SUBSET Ops]
    <2>1. CASE WorkerLoadContexts
      <3>1. contextFile[u] \subseteq Ops /\ contexts' = [contexts EXCEPT ![u] = contextFile[u]]
        BY <2>1 DEF WorkerLoadContexts, At, LoadInv, u, Current
      <3> QED BY <3>1 DEF KernelRows
    <2> QED BY <2>1, KernelFrames DEF KernelRows
  <1>6. contextFile' \in [Uids -> (SUBSET Ops) \cup {Torn}]
    <2>1. CASE WorkerContext
      BY <2>1 DEF WorkerContext, KernelRows
    <2>2. CASE WorkerWrite
      <3>1. worker.types \subseteq Ops
        BY <2>2, WorkerFields DEF WorkerWrite, At
      <3> QED BY <2>2, <3>1 DEF WorkerWrite, KernelRows
    <2>3. CASE Crash
      <3>1. \/ contextFile' = contextFile
            \/ \E left \in {{}, Torn} : contextFile' = [contextFile EXCEPT ![Owner(Current)] = left]
        BY <2>3, Zenon DEF Crash
      <3> QED BY <3>1 DEF KernelRows
    <2> QED BY <2>1, <2>2, <2>3, KernelFrames DEF KernelRows
  <1>7. labels' \in [Directories -> {"original", "partial", "target"}]
    <2>1. CASE WorkerLabel
      BY <2>1 DEF WorkerLabel, KernelRows
    <2> QED BY <2>1, KernelFrames DEF KernelRows
  <1>8. journal' \in [Directories -> {"None", "PREPARED", "APPLIED", "VERIFIED", "FAILED"}]
    <2>1. CASE WorkerJournal
      BY <2>1 DEF WorkerJournal, KernelRows
    <2>2. CASE WorkerLabel
      BY <2>2 DEF WorkerLabel, KernelRows
    <2>3. CASE WorkerReceipt
      BY <2>3 DEF WorkerReceipt, KernelRows
    <2>4. CASE WorkerLabelFails
      <3>1. d \in Directories
        BY <1>2, <2>4 DEF WorkerLabelFails
      <3> QED BY <2>4, <3>1 DEF WorkerLabelFails, KernelRows, Directory, Current, d
    <2> QED BY <2>1, <2>2, <2>3, <2>4, KernelFrames DEF KernelRows
  <1>9. live' \subseteq Directories
    <2>1. CASE WorkerReceipt
      BY <1>2, <2>1 DEF WorkerReceipt, At, KernelRows, Directory, Current, d
    <2>2. CASE Crash
      BY <2>2 DEF Crash
    <2> QED BY <2>1, <2>2, KernelFrames DEF KernelRows
  <1> QED BY <1>3, <1>4, <1>5, <1>6, <1>7, <1>8, <1>9 DEF KernelRows

\* The queue holds well-formed requests.
LEMMA QueueRowsInductive ==
    ASSUME TableRows, StoreRows, BrokerRows, LedgerInv, [WorkflowNext]_vars
    PROVE  queue' \in Seq(Job) /\ \A i \in 1 .. Len(queue') : Requested(queue'[i])
  <1> USE DEF BrokerRows
  <1>0. WAIT \in Nat /\ REVIEW_TIME \in Nat /\ now + WAIT \in Nat /\ now + REVIEW_TIME \in Nat
    BY WorkflowLimits, SMTT(30) DEF TableRows
  <1>1. ASSUME NEW j, Requested(j), Enqueue(j)
        PROVE  queue' \in Seq(Job) /\ \A i \in 1 .. Len(queue') : Requested(queue'[i])
    BY <1>1, SMTT(30) DEF Enqueue, Requested
  <1>2. ASSUME NEW a \in Actors, NEW kind \in Kinds, NEW t \in TargetsOf(kind),
               RequestPreview(a, kind, t)
        PROVE  queue' \in Seq(Job) /\ \A i \in 1 .. Len(queue') : Requested(queue'[i])
    <2> DEFINE j == [kind |-> kind, actor |-> a, target |-> t, rev |-> revision,
                     deadline |-> now + WAIT]
    <2>1. t \in Ops \cup Directories
      BY DEF TargetsOf
    <2>2. j \in Job /\ j.target \in TargetsOf(j.kind)
      BY <1>0, <2>1 DEF Job, StoreRows, Kinds
    <2>3. Enqueue(j)
      BY <1>2 DEF RequestPreview
    <2> HIDE DEF j
    <2> QED BY <1>1, <2>2, <2>3 DEF Requested
  <1>3. ASSUME NEW a \in Actors, NEW o \in Ops, RequestApply(a, o)
        PROVE  queue' \in Seq(Job) /\ \A i \in 1 .. Len(queue') : Requested(queue'[i])
    <2> DEFINE j == [kind |-> "Apply", actor |-> a, target |-> o, rev |-> review[o].rev,
                     deadline |-> now + REVIEW_TIME]
    <2>0. review[o].rev \in Nat
      <3>1. entries[o] # Table!Absent
        BY <1>3 DEF RequestApply, Known, Table!Owned
      <3> QED BY <3>1 DEF LedgerInv, Reviewed, Review
    <2>1. j \in Job /\ j.target \in TargetsOf(j.kind)
      BY <1>0, <2>0 DEF Job, TargetsOf
    <2>2. Enqueue(j)
      BY <1>3 DEF RequestApply
    <2> HIDE DEF j
    <2> QED BY <1>1, <2>1, <2>2 DEF Requested
  <1>4. CASE WorkerTake
    BY <1>4 DEF WorkerTake
  <1>5. CASE Crash
    BY <1>5 DEF Crash
  <1>6. CASE UNCHANGED queue
    BY <1>6
  <1>7. CASE Dispatcher
    <2>1. PICK a \in Actors :
            \/ \E d \in Directories :
                 RequestPreview(a, "Register", d) \/ RequestPreview(a, "ProposeGrant", d)
            \/ \E o \in Ops :
                 RequestPreview(a, "RevokeGrant", o) \/ RequestApply(a, o) \/ RequestCancel(a, o)
      BY <1>7, Zenon DEF Dispatcher
    <2>2. /\ "Register" \in Kinds /\ "ProposeGrant" \in Kinds /\ "RevokeGrant" \in Kinds
          /\ TargetsOf("Register") = Directories /\ TargetsOf("ProposeGrant") = Directories
          /\ TargetsOf("RevokeGrant") = Ops
      BY DEF Kinds, TargetsOf
    <2>3. ASSUME NEW o \in Ops, RequestCancel(a, o)
          PROVE  queue' \in Seq(Job) /\ \A i \in 1 .. Len(queue') : Requested(queue'[i])
      BY <1>6, <2>3 DEF RequestCancel
    <2> QED BY <1>2, <1>3, <2>1, <2>2, <2>3
  <1>8. CASE Worker
    <2>1. WorkerTake \/ UNCHANGED queue
      BY <1>8 DEF Worker, WorkerObserve, WorkerReview, WorkerRefuse, WorkerBegin,
         WorkerAuthorize, WorkerCommit, WorkerCommitRefused, WorkerAcknowledge, WorkerFail,
         WorkerVerified, WorkerProviderFails, WorkerContext, WorkerWrite, WorkerLoadContexts,
         WorkerLoadAccess, WorkerWithdraw, WorkerCheck, WorkerDeny, WorkerJournal, WorkerLabel,
         WorkerReceipt, WorkerLabelFails
    <2> QED BY <1>4, <1>6, <2>1
  <1>9. CASE Environment
    BY <1>5, <1>6, <1>9 DEF Environment, Tick, ClientExit, UpdateCode
  <1>10. CASE UNCHANGED vars
    BY <1>6, <1>10 DEF vars
  <1> QED BY <1>7, <1>8, <1>9, <1>10 DEF WorkflowNext

\* The worker's record, after each of its steps.
LEMMA WorkerShapeInductive ==
    ASSUME TableRows, BrokerRows, KernelRows, LedgerInv, [WorkflowNext]_vars
    PROVE  WorkerShape(worker')
  <1> USE DEF At, Current
  <1>1. WorkerShape(worker)
    BY DEF BrokerRows
  <1>2. ASSUME Stop PROVE WorkerShape(worker')
    BY <1>2 DEF Stop, Idle, WorkerShape
  <1>3. ASSUME NEW reason \in Table!Failures, Abandon(reason),
               worker.pc \in ApplySteps \cup {"begin"}
        PROVE  WorkerShape(worker')
    BY <1>3, WorkerFields DEF Abandon, WorkerShape
  <1>4. ASSUME NEW p \in Short, worker' = [pc |-> p, op |-> worker.op], worker.op \in Ops
        PROVE  WorkerShape(worker')
    BY <1>4 DEF WorkerShape
  <1>5. ASSUME NEW p \in {"load", "access", "check"}, NEW kept \in SUBSET Ops, worker.op \in Ops,
               worker' = [pc |-> p, op |-> worker.op, preserved |-> kept]
        PROVE  WorkerShape(worker')
    BY <1>5 DEF WorkerShape
  <1>6. "ReadbackFailed" \in Table!Failures /\ "AuthorizationRequired" \in Table!Failures
    BY DEF Table!Failures
  <1>7. worker.pc \in ApplySteps \cup {"begin"} => worker.op \in Ops
    BY WorkerFields
  <1>8. ASSUME NEW uid \in Uids, NEW kept \in SUBSET {o \in access[uid] : o \in Desired} PROVE kept \in SUBSET Ops
    BY DEF KernelRows
  <1>9. worker.pc \in ApplySteps => Owner(worker.op) \in Uids
    BY CurrentReview
  <1>10. CASE UNCHANGED worker
    BY <1>1, <1>10
  <1>11. CASE WorkerTake
    <2>1. SUFFICES ASSUME ~ UNCHANGED worker PROVE WorkerShape(worker')
      BY <1>10
    <2> DEFINE j == Head(queue)
    <2>2. queue # <<>> /\ Requested(j)
      <3>1. queue # <<>> /\ queue \in Seq(Job) /\ \A i \in 1 .. Len(queue) : Requested(queue[i])
        BY <1>11 DEF WorkerTake, BrokerRows
      <3> QED BY <3>1
    <2>3. worker' = IF j.kind = "Apply"
                      THEN [pc |-> "begin", op |-> j.target]
                      ELSE [pc |-> IF j.kind = "ProposeGrant" THEN "observe" ELSE "review",
                            op |-> NoOp, job |-> j,
                            lease |-> now + REVIEW_TIME, generation |-> NoGeneration]
      BY <1>11, <2>1 DEF WorkerTake
    <2> HIDE DEF j
    <2>4. CASE j.kind = "Apply"
      BY <2>2, <2>3, <2>4 DEF WorkerShape, Short, Requested, TargetsOf
    <2>5. CASE j.kind # "Apply"
      <3>1. now + REVIEW_TIME \in Nat
        BY WorkflowLimits DEF TableRows
      <3>2. Preparing(worker')
        BY <2>2, <2>3, <2>5, <3>1 DEF Preparing, Requested
      <3> QED BY <3>2 DEF WorkerShape
    <2> QED BY <2>4, <2>5
  <1>12. CASE WorkerObserve
    <2>1. Preparing(worker)
      BY <1>12, WorkerFields DEF WorkerObserve
    <2>2. ActorUid[worker.job.actor] \in Uids
      BY <2>1, WorkflowSets DEF Preparing, Job
    <2>3. installed[ActorUid[worker.job.actor]] \in Generations
      BY <2>2 DEF BrokerRows
    <2>4. worker' = [pc |-> "review", op |-> worker.op, job |-> worker.job, lease |-> worker.lease,
                     generation |-> installed[ActorUid[worker.job.actor]]]
      BY <1>12, <2>1 DEF WorkerObserve, Preparing
    <2>5. Preparing(worker')
      BY <2>1, <2>3, <2>4 DEF Preparing, Requested
    <2> QED BY <2>5 DEF WorkerShape
  <1>13. CASE WorkerBegin
    <2>1. worker.pc \in Short /\ worker.op \in Ops
      BY <1>7, <1>13 DEF WorkerBegin, Short
    <2>2. Goto("authorize") \/ Abandon("ReadbackFailed") \/ Stop
      BY <1>13 DEF WorkerBegin
    <2> QED BY <1>2, <1>3, <1>4, <1>6, <1>13, <2>1, <2>2, GotoStep DEF WorkerBegin, Short
  <1>14. CASE WorkerAuthorize
    <2>1. worker.pc = "authorize" /\ worker.op \in Ops
      BY <1>7, <1>14 DEF WorkerAuthorize, ApplySteps
    <2>2. CASE worker' = [pc |-> "commit", op |-> Current,
                          ticket |-> Least(now + TICKET_LEASE, review[Current].deadline)]
      <3>1. Least(now + TICKET_LEASE, review[Current].deadline) \in Nat
        BY <2>1, CurrentReview, WorkflowLimits
           DEF Least, TableRows, ApplySteps, Reviewed, Review
      <3> QED BY <2>1, <2>2, <3>1 DEF WorkerShape
    <2> QED BY <1>3, <1>6, <1>14, <2>1, <2>2 DEF WorkerAuthorize, ApplySteps
  <1>15. CASE WorkerCommit \/ WorkerCheck
    <2>1. worker.op \in Ops
      BY <1>7, <1>15 DEF WorkerCommit, WorkerCheck, ApplySteps, ProviderSteps
    <2> QED BY <1>4, <1>15, <2>1 DEF WorkerCommit, WorkerCheck, Short
  <1>16. CASE WorkerCommitRefused \/ WorkerProviderFails \/ WorkerLabelFails
    <2>1. worker.pc \in ApplySteps
      BY <1>16 DEF WorkerCommitRefused, WorkerProviderFails, WorkerLabelFails, ApplySteps,
           ProviderSteps
    <2> QED BY <1>3, <1>6, <1>16, <2>1 DEF WorkerCommitRefused, WorkerProviderFails, WorkerLabelFails
  <1>17. CASE WorkerAcknowledge
    <2>1. worker.op \in Ops
      BY <1>7, <1>17 DEF WorkerAcknowledge, ApplySteps
    <2>2. \/ worker' = Idle
          \/ \E p \in {"resource", "context", "withdraw"} : worker' = [pc |-> p, op |-> worker.op]
      BY <1>17 DEF WorkerAcknowledge
    <2> QED BY <1>2, <1>4, <2>1, <2>2 DEF Stop, Short
  <1>18. CASE (\E o \in Ops : WorkerReview(o)) \/ WorkerRefuse \/ WorkerFail \/ WorkerVerified
    BY <1>2, <1>18 DEF WorkerReview, WorkerRefuse, WorkerFail, WorkerVerified
  <1>19. CASE WorkerContext
    <2>1. worker.pc = "context" /\ worker.op \in Ops /\ Owner(worker.op) \in Uids
      BY <1>7, <1>9, <1>19 DEF WorkerContext, ApplySteps, ProviderSteps
    <2>2. PICK kept \in SUBSET Preservable(worker.op) :
            worker' = [pc |-> "write", op |-> worker.op, preserved |-> kept,
                       types |-> contextFile[Owner(worker.op)] \cup {worker.op}]
      BY <1>19 DEF WorkerContext
    <2>3. kept \in SUBSET Ops
      BY <1>8, <2>1, <2>2 DEF Preservable
    <2>4. contextFile[Owner(worker.op)] \cup {worker.op} \in SUBSET Ops
      BY <1>19, <2>1 DEF WorkerContext, KernelRows
    <2> QED BY <2>1, <2>2, <2>3, <2>4 DEF WorkerShape
  <1>20. CASE WorkerWrite
    <2>1. worker.pc = "write" /\ worker.op \in Ops /\ worker.preserved \in SUBSET Ops
      BY <1>7, <1>20, WorkerFields DEF WorkerWrite, ApplySteps, ProviderSteps
    <2> QED BY <1>3, <1>5, <1>6, <1>20, <2>1 DEF WorkerWrite, ApplySteps, ProviderSteps
  <1>21. CASE WorkerLoadContexts \/ WorkerLoadAccess
    <2>1. worker.pc \in {"load", "access"} /\ worker.op \in Ops /\ worker.preserved \in SUBSET Ops
      BY <1>7, <1>21, WorkerFields DEF WorkerLoadContexts, WorkerLoadAccess, ApplySteps, ProviderSteps
    <2>2. Goto("access") \/ Goto("check") \/ Abandon("ReadbackFailed")
      BY <1>21 DEF WorkerLoadContexts, WorkerLoadAccess, Loaded
    <2> QED BY <1>3, <1>5, <1>6, <2>1, <2>2, GotoStep DEF ApplySteps, ProviderSteps
  <1>22. CASE WorkerWithdraw
    <2>1. worker.pc = "withdraw" /\ worker.op \in Ops /\ Owner(worker.op) \in Uids
      BY <1>7, <1>9, <1>22 DEF WorkerWithdraw, ApplySteps, ProviderSteps
    <2>2. PICK kept \in SUBSET Preservable(NoOp) :
            \/ worker' = [pc |-> "check", op |-> worker.op, preserved |-> kept]
            \/ Abandon("ReadbackFailed")
      BY <1>22 DEF WorkerWithdraw
    <2>3. kept \in SUBSET Ops
      BY <1>8, <2>1, <2>2 DEF Preservable
    <2> QED BY <1>3, <1>5, <1>6, <2>1, <2>2, <2>3 DEF ApplySteps, ProviderSteps
  <1>23. CASE WorkerDeny \/ WorkerJournal \/ WorkerLabel \/ WorkerReceipt
    <2>1. /\ worker.pc \in Short /\ worker.pc \in ApplySteps /\ worker.op \in Ops
      BY <1>7, <1>23 DEF WorkerDeny, WorkerJournal, WorkerLabel, WorkerReceipt, ApplySteps,
           ProviderSteps, Short
    <2>2. \/ \E p \in {"journal", "label", "verify", "readback"} : Goto(p)
          \/ Abandon("ReadbackFailed") \/ UNCHANGED worker
      BY <1>23 DEF WorkerDeny, WorkerJournal, WorkerLabel, WorkerReceipt, Loaded
    <2> QED BY <1>3, <1>4, <1>6, <1>10, <2>1, <2>2, GotoStep DEF Short
  <1>24. CASE Dispatcher
    BY <1>10, <1>24 DEF Dispatcher, RequestPreview, RequestApply, RequestCancel
  <1>25. CASE Environment
    BY <1>2, <1>10, <1>25 DEF Environment, Tick, ClientExit, UpdateCode, Crash, Stop
  <1>26. CASE UNCHANGED vars
    BY <1>10, <1>26 DEF vars
  <1>27. CASE Worker
    BY <1>27, <1>11, <1>12, <1>13, <1>14, <1>15, <1>16, <1>17, <1>18, <1>19, <1>20, <1>21, <1>22,
       <1>23 DEF Worker
  <1> QED BY <1>24, <1>25, <1>26, <1>27 DEF WorkflowNext

\* Every row keeps its type.
LEMMA RowsInductive ==
    ASSUME Rows, LedgerInv, LogInv, KindInv, LoadInv, [WorkflowNext]_vars
    PROVE  Rows'
  <1> USE DEF Rows
  <1>1. TableRows' /\ StoreRows' /\ KernelRows'
    BY TableRowsInductive, StoreRowsInductive, KernelRowsInductive
  <1>2. queue' \in Seq(Job) /\ \A i \in 1 .. Len(queue') : Requested(queue'[i])
    BY QueueRowsInductive
  <1>3. WorkerShape(worker')
    BY WorkerShapeInductive
  <1>4. /\ review' \in [Ops -> Review \cup {NoReview}]
        /\ \A o \in Ops : review'[o] # NoReview => Reviewed(review'[o])
    <2>1. ASSUME NEW o \in Ops, WorkerReview(o)
          PROVE  /\ review' \in [Ops -> Review \cup {NoReview}]
                 /\ \A p \in Ops : review'[p] # NoReview => Reviewed(review'[p])
      <3>1. Reviewed(NewReview(worker.job)) /\ review' = [review EXCEPT ![o] = NewReview(worker.job)]
        BY <2>1, ReviewInserts
      <3>2. NewReview(worker.job) \in Review
        BY <3>1 DEF Reviewed
      <3> QED BY <3>1, <3>2 DEF BrokerRows
    <2>2. CASE UNCHANGED review
      BY <2>2 DEF BrokerRows
    <2> QED BY <2>1, <2>2, Frames
  <1>5. log' \in Seq(Ops)
    <2>1. CASE WorkerCommit
      <3>1. worker.op \in Ops
        BY <2>1, WorkerFields DEF WorkerCommit, At, ApplySteps
      <3> QED BY <2>1, <3>1 DEF WorkerCommit, Current, BrokerRows
    <2>2. CASE UNCHANGED <<revision, resources, grants, log>>
      BY <2>2 DEF BrokerRows
    <2> QED BY <2>1, <2>2, Frames
  <1>6. crashes' \in 0 .. MaxCrashes
    BY Frames, WorkflowLimits DEF Crash, BrokerRows
  <1>7. pending' \subseteq Ops
    <2> USE DEF BrokerRows
    <2>1. CASE Dispatcher
      BY <2>1 DEF Dispatcher, RequestPreview, RequestApply, RequestCancel
    <2>2. CASE Worker
      BY <2>2 DEF Worker, WorkerTake, Retained, WorkerObserve, WorkerReview, WorkerRefuse, WorkerBegin,
         WorkerAuthorize, WorkerCommit, WorkerCommitRefused, WorkerAcknowledge, WorkerFail,
         WorkerVerified, WorkerProviderFails, WorkerContext, WorkerWrite, WorkerLoadContexts,
         WorkerLoadAccess, WorkerWithdraw, WorkerCheck, WorkerDeny, WorkerJournal, WorkerLabel,
         WorkerReceipt, WorkerLabelFails
    <2>3. CASE Environment
      BY <2>3 DEF Environment, Tick, ClientExit, UpdateCode, Crash
    <2>4. CASE UNCHANGED vars
      BY <2>4 DEF vars
    <2> QED BY <2>1, <2>2, <2>3, <2>4 DEF WorkflowNext
  <1>8. installed' \in [Uids -> Generations] /\ alive' \subseteq Actors
    <2> USE DEF BrokerRows
    <2>1. ASSUME NEW uid \in Uids, UpdateCode(uid)
          PROVE  installed' \in [Uids -> Generations] /\ alive' \subseteq Actors
      <3>1. installed[uid] + 1 \in Generations
        BY <2>1, WorkflowLimits, SMTT(30) DEF UpdateCode, Generations
      <3> QED BY <2>1, <3>1 DEF UpdateCode
    <2>2. ASSUME NEW a \in Actors, ClientExit(a)
          PROVE  installed' \in [Uids -> Generations] /\ alive' \subseteq Actors
      BY <2>2 DEF ClientExit
    <2>3. \/ UNCHANGED clientVars
          \/ \E uid \in Uids : UpdateCode(uid)
          \/ \E a \in Actors : ClientExit(a)
      <3>1. CASE Dispatcher
        BY <3>1 DEF Dispatcher, RequestPreview, RequestApply, RequestCancel
      <3>2. CASE Worker
        BY <3>2 DEF Worker, WorkerTake, WorkerObserve, WorkerReview, WorkerRefuse, WorkerBegin,
           WorkerAuthorize, WorkerCommit, WorkerCommitRefused, WorkerAcknowledge, WorkerFail,
           WorkerVerified, WorkerProviderFails, WorkerContext, WorkerWrite, WorkerLoadContexts,
           WorkerLoadAccess, WorkerWithdraw, WorkerCheck, WorkerDeny, WorkerJournal, WorkerLabel,
           WorkerReceipt, WorkerLabelFails
      <3>3. CASE Environment
        BY <3>3 DEF Environment, Tick, Crash
      <3>4. CASE UNCHANGED vars
        BY <3>4 DEF vars
      <3> QED BY <3>1, <3>2, <3>3, <3>4 DEF WorkflowNext
    <2> QED BY <2>1, <2>2, <2>3 DEF clientVars
  <1> QED BY <1>1, <1>2, <1>3, <1>4, <1>5, <1>6, <1>7, <1>8 DEF BrokerRows

-----------------------------------------------------------------------------
(* The table, the held reviews and the log *)

\* A commit stores one more operation, and nothing else does.
LEMMA StoredSteps ==
    ASSUME BrokerRows, [WorkflowNext]_vars
    PROVE  /\ WorkerCommit => Stored' = Stored \cup {worker.op}
           /\ ~WorkerCommit => UNCHANGED Stored
           /\ Stored \subseteq Ops
  <1>1. CASE WorkerCommit
    <2>1. worker.op \in Ops /\ log \in Seq(Ops) /\ log' = Append(log, worker.op)
      BY <1>1, WorkerFields DEF WorkerCommit, At, ApplySteps, Current, BrokerRows
    <2> QED BY <1>1, <2>1 DEF Stored
  <1>2. CASE ~WorkerCommit
    BY <1>2, Frames DEF Stored, BrokerRows
  <1> QED BY <1>1, <1>2

LedgerStill == UNCHANGED <<entries, review, pending, log, crashes>>

\* The provider goes on, or gives up: the operation stays Verifying.
LEMMA LedgerProvider ==
    ASSUME BrokerRows, LedgerInv, LedgerStill, worker.pc \in ProviderSteps,
           worker'.op = worker.op, worker'.pc \in ProviderSteps \cup {"fail"}
    PROVE  LedgerInv'
  BY DEF LedgerInv, LedgerStill, NoOrphanRunning, Stored, ProviderSteps, ApplySteps

\* Apply goes on to its commit, or gives up: the operation stays Running.
LEMMA LedgerRunning ==
    ASSUME BrokerRows, LedgerInv, LedgerStill, worker.pc \in {"authorize", "commit"},
           worker'.op = worker.op, worker'.pc \in {"commit", "fail"}
    PROVE  LedgerInv'
  BY DEF LedgerInv, LedgerStill, NoOrphanRunning, Stored, ProviderSteps, ApplySteps

\* The worker between two jobs, or preparing a review: nothing is started.
LEMMA LedgerQuiet ==
    ASSUME BrokerRows, LedgerInv, LedgerStill,
           worker.pc \in {"idle", "observe", "review", "begin"},
           worker'.pc \in {"idle", "observe", "review", "begin"}
    PROVE  LedgerInv'
  <1>1. \A o \in Ops : entries[o].outcome \notin {"Running", "Verifying", "CancelRequested"}
    BY IdleIsQuiet
  <1> QED BY <1>1 DEF LedgerInv, LedgerStill, NoOrphanRunning, Stored, ProviderSteps, ApplySteps

\* The ledger when one entry changes: its other parts, once for every method.
LEMMA LedgerEntries ==
    ASSUME BrokerRows, LedgerInv, NEW o \in Ops, NEW outcome, Changed(o, outcome),
           UNCHANGED <<review, log, crashes>>, pending' \subseteq pending,
           review[o] # NoReview,
           o \in Stored => outcome \in {"Running", "Verifying", "Completed", "Failed"}
    PROVE  /\ \A p \in pending' : review'[p] # NoReview /\ p \notin Stored'
           /\ \A p \in Stored' : /\ review'[p] # NoReview
                                 /\ entries'[p].outcome \notin
                                      {"Pending", "Cancelled", "Expired", "CancelRequested"}
           /\ \A p \in Ops : entries'[p] # Table!Absent => review'[p] # NoReview
           /\ crashes' = 0 => \A p \in Stored' : entries'[p] # Table!Absent
  <1>1. Stored' = Stored /\ Stored \subseteq Ops
    BY DEF Stored, BrokerRows
  <1> QED BY <1>1 DEF LedgerInv, Changed

\* RequestCancel: a waiting review is never the operation that is applied.
LEMMA LedgerCancel ==
    ASSUME TableRows, BrokerRows, LedgerInv, NEW a \in Actors, NEW o \in Ops, RequestCancel(a, o)
    PROVE  LedgerInv'
  <1>1. /\ Changed(o, "Cancelled") /\ entries[o].outcome = "Pending"
        /\ UNCHANGED <<review, log, crashes, pending, worker>>
    BY CancelChanges DEF RequestCancel
  <1>2. review[o] # NoReview /\ o \notin Stored
    BY <1>1 DEF RequestCancel, Known, Table!Owned, LedgerInv
  <1>3. worker.pc \in ApplySteps => worker.op \in Ops /\ worker.op # o
    BY <1>1, WorkerFields DEF LedgerInv, ApplySteps
  <1>4. UNCHANGED Stored
    BY <1>1 DEF Stored
  <1>5. /\ worker.pc \in ApplySteps => entries'[worker.op] = entries[worker.op]
        /\ NoOrphanRunning'
    BY <1>1, <1>3 DEF Changed, NoOrphanRunning, LedgerInv
  <1> QED BY <1>1, <1>2, <1>4, <1>5, LedgerEntries DEF LedgerInv, ApplySteps

\* WorkerTake: the sweep touches only reviews that wait.
LEMMA LedgerTake ==
    ASSUME TableRows, BrokerRows, LedgerInv, WorkerTake, WorkerShape(worker')
    PROVE  LedgerInv'
  <1>0. worker.pc = "idle" /\ UNCHANGED <<review, log, crashes>>
    BY DEF WorkerTake, At
  <1>1. CASE UNCHANGED <<entries, pending, worker>>
    BY <1>0, <1>1, LedgerQuiet DEF LedgerStill
  <1>2. CASE ~UNCHANGED <<entries, pending, worker>>
    <2>1. /\ entries' = Table!Swept /\ pending' \subseteq pending
          /\ worker'.pc \in {"observe", "review", "begin"}
      BY <1>2 DEF WorkerTake, Retained
    <2>2. \A o \in Ops : \/ entries'[o] = entries[o]
                         \/ /\ entries[o].outcome = "Pending"
                            /\ entries'[o] # Table!Absent
                            /\ entries'[o].outcome = "Expired"
      BY <1>0, <2>1, IdleIsQuiet, SweepChanges
    <2>3. \A o \in Ops : entries'[o].outcome \notin {"Running", "Verifying", "CancelRequested"}
      BY <1>0, <2>2, IdleIsQuiet
    <2>4. UNCHANGED Stored /\ Stored \subseteq Ops
      BY <1>0 DEF Stored, BrokerRows
    <2>5. \A o \in Ops : entries[o].outcome = "Pending" => entries[o] # Table!Absent
      BY AbsentOutcome DEF TableRows
    <2> QED BY <1>0, <2>1, <2>2, <2>3, <2>4, <2>5 DEF LedgerInv, NoOrphanRunning, ApplySteps, ProviderSteps
  <1> QED BY <1>1, <1>2

\* WorkerReview: the reference is new to the table, the reviews and the log.
LEMMA LedgerReview ==
    ASSUME TableRows, StoreRows, BrokerRows, LedgerInv, LogInv, NEW o \in Ops, WorkerReview(o)
    PROVE  LedgerInv'
  <1>1. /\ worker.pc = "review" /\ UNCHANGED <<log, crashes>>
        /\ Changed(o, "Pending") /\ review[o] = NoReview
        /\ review' = [review EXCEPT ![o] = NewReview(worker.job)]
        /\ Reviewed(NewReview(worker.job))
        /\ worker'.pc = "idle" /\ pending' = pending \cup {o}
    <2>1. worker.pc = "review" /\ UNCHANGED <<log, crashes>>
      BY Zenon DEF WorkerReview, At
    <2> QED BY <2>1, ReviewInserts DEF Idle
  <1>2. NewReview(worker.job) # NoReview
    <2>1. NewReview(worker.job).kind \in Kinds
      BY <1>1 DEF Reviewed, Review
    <2>2. NoReview.kind = "None"
      BY DEF NoReview
    <2> QED BY <2>1, <2>2 DEF Kinds
  <1>3. o \notin Stored /\ UNCHANGED Stored /\ Stored \subseteq Ops
    BY <1>1 DEF LedgerInv, Stored, BrokerRows
  <1>4. \A p \in Ops : entries'[p].outcome \notin {"Running", "Verifying", "CancelRequested"}
    BY <1>1, IdleIsQuiet DEF Changed
  <1>5. \A p \in Ops : review'[p] # NoReview <=> (review[p] # NoReview \/ p = o)
    BY <1>1, <1>2 DEF BrokerRows
  <1>6. pending \subseteq Ops
    BY DEF BrokerRows
  <1> QED BY <1>1, <1>3, <1>4, <1>5, <1>6
          DEF LedgerInv, Changed, NoOrphanRunning, ApplySteps, ProviderSteps

\* WorkerBegin: what leaves the held reviews was never stored.
LEMMA LedgerBegin ==
    ASSUME TableRows, BrokerRows, LedgerInv, WorkerBegin
    PROVE  LedgerInv'
  <1>0. worker.pc = "begin" /\ worker.op \in Ops /\ UNCHANGED <<review, log, crashes>>
    BY WorkerFields DEF WorkerBegin, At
  <1>1. CASE UNCHANGED entries /\ Stop
    <2>1. pending' \subseteq pending /\ worker'.pc = "idle"
      BY <1>1 DEF WorkerBegin, Stop, Idle
    <2>2. \A o \in Ops : entries[o].outcome \notin {"Running", "Verifying", "CancelRequested"}
      BY <1>0, IdleIsQuiet
    <2> QED BY <1>0, <1>1, <2>1, <2>2
            DEF LedgerInv, NoOrphanRunning, Stored, ApplySteps, ProviderSteps
  <1>2. CASE ~(UNCHANGED entries /\ Stop)
    <2>1. /\ worker.op \in pending /\ pending' = pending \ {worker.op}
          /\ Table!Begin(worker.op, Actor, revision, review[worker.op].generation)
          /\ Goto("authorize") \/ Abandon("ReadbackFailed")
      BY <1>2 DEF WorkerBegin, Current
    <2>2. worker'.op = worker.op /\ worker'.pc \in {"authorize", "fail"}
      BY <1>0, <2>1, GotoStep DEF Abandon, Short
    <2>3. Changed(worker.op, "Running")
      BY <1>0, <2>1, BeginChanges
    <2>4. review[worker.op] # NoReview /\ worker.op \notin Stored
      BY <2>1 DEF LedgerInv
    <2>5. UNCHANGED Stored
      BY <1>0 DEF Stored
    <2>6. \A o \in Ops : entries[o].outcome \notin {"Running", "Verifying", "CancelRequested"}
      BY <1>0, IdleIsQuiet
    <2>7. NoOrphanRunning'
      BY <2>2, <2>3, <2>6 DEF NoOrphanRunning, Changed
    <2>8. entries'[worker.op].outcome = "Running" /\ worker.op \notin pending'
      BY <2>1, <2>3 DEF Changed
    <2>9. pending' \subseteq pending
      BY <2>1
    <2> QED BY <1>0, <2>2, <2>3, <2>4, <2>5, <2>7, <2>8, <2>9, LedgerEntries
            DEF LedgerInv, ApplySteps, ProviderSteps
  <1> QED BY <1>1, <1>2

\* WorkerCommit: the operation is stored, and no held review is.
LEMMA LedgerCommit ==
    ASSUME BrokerRows, LedgerInv, WorkerCommit, [WorkflowNext]_vars
    PROVE  LedgerInv'
  <1>1. /\ worker.pc = "commit" /\ worker.op \in Ops /\ worker'.pc = "ack" /\ worker'.op = worker.op
        /\ UNCHANGED <<entries, review, pending, crashes>>
        /\ entries[worker.op].outcome = "Running" /\ worker.op \notin pending
        /\ review[worker.op] # NoReview
    BY WorkerFields DEF WorkerCommit, At, Current, LedgerInv, ApplySteps
  <1>2. Stored' = Stored \cup {worker.op}
    BY StoredSteps
  <1>3. entries[worker.op] # Table!Absent
    BY <1>1 DEF Table!Absent
  <1> QED BY <1>1, <1>2, <1>3 DEF LedgerInv, NoOrphanRunning, ApplySteps, ProviderSteps

\* WorkerAcknowledge: the stored operation is Verifying, or Failed and done with.
LEMMA LedgerAcknowledge ==
    ASSUME TableRows, StoreRows, BrokerRows, LedgerInv, WorkerAcknowledge
    PROVE  LedgerInv'
  <1>1. /\ worker.pc = "ack" /\ worker.op \in Ops /\ UNCHANGED <<review, log, crashes, pending>>
        /\ worker.op \in Stored /\ review[worker.op] # NoReview /\ revision \in Nat
    BY WorkerFields DEF WorkerAcknowledge, At, LedgerInv, ApplySteps, StoreRows
  <1>2. PICK outcome \in {"Verifying", "Failed"} : Changed(worker.op, outcome)
    BY <1>1, CommittedChanges DEF WorkerAcknowledge, Current
  <1>3. /\ outcome = "Failed" => worker'.pc = "idle"
        /\ outcome = "Verifying" =>
             worker'.pc \in {"resource", "context", "withdraw"} /\ worker'.op = worker.op
    BY <1>2 DEF WorkerAcknowledge, Changed, Current, Idle
  <1>4. UNCHANGED Stored
    BY <1>1 DEF Stored
  <1>5. \A o \in Ops \ {worker.op} :
          entries[o].outcome \notin {"Running", "Verifying", "CancelRequested"}
    BY DEF LedgerInv, NoOrphanRunning
  <1>6. NoOrphanRunning'
    BY <1>2, <1>3, <1>5 DEF NoOrphanRunning, Changed
  <1> QED BY <1>1, <1>2, <1>3, <1>4, <1>6, LedgerEntries
          DEF LedgerInv, Changed, ApplySteps, ProviderSteps

\* WorkerFail and WorkerVerified: the operation has its result.
LEMMA LedgerResult ==
    ASSUME TableRows, StoreRows, BrokerRows, LedgerInv, WorkerFail \/ WorkerVerified
    PROVE  LedgerInv'
  <1>1. /\ worker.pc \in {"fail", "readback"} /\ worker.op \in Ops
        /\ UNCHANGED <<review, log, crashes, pending>> /\ worker'.pc = "idle"
        /\ review[worker.op] # NoReview
    <2>1. /\ worker.pc \in {"fail", "readback"} /\ worker' = Idle
          /\ UNCHANGED <<review, log, crashes, pending>>
      BY DEF WorkerFail, WorkerVerified, At, Stop
    <2> QED BY <2>1, WorkerFields DEF LedgerInv, ApplySteps, ProviderSteps, Idle
  <1>2. PICK outcome \in {"Completed", "Failed"} : Changed(worker.op, outcome)
    <2>1. CASE WorkerFail
      BY <1>1, <2>1, FailChanges, WorkerFields
         DEF WorkerFail, At, LedgerInv, Current
    <2>2. CASE WorkerVerified
      BY <1>1, <2>2, VerifiedChanges DEF WorkerVerified, Current
    <2> QED BY <2>1, <2>2
  <1>3. \A o \in Ops \ {worker.op} :
          entries[o].outcome \notin {"Running", "Verifying", "CancelRequested"}
    BY DEF LedgerInv, NoOrphanRunning
  <1>4. NoOrphanRunning'
    BY <1>2, <1>3 DEF NoOrphanRunning, Changed
  <1>5. pending' \subseteq pending
    BY <1>1
  <1> QED BY <1>1, <1>2, <1>4, <1>5, LedgerEntries DEF LedgerInv, ApplySteps, ProviderSteps

\* Crash: the broker starts over with an empty table.
LEMMA LedgerCrash ==
    ASSUME BrokerRows, LedgerInv, Crash
    PROVE  LedgerInv'
  <1>1. /\ \A o \in Ops : entries'[o] = Table!Absent
        /\ pending' = {} /\ worker'.pc = "idle" /\ UNCHANGED <<review, log>> /\ crashes' # 0
    BY WorkflowLimits DEF Crash, Idle, BrokerRows
  <1>2. Stored \subseteq Ops /\ UNCHANGED Stored
    BY <1>1 DEF Stored, BrokerRows
  <1>3. Table!Absent.outcome = "Absent"
    BY DEF Table!Absent
  <1> QED BY <1>1, <1>2, <1>3 DEF LedgerInv, NoOrphanRunning, ApplySteps, ProviderSteps

\* The ledger is kept by every step.
LEMMA LedgerInductive ==
    ASSUME TableRows, StoreRows, BrokerRows, KernelRows, LedgerInv, LogInv, [WorkflowNext]_vars
    PROVE  LedgerInv'
  <1> USE DEF At, Current
  <1>1. CASE UNCHANGED worker /\ LedgerStill
    BY <1>1 DEF LedgerStill, LedgerInv, NoOrphanRunning, Stored
  <1>2. CASE Dispatcher
    BY <1>1, <1>2, LedgerCancel DEF Dispatcher, RequestPreview, RequestApply, LedgerStill
  <1>3. CASE Environment
    BY <1>1, <1>3, LedgerCrash DEF Environment, Tick, ClientExit, UpdateCode, LedgerStill
  <1>4. CASE UNCHANGED vars
    BY <1>1, <1>4 DEF vars, LedgerStill
  <1>5. CASE WorkerTake
    BY <1>5, LedgerTake, WorkerShapeInductive
  <1>6. CASE WorkerObserve \/ WorkerRefuse
    <2>1. worker.pc \in {"observe", "review"} /\ LedgerStill
      BY <1>6 DEF WorkerObserve, WorkerRefuse, LedgerStill
    <2>2. worker'.pc \in {"review", "idle"}
      <3>1. CASE WorkerObserve
        BY <2>1, <3>1, WorkerFields DEF WorkerObserve, Preparing
      <3>2. CASE WorkerRefuse
        BY <3>2 DEF WorkerRefuse, Stop, Idle
      <3> QED BY <1>6, <3>1, <3>2
    <2> QED BY <2>1, <2>2, LedgerQuiet
  <1>7. CASE WorkerAuthorize \/ WorkerCommitRefused
    <2>1. worker.pc \in {"authorize", "commit"} /\ LedgerStill
      BY <1>7 DEF WorkerAuthorize, WorkerCommitRefused, LedgerStill
    <2>2. worker'.pc \in {"commit", "fail"} /\ worker'.op = worker.op
      BY <1>7 DEF WorkerAuthorize, WorkerCommitRefused, Abandon
    <2> QED BY <2>1, <2>2, LedgerRunning
  <1>8. CASE ProviderAction
    <2>1. LedgerStill
      BY <1>8 DEF ProviderAction, WorkerProviderFails, WorkerContext, WorkerWrite,
           WorkerLoadContexts, WorkerLoadAccess, WorkerWithdraw, WorkerCheck, WorkerDeny,
           WorkerJournal, WorkerLabel, WorkerReceipt, WorkerLabelFails, LedgerStill
    <2> QED BY <1>8, <2>1, ProviderMoves, LedgerProvider DEF ProviderSteps
  <1>9. CASE Worker
    BY <1>9, <1>5, <1>6, <1>7, <1>8, LedgerReview, LedgerBegin, LedgerCommit, LedgerAcknowledge,
       LedgerResult DEF Worker, ProviderAction
  <1> QED BY <1>2, <1>3, <1>4, <1>9 DEF WorkflowNext

-----------------------------------------------------------------------------
(* What was stored, and under which revision *)

\* A review that was drawn is never drawn again or altered.
LEMMA ReviewsStand ==
    ASSUME TableRows, StoreRows, BrokerRows, LogInv, [WorkflowNext]_vars
    PROVE  \A o \in Ops : review[o] # NoReview => review'[o] = review[o]
  <1>1. ASSUME NEW p \in Ops, WorkerReview(p)
        PROVE  \A o \in Ops : review[o] # NoReview => review'[o] = review[o]
    BY <1>1, ReviewInserts DEF BrokerRows
  <1>2. CASE UNCHANGED review
    BY <1>2
  <1> QED BY <1>1, <1>2, Frames

\* Where the worker may go in one step.
LEMMA WorkerMoves ==
    ASSUME TableRows, BrokerRows, KernelRows, LedgerInv, [WorkflowNext]_vars
    PROVE  \/ UNCHANGED worker
           \/ worker'.pc \in {"idle", "fail", "authorize", "commit", "ack"}
           \/ worker'.pc = "begin"
           \/ WorkerTake /\ worker'.pc \in {"observe", "review"} /\ worker'.lease = now + REVIEW_TIME
           \/ WorkerObserve /\ worker.pc = "observe" /\ worker'.pc = "review"
                /\ worker'.lease = worker.lease
           \/ WorkerAcknowledge /\ worker.pc = "ack" /\ worker'.op = worker.op
                /\ worker'.pc = CASE review[worker.op].kind = "Register" -> "resource"
                                  [] review[worker.op].kind = "ProposeGrant" -> "context"
                                  [] OTHER -> "withdraw"
           \/ ProviderAction
  <1> USE DEF At, Current
  <1>1. CASE Dispatcher \/ UNCHANGED vars
    BY <1>1 DEF Dispatcher, RequestPreview, RequestApply, RequestCancel, vars
  <1>2. CASE Environment
    BY <1>2 DEF Environment, Tick, ClientExit, UpdateCode, Crash, Idle
  <1>3. CASE WorkerTake
    <2>1. \/ UNCHANGED worker
          \/ worker' = [pc |-> "begin", op |-> Head(queue).target]
          \/ worker' = [pc |-> IF Head(queue).kind = "ProposeGrant" THEN "observe" ELSE "review",
                        op |-> NoOp, job |-> Head(queue),
                        lease |-> now + REVIEW_TIME, generation |-> NoGeneration]
      BY <1>3 DEF WorkerTake
    <2> QED BY <1>3, <2>1
  <1>4. CASE WorkerObserve
    <2>1. worker.pc = "observe" /\ Preparing(worker)
      BY <1>4, WorkerFields DEF WorkerObserve
    <2> QED BY <1>4, <2>1 DEF WorkerObserve, Preparing
  <1>5. CASE (\E o \in Ops : WorkerReview(o)) \/ WorkerRefuse \/ WorkerFail \/ WorkerVerified
    <2>1. worker' = Idle
      BY <1>5, Zenon DEF WorkerReview, WorkerRefuse, WorkerFail, WorkerVerified, Stop
    <2> QED BY <2>1 DEF Idle
  <1>6. CASE WorkerBegin
    <2>1. worker.pc = "begin" /\ (Goto("authorize") \/ Abandon("ReadbackFailed") \/ Stop)
      BY <1>6 DEF WorkerBegin
    <2> QED BY <2>1, GotoStep DEF Abandon, Stop, Idle, Short
  <1>7. CASE WorkerAuthorize \/ WorkerCommit \/ WorkerCommitRefused
    BY <1>7 DEF WorkerAuthorize, WorkerCommit, WorkerCommitRefused, Abandon
  <1>8. CASE WorkerAcknowledge
    BY <1>8 DEF WorkerAcknowledge, Idle
  <1> QED BY <1>1, <1>2, <1>3, <1>4, <1>5, <1>6, <1>7, <1>8
          DEF WorkflowNext, Worker, ProviderAction

\* Each commit takes the next revision, and no operation is stored twice.
LEMMA LogInductive ==
    ASSUME TableRows, StoreRows, BrokerRows, KernelRows, LedgerInv, LogInv, [WorkflowNext]_vars
    PROVE  LogInv'
  <1>0. TableRows' /\ now <= now'
    BY TableRowsInductive, Frames DEF Tick, Table!Tick, TableRows
  <1>1. worker'.pc \in {"observe", "review"} => worker'.lease <= now' + REVIEW_TIME
    <2>1. REVIEW_TIME \in Nat /\ now \in Nat /\ now' \in Nat
      BY <1>0, WorkflowLimits DEF TableRows
    <2>2. worker.pc \in {"observe", "review"} =>
            worker.lease \in Nat /\ worker.lease <= now + REVIEW_TIME
      BY WorkerFields DEF LogInv, Preparing
    <2>3. SUFFICES ASSUME worker'.pc \in {"observe", "review"}
                   PROVE  worker'.lease <= now' + REVIEW_TIME
      OBVIOUS
    <2>4. \/ worker'.lease = now + REVIEW_TIME
          \/ worker.pc \in {"observe", "review"} /\ worker'.lease = worker.lease
      <3>1. ~ProviderAction
        BY <2>3, ProviderMoves DEF ProviderSteps
      <3>2. CASE WorkerAcknowledge /\ worker'.op = worker.op
                   /\ worker'.pc = CASE review[worker.op].kind = "Register" -> "resource"
                                     [] review[worker.op].kind = "ProposeGrant" -> "context"
                                     [] OTHER -> "withdraw"
        BY <2>3, <3>2
      <3> QED BY <2>3, <3>1, <3>2, WorkerMoves
    <2> QED BY <1>0, <2>1, <2>2, <2>4
  <1>2. CASE WorkerCommit
    <2>1. /\ worker.op \in Ops /\ worker.op \notin Stored /\ log \in Seq(Ops)
          /\ log' = Append(log, worker.op)
      BY <1>2, WorkerFields DEF WorkerCommit, At, ApplySteps, Current, BrokerRows, LedgerInv
    <2>2. \A i, j \in 1 .. Len(log') : log'[i] = log'[j] => i = j
      <3>1. \A i \in 1 .. Len(log) : log[i] # worker.op
        BY <2>1 DEF Stored
      <3> QED BY <2>1, <3>1 DEF LogInv
    <2>3. /\ Len(log') = Len(log) + 1 /\ Len(log) \in Nat
          /\ revision' = revision + 1 /\ revision = review[worker.op].rev /\ revision \in Nat
      BY <1>2, <2>1, CommitByKind DEF StoreRows
    <2>4. IsFiniteSet(Registered) /\ Cardinality(Registered) \in Nat
      BY WorkflowSets, FS_Subset, FS_CardinalityType
    <2>5. revision' = 1 + Cardinality(Registered) + Len(log')
      BY <2>3, <2>4 DEF LogInv
    <2>6. Stored' = Stored \cup {worker.op} /\ UNCHANGED review /\ Stored \subseteq Ops
      BY <1>2, StoredSteps DEF WorkerCommit
    <2>7. \A o \in Stored : review[o].rev \in Nat /\ review[o].rev + 1 <= revision
      BY <2>6 DEF LogInv, LedgerInv, BrokerRows, Reviewed, Review
    <2>8. \A o \in Stored' : review'[o].rev + 1 <= revision'
      BY <2>3, <2>6, <2>7
    <2> QED BY <1>1, <2>2, <2>5, <2>8 DEF LogInv
  <1>3. CASE ~WorkerCommit
    <2>1. UNCHANGED <<revision, log>> /\ UNCHANGED Stored /\ Stored \subseteq Ops
      BY <1>3, Frames, StoredSteps
    <2>2. \A o \in Stored : review'[o] = review[o]
      BY <2>1, ReviewsStand DEF LedgerInv
    <2> QED BY <1>1, <2>1, <2>2 DEF LogInv
  <1> QED BY <1>2, <1>3

\* The worker takes the provider's steps of the kind that was reviewed.
LEMMA KindInductive ==
    ASSUME TableRows, StoreRows, BrokerRows, KernelRows, LedgerInv, LogInv, KindInv,
           [WorkflowNext]_vars
    PROVE  KindInv'
  <1>1. worker.pc \in ApplySteps => Reviewed(review[worker.op]) /\ review'[worker.op] = review[worker.op]
    BY CurrentReview, ReviewsStand DEF LedgerInv
  <1>2. worker.pc \in ApplySteps => review[worker.op].kind \in {"Register", "ProposeGrant", "RevokeGrant"}
    BY <1>1 DEF Reviewed, Review, Kinds
  <1>3. CASE UNCHANGED worker
    BY <1>1, <1>3 DEF KindInv, ApplySteps, ProviderSteps
  <1>4. CASE worker'.pc \in {"idle", "fail", "authorize", "commit", "ack", "begin", "observe", "review"}
    BY <1>4 DEF KindInv
  <1>5. CASE /\ WorkerAcknowledge /\ worker.pc = "ack" /\ worker'.op = worker.op
             /\ worker'.pc = CASE review[worker.op].kind = "Register" -> "resource"
                               [] review[worker.op].kind = "ProposeGrant" -> "context"
                               [] OTHER -> "withdraw"
    BY <1>1, <1>2, <1>5 DEF KindInv, ApplySteps
  <1>6. CASE ProviderAction
    <2>1. worker.pc \in ApplySteps /\ worker'.op = worker.op
      BY <1>6, ProviderMoves DEF ApplySteps
    <2> QED BY <1>1, <1>6, <2>1, ProviderMoves DEF KindInv
  <1> QED BY <1>3, <1>4, <1>5, <1>6, WorkerMoves

\* The record a commit adds, and the grant it takes away, are the reviewed ones.
LEMMA RecordInductive ==
    ASSUME TableRows, StoreRows, BrokerRows, KernelRows, LedgerInv, LogInv, RecordInv,
           [WorkflowNext]_vars
    PROVE  RecordInv'
  <1>1. CASE ~WorkerCommit
    <2>1. UNCHANGED <<resources, grants>> /\ UNCHANGED Stored /\ Stored \subseteq Ops
      BY <1>1, Frames, StoredSteps
    <2>2. \A o \in Stored : review'[o] = review[o]
      BY <2>1, ReviewsStand DEF LedgerInv
    <2> QED BY <2>1, <2>2 DEF RecordInv, Owner
  <1>2. CASE WorkerCommit
    <2> DEFINE c == worker.op
               r == review[c]
               record == ChangeOf(c, r).record
    <2>1. /\ c \in Ops /\ Reviewed(r) /\ UNCHANGED review
          /\ Stored' = Stored \cup {c} /\ Stored \subseteq Ops /\ c \notin Stored
      BY <1>2, CurrentReview, StoredSteps DEF WorkerCommit, At, ApplySteps, LedgerInv
    <2>3. CASE r.kind = "Register"
      <3>1. grants' = grants /\ resources' = resources \cup {record}
        BY <1>2, <2>3, CommitByKind
      <3>2. record.ref = r.target /\ record.owner = Owner(c)
        BY <2>3 DEF ChangeOf, Owner
      <3> HIDE DEF record
      <3>3. (\A o \in Stored : review[o].kind = "Register" =>
              \E s \in resources : s.ref = review[o].target /\ s.owner = Owner(o))'
        BY <2>1, <3>1, <3>2 DEF RecordInv, Owner
      <3>4. (\A o \in Stored : review[o].kind = "RevokeGrant" =>
              review[o].target \in Stored /\ Owner(review[o].target) = Owner(o))'
        BY <2>1, <2>3 DEF RecordInv, Owner
      <3>5. (\A g \in grants : /\ g.ref \in Stored /\ review[g.ref].kind = "ProposeGrant"
                               /\ g.owner = Owner(g.ref))'
        BY <2>1, <3>1 DEF RecordInv, Owner
      <3> QED BY <3>3, <3>4, <3>5 DEF RecordInv
    <2>4. CASE r.kind = "ProposeGrant"
      <3>1. resources' = resources /\ grants' = grants \cup {record}
        BY <1>2, <2>4, CommitByKind
      <3>2. record.ref = c /\ record.owner = Owner(c)
        BY <2>4 DEF ChangeOf, Owner
      <3> HIDE DEF record
      <3>3. (\A g \in grants : /\ g.ref \in Stored /\ review[g.ref].kind = "ProposeGrant"
                               /\ g.owner = Owner(g.ref))'
        BY <2>1, <2>4, <3>1, <3>2 DEF RecordInv, Owner
      <3>4. (\A o \in Stored : review[o].kind = "RevokeGrant" =>
              review[o].target \in Stored /\ Owner(review[o].target) = Owner(o))'
        BY <2>1, <2>4 DEF RecordInv, Owner
      <3>5. (\A o \in Stored : review[o].kind = "Register" =>
              \E s \in resources : s.ref = review[o].target /\ s.owner = Owner(o))'
        BY <2>1, <2>4, <3>1 DEF RecordInv, Owner
      <3> QED BY <3>3, <3>4, <3>5 DEF RecordInv
    <2>5. CASE r.kind = "RevokeGrant"
      <3>1. /\ resources' = resources /\ grants' \subseteq grants
            /\ \E g \in grants : g.ref = r.target /\ g.owner = Owner(c)
        BY <1>2, <2>5, CommitByKind DEF Store!ValidRevocation
      <3>2. r.target \in Stored /\ Owner(r.target) = Owner(c)
        BY <3>1 DEF RecordInv
      <3>3. (\A o \in Stored : review[o].kind = "RevokeGrant" =>
              review[o].target \in Stored /\ Owner(review[o].target) = Owner(o))'
        BY <2>1, <3>2 DEF RecordInv, Owner
      <3>4. (\A g \in grants : /\ g.ref \in Stored /\ review[g.ref].kind = "ProposeGrant"
                               /\ g.owner = Owner(g.ref))'
        BY <2>1, <3>1 DEF RecordInv, Owner
      <3>5. (\A o \in Stored : review[o].kind = "Register" =>
              \E s \in resources : s.ref = review[o].target /\ s.owner = Owner(o))'
        BY <2>1, <2>5, <3>1 DEF RecordInv, Owner
      <3> QED BY <3>3, <3>4, <3>5 DEF RecordInv
    <2>6. r.kind \in {"Register", "ProposeGrant", "RevokeGrant"}
      BY <2>1 DEF Reviewed, Review, Kinds
    <2> QED BY <2>3, <2>4, <2>5, <2>6
  <1> QED BY <1>1, <1>2

-----------------------------------------------------------------------------
(* The labels of a registered directory *)

\* Nothing that was registered or denied is taken back.
LEMMA PolicyGrows ==
    ASSUME StoreRows, BrokerRows, LedgerInv, [WorkflowNext]_vars
    PROVE  resources \subseteq resources' /\ denied \subseteq denied'
  <1>1. resources \subseteq resources'
    <2>1. CASE WorkerCommit
      <3>1. review[worker.op].kind \in {"Register", "ProposeGrant", "RevokeGrant"}
        BY <2>1, CurrentReview DEF WorkerCommit, At, ApplySteps, Reviewed, Review, Kinds
      <3> QED BY <2>1, <3>1, CommitByKind
    <2> QED BY <2>1, Frames
  <1>2. denied \subseteq denied'
    BY KernelFrames DEF WorkerDeny
  <1> QED BY <1>1, <1>2

\* The directory that a registration labels was stored by it.
LEMMA LabelledDirectory ==
    ASSUME StoreRows, BrokerRows, LedgerInv, KindInv, RecordInv,
           worker.pc \in {"resource", "journal", "label", "verify"}
    PROVE  /\ review[worker.op].target \in Directories
           /\ \E r \in resources : r.ref = review[worker.op].target /\ r.owner = Owner(worker.op)
  <1>1. review[worker.op].kind = "Register" /\ worker.op \in Stored /\ Reviewed(review[worker.op])
    BY CurrentReview DEF KindInv, LedgerInv, ApplySteps, ProviderSteps
  <1> QED BY <1>1 DEF RecordInv, Reviewed, TargetsOf

\* Each directory's journal, labels and deny rules move together.
LEMMA LabelsStayJournaled ==
    ASSUME StoreRows, BrokerRows, KernelRows, LedgerInv, KindInv, RecordInv, LabelInv,
           [WorkflowNext]_vars
    PROVE  LabelsAreJournaled'
  <1> DEFINE c == review[worker.op].target
  <1> USE DEF At, Current, Directory
  <1>1. resources \subseteq resources' /\ denied \subseteq denied'
    BY PolicyGrows
  <1>2. worker.pc \in {"resource", "journal", "label", "verify"} =>
          c \in Directories /\ \E r \in resources : r.ref = c
    BY LabelledDirectory
  <1> SUFFICES ASSUME NEW d \in Directories
      PROVE  /\ labels'[d] # "original" => journal'[d] # "None" /\ d \in denied'
             /\ d \in live' => journal'[d] = "VERIFIED" /\ labels'[d] = "target" /\ d \in denied'
             /\ journal'[d] # "None" => \E r \in resources' : r.ref = d
    BY DEF LabelsAreJournaled
  <1>3. /\ labels[d] # "original" => journal[d] # "None" /\ d \in denied
        /\ d \in live => journal[d] = "VERIFIED" /\ labels[d] = "target" /\ d \in denied
        /\ journal[d] # "None" => \E r \in resources : r.ref = d
    BY DEF LabelInv, LabelsAreJournaled
  <1>4. CASE WorkerJournal
    <2>1. /\ worker.pc = "journal" /\ journal[c] = "None" /\ UNCHANGED <<labels, live>>
          /\ journal' = [journal EXCEPT ![c] = "PREPARED"]
      BY <1>4 DEF WorkerJournal
    <2>2. CASE d = c
      BY <1>1, <1>2, <1>3, <2>1, <2>2 DEF KernelRows
    <2>3. CASE d # c
      BY <1>1, <1>3, <2>1, <2>3 DEF KernelRows
    <2> QED BY <2>2, <2>3
  <1>5. CASE WorkerLabel
    <2>1. /\ worker.pc = "label" /\ UNCHANGED live
          /\ c \in denied /\ journal[c] # "None" /\ c \notin live
      BY <1>5 DEF WorkerLabel, LabelInv
    <2>2. /\ d # c => labels'[d] = labels[d] /\ journal'[d] = journal[d]
          /\ journal'[c] # "None"
      BY <1>2, <1>5, <2>1 DEF WorkerLabel, KernelRows
    <2> QED BY <1>1, <1>2, <1>3, <2>1, <2>2
  <1>6. CASE WorkerReceipt
    <2>1. /\ worker.pc = "verify" /\ UNCHANGED labels /\ labels[c] = "target"
          /\ c \in denied /\ live' \in {live, live \cup {c}}
          /\ journal' = [journal EXCEPT ![c] = "VERIFIED"]
      BY <1>6 DEF WorkerReceipt, LabelInv
    <2>2. (d # c => journal'[d] = journal[d]) /\ journal'[c] = "VERIFIED"
      BY <1>2, <2>1 DEF KernelRows
    <2> QED BY <1>1, <1>2, <1>3, <2>1, <2>2
  <1>7. CASE WorkerLabelFails
    <2>1. /\ worker.pc \in {"label", "verify"} /\ UNCHANGED <<labels, live>>
          /\ c \in denied /\ journal[c] # "None" /\ c \notin live
          /\ \E phase \in {journal[c], "FAILED"} : journal' = [journal EXCEPT ![c] = phase]
      BY <1>7 DEF WorkerLabelFails, LabelInv
    <2>2. (d # c => journal'[d] = journal[d]) /\ journal'[c] # "None"
      BY <1>2, <2>1 DEF KernelRows
    <2> QED BY <1>1, <1>2, <1>3, <2>1, <2>2
  <1>8. CASE Crash
    <2>1. /\ UNCHANGED <<journal, labels, resources>>
          /\ live' \subseteq {e \in Directories : journal[e] = "VERIFIED" /\ labels[e] = "target"}
      BY <1>8 DEF Crash, policyVars
    <2> QED BY <1>1, <1>3, <2>1
  <1>9. CASE UNCHANGED <<journal, labels, live>>
    BY <1>1, <1>3, <1>9
  <1> QED BY <1>4, <1>5, <1>6, <1>7, <1>8, <1>9, KernelFrames

\* Labelling follows its journal, its journal follows the deny rules.
LEMMA LabelInductive ==
    ASSUME TableRows, StoreRows, BrokerRows, KernelRows, LedgerInv, LogInv, KindInv, RecordInv,
           LabelInv, [WorkflowNext]_vars
    PROVE  LabelInv'
  <1> DEFINE c == review[worker.op].target
  <1> USE DEF At, Current, Directory
  <1>0. LabelsAreJournaled' /\ denied \subseteq denied'
    BY LabelsStayJournaled, PolicyGrows
  <1>1. worker.pc \in ApplySteps => review'[worker.op] = review[worker.op]
    BY CurrentReview, ReviewsStand DEF LedgerInv
  <1>2. CASE worker'.pc \notin {"journal", "label", "verify", "readback"}
    BY <1>0, <1>2 DEF LabelInv
  <1>3. CASE ProviderAction
    <2>0. /\ worker.pc \in ApplySteps /\ worker'.op = worker.op
          /\ review'[worker'.op] = review[worker.op]
      BY <1>1, <1>3, ProviderMoves DEF ApplySteps
    <2>1. CASE WorkerDeny /\ worker'.pc = "journal" /\ worker.pc = "resource"
      <3>1. \E r \in resources : r.ref = c /\ r.owner = Owner(worker.op)
        BY <2>1, LabelledDirectory
      <3>2. c \in denied'
        BY <2>1, <3>1 DEF WorkerDeny
      <3> QED BY <1>0, <2>0, <2>1, <3>2 DEF LabelInv
    <2>2. CASE WorkerJournal /\ worker.pc = "journal" /\ worker'.pc = "label"
      <3>1. /\ journal[c] = "None" /\ journal' = [journal EXCEPT ![c] = "PREPARED"]
            /\ UNCHANGED live /\ c \in denied /\ c \in Directories
        BY <2>2, LabelledDirectory DEF WorkerJournal, LabelInv
      <3>2. journal'[c] = "PREPARED" /\ c \notin live
        BY <3>1 DEF LabelInv, LabelsAreJournaled, KernelRows
      <3> QED BY <1>0, <2>0, <2>2, <3>1, <3>2 DEF LabelInv
    <2>3. CASE WorkerLabel /\ worker.pc = "label" /\ worker'.pc \in {"label", "verify"}
      <3>1. /\ journal[c] # "None" /\ c \notin live /\ c \in denied /\ c \in Directories
            /\ UNCHANGED live
            /\ journal' = journal \/ journal' = [journal EXCEPT ![c] = "APPLIED"]
        BY <2>3, LabelledDirectory DEF WorkerLabel, LabelInv
      <3>2. journal'[c] # "None"
        BY <3>1 DEF KernelRows
      <3> QED BY <1>0, <2>0, <2>3, <3>1, <3>2 DEF LabelInv
    <2>4. CASE WorkerReceipt /\ worker.pc = "verify" /\ worker'.pc = "readback"
      <3>1. c \in live'
        BY <2>4 DEF WorkerReceipt, Abandon
      <3> QED BY <1>0, <2>0, <2>4, <3>1 DEF LabelInv
    <2>5. CASE WorkerCheck /\ worker.pc = "check" /\ worker'.pc = "readback"
      BY <1>0, <2>0, <2>5 DEF LabelInv, KindInv
    <2> QED BY <1>2, <1>3, <2>1, <2>2, <2>3, <2>4, <2>5, ProviderMoves
  <1>4. CASE UNCHANGED worker /\ ~ProviderAction /\ ~Crash
    <2>1. UNCHANGED <<journal, live>>
      BY <1>4, KernelFrames DEF ProviderAction
    <2> QED BY <1>0, <1>1, <1>4, <2>1 DEF LabelInv, ApplySteps, ProviderSteps
  <1>5. CASE Crash
    BY <1>2, <1>5 DEF Crash, Idle
  <1>6. CASE WorkerAcknowledge /\ worker.pc = "ack" /\ worker'.op = worker.op
               /\ worker'.pc = CASE review[worker.op].kind = "Register" -> "resource"
                                 [] review[worker.op].kind = "ProposeGrant" -> "context"
                                 [] OTHER -> "withdraw"
    BY <1>2, <1>6
  <1> QED BY <1>2, <1>3, <1>4, <1>5, <1>6, WorkerMoves

-----------------------------------------------------------------------------
(* The rules in the kernel *)

\* What was stored stays stored, with its review and its owner.
LEMMA StoredStands ==
    ASSUME TableRows, StoreRows, BrokerRows, LedgerInv, LogInv, [WorkflowNext]_vars
    PROVE  /\ Stored \subseteq Stored' /\ Stored \subseteq Ops
           /\ \A o \in Stored : review'[o] = review[o] /\ Owner(o)' = Owner(o)
  <1>1. Stored \subseteq Stored' /\ Stored \subseteq Ops
    BY StoredSteps
  <1>2. \A o \in Stored : review'[o] = review[o]
    BY <1>1, ReviewsStand DEF LedgerInv
  <1> QED BY <1>1, <1>2 DEF Owner

\* The grant that is applied is stored and its owner's own.
LEMMA AppliedGrant ==
    ASSUME StoreRows, BrokerRows, LedgerInv, KindInv, worker.pc \in ProviderSteps
    PROVE  /\ worker.op \in Stored /\ Owner(worker.op) \in Uids /\ worker.op \in Ops
           /\ worker.pc \in {"context", "write", "load", "access"} =>
                review[worker.op].kind = "ProposeGrant"
  BY CurrentReview DEF LedgerInv, KindInv, ApplySteps

\* What active_access keeps was loaded before.
LEMMA PreservedWasLoaded ==
    ASSUME NEW x, NEW kept \in SUBSET Preservable(x)
    PROVE  kept \subseteq access[Owner(worker.op)] /\ kept \subseteq Desired
  BY DEF Preservable, Current

\* The rules of an owner after each step that loads rules.
LEMMA AccessSteps ==
    ASSUME StoreRows, BrokerRows, KernelRows, LedgerInv, KindInv, LoadInv, [WorkflowNext]_vars
    PROVE  \/ UNCHANGED access
           \/ /\ WorkerLoadAccess /\ worker.pc = "access" /\ GrantCurrent
              /\ access' = [access EXCEPT ![Owner(worker.op)] = worker.preserved \cup {worker.op}]
              /\ worker.preserved \subseteq access[Owner(worker.op)]
           \/ /\ WorkerWithdraw /\ worker.pc = "withdraw"
              /\ \E kept \in SUBSET Preservable(NoOp) :
                   access' = [access EXCEPT ![Owner(worker.op)] = kept]
  <1>1. CASE WorkerLoadAccess
    BY <1>1 DEF WorkerLoadAccess, At, Current, LoadInv
  <1>2. CASE WorkerWithdraw
    BY <1>2, Zenon DEF WorkerWithdraw, At, Current
  <1> QED BY <1>1, <1>2, KernelFrames

\* What the kernel allows stays within what its owner reviewed and stored.
LEMMA KernelStaysReviewed ==
    ASSUME TableRows, StoreRows, BrokerRows, KernelRows, LedgerInv, LogInv, KindInv, RecordInv,
           KernelWithinReviewed, LoadInv, [WorkflowNext]_vars
    PROVE  KernelWithinReviewed'
  <1> DEFINE c == worker.op
             w == Owner(c)
  <1>1. /\ Stored \subseteq Stored' /\ Stored \subseteq Ops
        /\ \A o \in Stored : review'[o] = review[o] /\ Owner(o)' = Owner(o)
    BY StoredStands
  <1>2. ASSUME NEW u \in Uids, NEW g \in access[u], g \in contexts'[u]
        PROVE  /\ g \in Stored' /\ review'[g].kind = "ProposeGrant" /\ Owner(g)' = u
               /\ g \in contexts'[u]
    BY <1>1, <1>2 DEF KernelWithinReviewed
  <1>3. CASE UNCHANGED <<access, contexts>>
    BY <1>2, <1>3 DEF KernelWithinReviewed
  <1>4. CASE WorkerLoadContexts
    <2>1. /\ UNCHANGED access /\ w \in Uids /\ access[w] \subseteq contextFile[w]
          /\ contexts' = [contexts EXCEPT ![w] = contextFile[w]]
      BY <1>4, AppliedGrant DEF WorkerLoadContexts, At, Current, ProviderSteps
    <2>2. ASSUME NEW u \in Uids, NEW g \in access[u] PROVE g \in contexts'[u]
      BY <2>1 DEF KernelRows, KernelWithinReviewed
    <2> QED BY <1>2, <2>1, <2>2 DEF KernelWithinReviewed
  <1>5. CASE /\ WorkerLoadAccess /\ worker.pc = "access"
             /\ access' = [access EXCEPT ![w] = worker.preserved \cup {c}]
             /\ worker.preserved \subseteq access[w]
    <2>1. /\ c \in Stored /\ w \in Uids /\ review[c].kind = "ProposeGrant" /\ c \in contexts[w]
          /\ UNCHANGED contexts
      BY <1>5, AppliedGrant DEF LoadInv, ProviderSteps, WorkerLoadAccess
    <2>2. ASSUME NEW u \in Uids, NEW g \in access'[u] PROVE g \in access[u] \/ (u = w /\ g = c)
      BY <1>5, <2>1 DEF KernelRows
    <2>3. ASSUME NEW u \in Uids, NEW g \in access'[u]
          PROVE  /\ g \in Stored' /\ review'[g].kind = "ProposeGrant" /\ Owner(g)' = u
                 /\ g \in contexts'[u]
      BY <1>1, <1>2, <2>1, <2>2 DEF KernelWithinReviewed
    <2> QED BY <2>3 DEF KernelWithinReviewed
  <1>6. CASE /\ WorkerWithdraw /\ worker.pc = "withdraw"
             /\ \E kept \in SUBSET Preservable(NoOp) : access' = [access EXCEPT ![w] = kept]
    <2>1. w \in Uids /\ UNCHANGED contexts
      BY <1>6, AppliedGrant DEF ProviderSteps, WorkerWithdraw
    <2>2. ASSUME NEW u \in Uids, NEW g \in access'[u] PROVE g \in access[u]
      BY <1>6, <2>1, PreservedWasLoaded DEF KernelRows
    <2> QED BY <1>2, <2>1, <2>2 DEF KernelWithinReviewed
  <1>7. UNCHANGED access \/ UNCHANGED contexts
    BY KernelFrames DEF WorkerLoadContexts
  <1> QED BY <1>3, <1>4, <1>5, <1>6, <1>7, AccessSteps, KernelFrames

\* Each step of the provider finds what the one before it left.
LEMMA LoadInductive ==
    ASSUME TableRows, StoreRows, BrokerRows, KernelRows, LedgerInv, LogInv, KindInv, RecordInv,
           KernelWithinReviewed, LoadInv, [WorkflowNext]_vars
    PROVE  LoadInv'
  <1> DEFINE c == worker.op
             w == Owner(c)
  <1> USE DEF At, Current
  <1>1. worker.pc \in ApplySteps => review'[c] = review[c]
    BY CurrentReview, ReviewsStand DEF LedgerInv
  <1>2. CASE worker'.pc \notin {"write", "load", "access", "readback"}
    BY <1>2 DEF LoadInv
  <1>3. CASE ProviderAction
    <2>0. /\ worker.pc \in ProviderSteps /\ worker.pc \in ApplySteps
          /\ worker'.op = c /\ review'[worker'.op] = review[c]
          /\ Owner(worker.op)' = w /\ w \in Uids /\ c \in Ops /\ c \in Stored
      <3>1. worker.pc \in ProviderSteps /\ worker.pc \in ApplySteps /\ worker'.op = c
        BY <1>3, ProviderMoves DEF ApplySteps
      <3>2. Owner(worker.op)' = w
        BY <1>1, <3>1 DEF Owner
      <3> QED BY <1>1, <3>1, <3>2, AppliedGrant
    <2>1. CASE WorkerContext /\ worker.pc = "context" /\ worker'.pc = "write"
      <3>1. PICK kept \in SUBSET Preservable(c) :
              worker' = [pc |-> "write", op |-> c, preserved |-> kept,
                         types |-> contextFile[w] \cup {c}]
        BY <2>1, Zenon DEF WorkerContext
      <3>2. worker'.preserved \subseteq access[w] /\ c \in worker'.types /\ UNCHANGED access
        BY <2>1, <3>1, PreservedWasLoaded DEF WorkerContext, kernelVars
      <3> QED BY <2>0, <2>1, <3>2 DEF LoadInv
    <2>2. CASE WorkerWrite /\ worker.pc = "write" /\ worker'.pc = "load"
                 /\ worker'.preserved = worker.preserved
      <3>1. UNCHANGED access /\ contextFile' = [contextFile EXCEPT ![w] = worker.types]
        BY <2>2 DEF WorkerWrite, kernelVars, Abandon
      <3>2. /\ worker.preserved \subseteq access[w] /\ c \in worker.types /\ worker.types \subseteq Ops
        BY <2>2, WorkerFields DEF LoadInv
      <3>3. contextFile'[w] = worker.types
        BY <2>0, <3>1 DEF KernelRows
      <3> QED BY <2>0, <2>2, <3>1, <3>2, <3>3 DEF LoadInv
    <2>3. CASE WorkerLoadContexts /\ worker.pc = "load" /\ worker'.pc = "access"
                 /\ worker'.preserved = worker.preserved
      <3>1. UNCHANGED access /\ contexts' = [contexts EXCEPT ![w] = contextFile[w]]
        BY <2>3 DEF WorkerLoadContexts
      <3>2. worker.preserved \subseteq access[w] /\ c \in contextFile[w]
        BY <2>3 DEF LoadInv
      <3>3. contexts'[w] = contextFile[w]
        BY <2>0, <3>1 DEF KernelRows
      <3> QED BY <2>0, <2>3, <3>1, <3>2, <3>3 DEF LoadInv
    <2>4. CASE WorkerCheck /\ worker.pc = "check" /\ worker'.pc = "readback"
      <3>1. UNCHANGED <<access, grants>>
        BY <2>4 DEF WorkerCheck, kernelVars, policyVars
      <3>2. /\ review[c].kind = "ProposeGrant" => c \in Desired /\ c \in access[w]
            /\ review[c].kind # "ProposeGrant" => review[c].target \notin Desired \cup access[w]
        BY <2>4 DEF WorkerCheck, GrantCurrent
      <3> QED BY <2>0, <2>4, <3>1, <3>2 DEF LoadInv, Desired
    <2>5. CASE WorkerReceipt /\ worker.pc = "verify" /\ worker'.pc = "readback"
      <3>1. review[c].kind = "Register"
        BY <2>5 DEF KindInv
      <3> QED BY <2>0, <2>5, <3>1 DEF LoadInv
    <2> QED BY <1>2, <1>3, <2>1, <2>2, <2>3, <2>4, <2>5, ProviderMoves
  <1>4. CASE UNCHANGED worker /\ ~ProviderAction /\ ~Crash /\ ~WorkerCommit
    <2>1. UNCHANGED <<access, contexts, contextFile, grants>>
      BY <1>4, KernelFrames, Frames DEF ProviderAction
    <2>2. worker.pc \in ApplySteps => Owner(worker.op)' = w
      BY <1>1, <1>4 DEF Owner
    <2> QED BY <1>1, <1>4, <2>1, <2>2 DEF LoadInv, ApplySteps, ProviderSteps, Desired
  <1>5. CASE Crash
    BY <1>2, <1>5 DEF Crash, Idle
  <1>6. CASE WorkerAcknowledge /\ worker.pc = "ack" /\ worker'.op = worker.op
               /\ worker'.pc = CASE review[worker.op].kind = "Register" -> "resource"
                                 [] review[worker.op].kind = "ProposeGrant" -> "context"
                                 [] OTHER -> "withdraw"
    BY <1>2, <1>6
  <1>7. CASE WorkerCommit
    BY <1>2, <1>7 DEF WorkerCommit
  <1> QED BY <1>2, <1>3, <1>4, <1>5, <1>6, <1>7, WorkerMoves

\* An operation that is not Completed: working, failed, or lost with the broker.
Unfinished == {"Running", "Verifying", "Failed", "Absent"}

\* A result that stands for trouble stays, unless it becomes a verified success.
LEMMA UnfinishedStays ==
    ASSUME TableRows, StoreRows, BrokerRows, LedgerInv, LogInv, [WorkflowNext]_vars,
           NEW o \in Stored, entries[o].outcome \in Unfinished
    PROVE  \/ entries'[o].outcome \in Unfinished
           \/ WorkerVerified /\ worker.op = o /\ worker.pc = "readback"
  <1> USE DEF Unfinished
  <1>0. o \in Ops /\ review[o] # NoReview
    BY StoredSteps DEF LedgerInv
  <1>1. CASE UNCHANGED entries
    BY <1>1
  <1>2. ASSUME NEW a \in Actors, NEW p \in Ops, RequestCancel(a, p)
        PROVE  entries'[o].outcome \in Unfinished
    BY <1>0, <1>2, CancelChanges DEF RequestCancel, Changed
  <1>3. CASE WorkerTake
    <2>1. CASE entries' = Table!Swept
      BY <1>0, <1>3, <2>1, IdleIsQuiet, SweepChanges DEF WorkerTake, At
    <2> QED BY <1>1, <1>3, <2>1 DEF WorkerTake
  <1>4. ASSUME NEW p \in Ops, WorkerReview(p) PROVE entries'[o].outcome \in Unfinished
    BY <1>0, <1>4, ReviewInserts DEF Changed
  <1>5. CASE WorkerBegin
    <2>1. CASE Table!Begin(worker.op, Actor, revision, review[worker.op].generation)
      BY <1>0, <1>5, <2>1, BeginChanges, WorkerFields DEF WorkerBegin, At, Changed
    <2> QED BY <1>1, <1>5, <2>1 DEF WorkerBegin, Current
  <1>6. CASE WorkerAcknowledge
    <2>1. worker.op \in Ops
      BY <1>6, WorkerFields DEF WorkerAcknowledge, At, ApplySteps
    <2> QED BY <1>0, <1>6, <2>1, CommittedChanges DEF WorkerAcknowledge, Current, Changed, StoreRows
  <1>7. CASE WorkerFail
    <2>1. worker.op \in Ops /\ worker.reason \in Table!Failures
      BY <1>7, WorkerFields DEF WorkerFail, At, ApplySteps
    <2> QED BY <1>0, <1>1, <1>7, <2>1, FailChanges DEF WorkerFail, Current, Changed
  <1>8. CASE WorkerVerified
    <2>1. worker.op \in Ops /\ worker.pc = "readback"
      BY <1>8, WorkerFields DEF WorkerVerified, At, ApplySteps, ProviderSteps
    <2> QED BY <1>0, <1>8, <2>1, VerifiedChanges DEF WorkerVerified, Current, Changed
  <1>9. CASE Crash
    BY <1>0, <1>9 DEF Crash, Table!Absent
  <1> QED BY <1>1, <1>2, <1>3, <1>4, <1>5, <1>6, <1>7, <1>8, <1>9, Frames

\* A rule that outlives its grant keeps its unfinished revocation.
LEMMA ResidualInductive ==
    ASSUME TableRows, StoreRows, BrokerRows, KernelRows, LedgerInv, LogInv, KindInv, RecordInv,
           KernelWithinReviewed, LoadInv, ResidualInv, [WorkflowNext]_vars
    PROVE  ResidualInv'
  <1> DEFINE c == worker.op
             w == Owner(c)
  <1>0. /\ Stored \subseteq Stored' /\ Stored \subseteq Ops
        /\ \A o \in Stored : review'[o] = review[o] /\ Owner(o)' = Owner(o)
    BY StoredStands
  <1> SUFFICES ASSUME NEW u \in Uids, NEW g \in access'[u], g \notin Desired'
      PROVE  \E o \in Stored' :
               /\ review'[o].kind = "RevokeGrant" /\ review'[o].target = g
               /\ entries'[o].outcome \in {"Running", "Verifying", "Failed", "Absent"}
    BY DEF ResidualInv
  <1>1. CASE WorkerCommit
    <2>0. /\ UNCHANGED <<access, entries>> /\ c \in Stored' /\ entries[c].outcome = "Running"
          /\ review'[c] = review[c] /\ Reviewed(review[c])
      BY <1>1, CurrentReview, StoredSteps
         DEF WorkerCommit, At, kernelVars, LedgerInv, ApplySteps
    <2>1. CASE g \notin Desired
      <3>1. PICK o \in Stored : /\ review[o].kind = "RevokeGrant" /\ review[o].target = g
                                /\ entries[o].outcome \in {"Running", "Verifying", "Failed", "Absent"}
        BY <2>0, <2>1 DEF ResidualInv
      <3> QED BY <1>0, <2>0, <3>1
    <2>2. CASE g \in Desired
      <3>1. PICK h \in grants : h.ref = g
        BY <2>2 DEF Desired
      <3>2. h \notin grants'
        BY <3>1 DEF Desired
      <3>3. review[c].kind = "RevokeGrant" /\ h.ref = review[c].target
        <4>1. review[c].kind \in {"Register", "ProposeGrant", "RevokeGrant"}
          BY <2>0 DEF Reviewed, Review, Kinds
        <4> QED BY <1>1, <3>1, <3>2, <4>1, CommitByKind
      <3> QED BY <2>0, <3>1, <3>3
    <2> QED BY <2>1, <2>2
  <1>2. CASE ~WorkerCommit
    <2>1. UNCHANGED Desired
      BY <1>2, Frames DEF Desired
    <2>2. g \in access[u]
      <3>1. CASE UNCHANGED access
        BY <3>1
      <3>2. CASE /\ WorkerLoadAccess /\ worker.pc = "access" /\ GrantCurrent
                 /\ access' = [access EXCEPT ![w] = worker.preserved \cup {c}]
                 /\ worker.preserved \subseteq access[w]
        <4>1. w \in Uids /\ c \in Desired
          BY <3>2, AppliedGrant DEF ProviderSteps, GrantCurrent, Current
        <4> QED BY <2>1, <3>2, <4>1 DEF KernelRows
      <3>3. CASE /\ WorkerWithdraw /\ worker.pc = "withdraw"
                 /\ \E kept \in SUBSET Preservable(NoOp) : access' = [access EXCEPT ![w] = kept]
        <4>1. w \in Uids
          BY <3>3, AppliedGrant DEF ProviderSteps
        <4> QED BY <3>3, <4>1, PreservedWasLoaded DEF KernelRows
      <3> QED BY <3>1, <3>2, <3>3, AccessSteps
    <2>3. PICK o \in Stored : /\ review[o].kind = "RevokeGrant" /\ review[o].target = g
                              /\ entries[o].outcome \in Unfinished
      BY <2>1, <2>2 DEF ResidualInv, Unfinished
    <2>4. ~(WorkerVerified /\ worker.op = o /\ worker.pc = "readback")
      <3>1. SUFFICES ASSUME worker.op = o, worker.pc = "readback" PROVE FALSE
        OBVIOUS
      <3>2. g \notin access[Owner(o)]
        BY <2>3, <3>1 DEF LoadInv
      <3>3. Owner(g) = u /\ Owner(g) = Owner(o)
        BY <2>2, <2>3 DEF KernelWithinReviewed, RecordInv
      <3> QED BY <2>2, <3>2, <3>3
    <2>5. entries'[o].outcome \in Unfinished
      BY <2>3, <2>4, UnfinishedStays
    <2> QED BY <1>0, <2>3, <2>5 DEF Unfinished
  <1> QED BY <1>1, <1>2

-----------------------------------------------------------------------------
(* The broker's invariant, and what follows from it *)

\* A broker starts over a store that earlier lives left behind.
LEMMA InitialState == WorkflowInit => WorkflowInv
  <1> SUFFICES ASSUME WorkflowInit PROVE WorkflowInv
    OBVIOUS
  <1>0. IsFiniteSet(Registered) /\ Cardinality(Registered) \in Nat
    BY WorkflowSets, FS_Subset, FS_CardinalityType
  <1>1. TableRows
    BY DEF WorkflowInit, Table!TableInit, TableRows
  <1>2. StoreRows
    <2>1. PICK order \in [Registered -> 2 .. Cardinality(Registered) + 1] :
            resources = {[ref |-> d, object |-> d, owner |-> DirectoryOwner[d],
                          custom |-> FALSE, policy_revision |-> order[d]] : d \in Registered}
      BY Zenon DEF WorkflowInit
    <2>2. ASSUME NEW d \in Registered
          PROVE  [ref |-> d, object |-> d, owner |-> DirectoryOwner[d],
                  custom |-> FALSE, policy_revision |-> order[d]] \in Store!ResourceIntent
      <3>1. order[d] \in Nat /\ d \in Directories /\ DirectoryOwner[d] \in Uids
        BY <1>0, <2>1, WorkflowSets
      <3> QED BY <3>1 DEF Store!ResourceIntent
    <2>3. resources \subseteq Store!ResourceIntent
      BY <2>1, <2>2
    <2> QED BY <1>0, <2>3 DEF WorkflowInit, StoreRows
  <1>3. KernelRows
    BY WorkflowSets DEF WorkflowInit, KernelRows
  <1>4. BrokerRows
    <2>1. WorkerShape(worker)
      BY DEF WorkflowInit, WorkerShape, Idle
    <2>2. 1 \in Generations /\ 0 \in 0 .. MaxCrashes
      BY WorkflowLimits DEF Generations
    <2> QED BY <2>1, <2>2 DEF WorkflowInit, BrokerRows
  <1>5. Stored = {}
    BY DEF WorkflowInit, Stored
  <1>6. LedgerInv
    <2>1. \A o \in Ops : entries[o] = Table!Absent
      BY DEF WorkflowInit, Table!TableInit
    <2>2. Table!Absent.outcome = "Absent"
      BY DEF Table!Absent
    <2>3. worker.pc = "idle" /\ pending = {}
      BY DEF WorkflowInit, Idle
    <2> QED BY <1>5, <2>1, <2>2, <2>3 DEF LedgerInv, NoOrphanRunning, ApplySteps, ProviderSteps
  <1>7. worker.pc = "idle"
    BY DEF WorkflowInit, Idle
  <1>8. LogInv
    BY <1>0, <1>5, <1>7 DEF WorkflowInit, LogInv
  <1>9. KindInv /\ LoadInv
    BY <1>7 DEF KindInv, LoadInv
  <1>10. RecordInv
    BY <1>5 DEF RecordInv, WorkflowInit
  <1>11. LabelInv
    <2>1. \A d \in Registered : \E r \in resources : r.ref = d
      <3>1. PICK order \in [Registered -> 2 .. Cardinality(Registered) + 1] :
              resources = {[ref |-> d, object |-> d, owner |-> DirectoryOwner[d],
                            custom |-> FALSE, policy_revision |-> order[d]] : d \in Registered}
        BY Zenon DEF WorkflowInit
      <3>2. ASSUME NEW d \in Registered PROVE \E r \in resources : r.ref = d
        <4>1. [ref |-> d, object |-> d, owner |-> DirectoryOwner[d],
               custom |-> FALSE, policy_revision |-> order[d]] \in resources
          BY <3>1
        <4> QED BY <4>1
      <3> QED BY <3>2
    <2>2. LabelsAreJournaled
      BY <2>1 DEF WorkflowInit, LabelsAreJournaled
    <2> QED BY <1>7, <2>2 DEF LabelInv
  <1>12. KernelWithinReviewed /\ ResidualInv
    BY DEF WorkflowInit, KernelWithinReviewed, ResidualInv
  <1> QED BY <1>1, <1>2, <1>3, <1>4, <1>6, <1>8, <1>9, <1>10, <1>11, <1>12
          DEF WorkflowInv, Rows

\* Every step of every actor keeps the invariant.
LEMMA Inductive == ASSUME WorkflowInv, [WorkflowNext]_vars PROVE WorkflowInv'
  BY RowsInductive, LedgerInductive, LogInductive, KindInductive, RecordInductive,
     LabelInductive, KernelStaysReviewed, LoadInductive, ResidualInductive
     DEF WorkflowInv, Rows

\* The invariant holds in every reachable state.
LEMMA WorkflowInvariant == WorkflowSpec => []WorkflowInv
  <1> QED BY InitialState, Inductive, PTL DEF WorkflowSpec

\* A reviewed change is stored at most once, under a revision of its own, and a
\* stored change is never reported as withdrawn (workflow.rs apply, operations.rs).
THEOREM CommitsOnce == WorkflowSpec => []OneCommitPerReview
  <1>1. WorkflowInv => OneCommitPerReview
    BY DEF WorkflowInv, Rows, BrokerRows, LogInv, LedgerInv, OneCommitPerReview
  <1> QED BY <1>1, WorkflowInvariant, PTL

\* Work that shows as started is what the worker is doing (development_bus.rs).
THEOREM NothingOrphaned == WorkflowSpec => []NoOrphanRunning
  <1>1. WorkflowInv => NoOrphanRunning
    BY DEF WorkflowInv, LedgerInv
  <1> QED BY <1>1, WorkflowInvariant, PTL

\* Every allow rule in the kernel was reviewed by its owner and stored, after
\* any crash too (policy_execution.rs, managed_grant.rs).
THEOREM KernelIsReviewed == WorkflowSpec => []KernelWithinReviewed
  <1>1. WorkflowInv => KernelWithinReviewed
    BY DEF WorkflowInv
  <1> QED BY <1>1, WorkflowInvariant, PTL

\* No label without its journal, nothing live without deny rules and a verified
\* receipt, after any crash too (resource_labeling.rs).
THEOREM JournalComesFirst == WorkflowSpec => []LabelsAreJournaled
  <1>1. WorkflowInv => LabelsAreJournaled
    BY DEF WorkflowInv, LabelInv
  <1> QED BY <1>1, WorkflowInvariant, PTL

\* A rule that the policy no longer grants always has a stored revocation that
\* was not reported Completed, whatever crashed (workflow.rs apply).
THEOREM RevocationIsRemembered == WorkflowSpec => []ResidualInv
  <1>1. WorkflowInv => ResidualInv
    BY DEF WorkflowInv
  <1> QED BY <1>1, WorkflowInvariant, PTL

\* As long as the broker has not died, the table shows that revocation as in
\* progress or failed.
THEOREM ResidualReported ==
    ASSUME MaxCrashes = 0 PROVE WorkflowSpec => []ResidualIsReported
  <1>1. WorkflowInv => ResidualIsReported
    <2> SUFFICES ASSUME WorkflowInv, NEW u \in Uids, NEW g \in access[u] \ Desired
        PROVE  \E o \in Ops :
                 /\ review[o] # NoReview /\ review[o].kind = "RevokeGrant" /\ review[o].target = g
                 /\ entries[o].outcome \in {"Running", "Verifying", "Failed"}
      BY DEF ResidualIsReported
    <2>1. PICK o \in Stored : /\ review[o].kind = "RevokeGrant" /\ review[o].target = g
                              /\ entries[o].outcome \in {"Running", "Verifying", "Failed", "Absent"}
      BY DEF WorkflowInv, ResidualInv
    <2>2. crashes = 0
      BY DEF WorkflowInv, Rows, BrokerRows
    <2>3. o \in Ops /\ review[o] # NoReview /\ entries[o] # Table!Absent
      BY <2>2 DEF WorkflowInv, LedgerInv, Stored, Rows, BrokerRows
    <2>4. entries[o].outcome # "Absent"
      BY <2>3, AbsentOutcome DEF WorkflowInv, Rows, TableRows
    <2> QED BY <2>1, <2>3, <2>4
  <1> QED BY <1>1, WorkflowInvariant, PTL

\* An allow rule enters the kernel only while its own stored operation is being
\* applied (active_access, policy_execution.rs).
THEOREM ActivatedByItsOwn == WorkflowSpec => OnlyOwnOperationActivates
  <1>1. ASSUME WorkflowInv, [WorkflowNext]_vars
        PROVE  [\A u \in Uids : \A g \in access'[u] \ access[u] :
                  /\ worker.op = g /\ Owner(g) = u
                  /\ g \in Stored /\ g \in Desired
                  /\ entries[g].outcome = "Verifying"]_vars
    <2> USE <1>1 DEF WorkflowInv, Rows
    <2> SUFFICES ASSUME NEW u \in Uids, NEW g \in access'[u] \ access[u]
        PROVE  /\ worker.op = g /\ Owner(g) = u
               /\ g \in Stored /\ g \in Desired
               /\ entries[g].outcome = "Verifying"
      OBVIOUS
    <2>1. CASE UNCHANGED access
      BY <2>1
    <2>2. CASE /\ WorkerLoadAccess /\ worker.pc = "access" /\ GrantCurrent
               /\ access' = [access EXCEPT ![Owner(worker.op)] = worker.preserved \cup {worker.op}]
               /\ worker.preserved \subseteq access[Owner(worker.op)]
      <3>1. /\ worker.op \in Stored /\ Owner(worker.op) \in Uids /\ worker.op \in Desired
            /\ entries[worker.op].outcome = "Verifying"
        BY <2>2, AppliedGrant DEF ProviderSteps, GrantCurrent, Current, LedgerInv
      <3> QED BY <2>2, <3>1 DEF KernelRows
    <2>3. CASE /\ WorkerWithdraw /\ worker.pc = "withdraw"
               /\ \E kept \in SUBSET Preservable(NoOp) :
                    access' = [access EXCEPT ![Owner(worker.op)] = kept]
      <3>1. Owner(worker.op) \in Uids
        BY <2>3, AppliedGrant DEF ProviderSteps
      <3> QED BY <2>3, <3>1, PreservedWasLoaded DEF KernelRows
    <2> QED BY <2>1, <2>2, <2>3, AccessSteps
  <1> QED BY <1>1, WorkflowInvariant, PTL DEF WorkflowSpec, OnlyOwnOperationActivates

\* Only the provider's readback completes an operation.
LEMMA CompletedByReadback ==
    ASSUME TableRows, StoreRows, BrokerRows, LedgerInv, LogInv, [WorkflowNext]_vars, NEW o \in Ops,
           entries[o].outcome # "Completed", entries'[o].outcome = "Completed"
    PROVE  WorkerVerified /\ worker.op = o /\ worker.pc = "readback"
  <1>1. CASE UNCHANGED entries
    BY <1>1
  <1>2. ASSUME NEW a \in Actors, NEW p \in Ops, RequestCancel(a, p) PROVE FALSE
    BY <1>2, CancelChanges DEF RequestCancel, Changed
  <1>3. CASE WorkerTake
    <2>1. CASE entries' = Table!Swept
      BY <1>3, <2>1, IdleIsQuiet, SweepChanges DEF WorkerTake, At
    <2> QED BY <1>1, <1>3, <2>1 DEF WorkerTake
  <1>4. ASSUME NEW p \in Ops, WorkerReview(p) PROVE FALSE
    BY <1>4, ReviewInserts DEF Changed
  <1>5. CASE WorkerBegin
    <2>1. CASE Table!Begin(worker.op, Actor, revision, review[worker.op].generation)
      BY <1>5, <2>1, BeginChanges, WorkerFields DEF WorkerBegin, At, Changed
    <2> QED BY <1>1, <1>5, <2>1 DEF WorkerBegin, Current
  <1>6. CASE WorkerAcknowledge
    <2>1. worker.op \in Ops
      BY <1>6, WorkerFields DEF WorkerAcknowledge, At, ApplySteps
    <2> QED BY <1>6, <2>1, CommittedChanges DEF WorkerAcknowledge, Current, Changed, StoreRows
  <1>7. CASE WorkerFail
    <2>1. worker.op \in Ops /\ worker.reason \in Table!Failures
      BY <1>7, WorkerFields DEF WorkerFail, At, ApplySteps
    <2> QED BY <1>1, <1>7, <2>1, FailChanges DEF WorkerFail, Current, Changed
  <1>8. CASE WorkerVerified
    <2>1. worker.op \in Ops /\ worker.pc = "readback"
      BY <1>8, WorkerFields DEF WorkerVerified, At, ApplySteps, ProviderSteps
    <2> QED BY <1>8, <2>1, VerifiedChanges DEF WorkerVerified, Current, Changed
  <1>9. CASE Crash
    BY <1>9 DEF Crash, Table!Absent
  <1> QED BY <1>1, <1>2, <1>3, <1>4, <1>5, <1>6, <1>7, <1>8, <1>9, Frames

\* An operation is reported Completed only when the store, the labels and the
\* kernel say what was reviewed (workflow.rs apply, policy_execution.rs).
THEOREM CompletedMeansEffective == WorkflowSpec => CompletedIsEffective
  <1>1. ASSUME WorkflowInv, [WorkflowNext]_vars
        PROVE  [\A o \in Ops :
                 entries[o] # Table!Absent /\ entries[o].outcome # "Completed"
                   /\ entries'[o].outcome = "Completed" =>
                     LET r == review[o]  u == Owner(o) IN
                     /\ o \in Stored
                     /\ CASE r.kind = "Register" ->
                               /\ \E s \in resources : s.ref = r.target /\ s.owner = u
                               /\ journal[r.target] = "VERIFIED" /\ labels[r.target] = "target"
                               /\ r.target \in live \cap denied
                          [] r.kind = "ProposeGrant" -> o \in Desired \cap access[u]
                          [] OTHER -> r.target \notin Desired \cup access[u]]_vars
    <2> USE <1>1 DEF WorkflowInv, Rows
    <2> SUFFICES ASSUME NEW o \in Ops, entries[o].outcome # "Completed",
                        entries'[o].outcome = "Completed"
        PROVE  /\ o \in Stored
               /\ CASE review[o].kind = "Register" ->
                         /\ \E s \in resources : s.ref = review[o].target /\ s.owner = Owner(o)
                         /\ journal[review[o].target] = "VERIFIED"
                         /\ labels[review[o].target] = "target"
                         /\ review[o].target \in live \cap denied
                    [] review[o].kind = "ProposeGrant" -> o \in Desired \cap access[Owner(o)]
                    [] OTHER -> review[o].target \notin Desired \cup access[Owner(o)]
      OBVIOUS
    <2>1. worker.op = o /\ worker.pc = "readback"
      BY CompletedByReadback
    <2>2. o \in Stored /\ Reviewed(review[o])
      BY <2>1, CurrentReview DEF LedgerInv, ProviderSteps, ApplySteps
    <2>3. CASE review[o].kind = "Register"
      <3>1. review[o].target \in live /\ review[o].target \in Directories
        BY <2>1, <2>2, <2>3 DEF LabelInv, Reviewed, TargetsOf
      <3> QED BY <2>2, <2>3, <3>1 DEF LabelInv, LabelsAreJournaled, RecordInv
    <2>4. CASE review[o].kind = "ProposeGrant"
      BY <2>1, <2>2, <2>4 DEF LoadInv
    <2>5. CASE review[o].kind = "RevokeGrant"
      BY <2>1, <2>2, <2>5 DEF LoadInv
    <2>6. review[o].kind \in {"Register", "ProposeGrant", "RevokeGrant"}
      BY <2>2 DEF Reviewed, Review, Kinds
    <2> QED BY <2>3, <2>4, <2>5, <2>6
  <1> QED BY <1>1, WorkflowInvariant, PTL DEF WorkflowSpec, CompletedIsEffective

-----------------------------------------------------------------------------
(* The broker drives the table through its methods *)

\* No operation is stored twice, so there are no more revisions than operations.
LEMMA RevisionsAreBounded ==
    ASSUME Rows, LogInv
    PROVE  /\ revision \in 1 .. (Cardinality(Ops) + Cardinality(Registered) + 1)
           /\ \A o \in Stored : Reviewed(review[o]) =>
                review[o].rev + 1 \in 1 .. (Cardinality(Ops) + Cardinality(Registered) + 1)
  <1>1. /\ Cardinality(Ops) \in Nat /\ Cardinality(Registered) \in Nat
        /\ IsFiniteSet(Ops) /\ log \in Seq(Ops) /\ Len(log) \in Nat
    BY WorkflowSets, FS_Subset, FS_CardinalityType DEF Rows, BrokerRows
  <1>2. Len(log) <= Cardinality(Ops)
    <2>1. log \in Injection(1 .. Len(log), Ops)
      BY <1>1 DEF Injection, IsInjective, LogInv
    <2>2. Cardinality(1 .. Len(log)) = Len(log)
      <3>1. Cardinality(1 .. Len(log)) = IF 1 > Len(log) THEN 0 ELSE Len(log) - 1 + 1
        <4>1. 1 \in Int /\ Len(log) \in Int
          BY <1>1
        <4> QED BY <4>1, FS_Interval, Zenon
      <3> QED BY <1>1, <3>1
    <2> QED BY <1>1, <2>1, <2>2, FS_Injection DEF ExistsInjection
  <1>3. revision \in 1 .. (Cardinality(Ops) + Cardinality(Registered) + 1)
    BY <1>1, <1>2 DEF LogInv
  <1>4. ASSUME NEW o \in Stored, Reviewed(review[o])
        PROVE  review[o].rev + 1 \in 1 .. (Cardinality(Ops) + Cardinality(Registered) + 1)
    <2>1. review[o].rev \in Nat /\ review[o].rev + 1 <= revision
      BY <1>4 DEF Reviewed, Review, LogInv
    <2> QED BY <1>1, <1>3, <2>1
  <1> QED BY <1>3, <1>4

\* Every step but a crash is one call of the table's contract, or none.
LEMMA StepsOfTheTable ==
    ASSUME WorkflowInv, [WorkflowNext]_vars
    PROVE  [Table!TableNext]_(Table!tableVars) \/ Crash
  <1> USE DEF WorkflowInv, Rows
  <1>0. revision \in Table!Revisions
    BY RevisionsAreBounded DEF Table!Revisions
  <1>1. CASE Tick
    BY <1>1 DEF Tick, Table!TableNext
  <1>2. CASE UNCHANGED <<entries, now>>
    BY <1>2 DEF Table!tableVars
  <1>3. SUFFICES ASSUME UNCHANGED now, ~Crash, ~UNCHANGED entries PROVE Table!TableCall
    BY <1>1, <1>2, Frames DEF Table!TableNext
  <1> USE <1>3
  <1>4. ASSUME NEW a \in Actors, NEW o \in Ops, RequestCancel(a, o) PROVE Table!TableCall
    BY <1>4 DEF RequestCancel, Table!TableCall
  <1>5. CASE WorkerTake
    BY <1>5 DEF WorkerTake, Table!TableCall, Table!Expire
  <1>6. ASSUME NEW o \in Ops, WorkerReview(o) PROVE Table!TableCall
    <2>1. worker.job.actor \in Actors
      BY <1>6, WorkerFields DEF WorkerReview, At, Preparing, Job
    <2>2. PICK g \in Generations \cup {NoGeneration}, t \in 1 .. REVIEW_TIME :
            Table!Prepare(o, worker.job.actor, revision, g, t)
      BY <1>6, ReviewInserts
    <2> QED BY <1>0, <2>1, <2>2 DEF Table!TableCall
  <1>7. CASE WorkerBegin
    <2>1. /\ worker.op \in pending
          /\ Table!Begin(worker.op, Actor, revision, review[worker.op].generation)
      BY <1>7 DEF WorkerBegin, Current
    <2>2. worker.op \in Ops /\ Reviewed(review[worker.op])
      BY <2>1 DEF BrokerRows, LedgerInv
    <2>3. Actor \in Actors /\ review[worker.op].generation \in Generations \cup {NoGeneration}
      BY <2>2 DEF Actor, Current, Reviewed, Review
    <2> QED BY <1>0, <2>1, <2>2, <2>3 DEF Table!TableCall
  <1>8. worker.pc \in ApplySteps =>
          worker.op \in Ops /\ Actor \in Actors /\ Reviewed(review[worker.op])
    BY CurrentReview DEF Actor, Current, Reviewed, Review
  <1>9. CASE WorkerAcknowledge
    BY <1>0, <1>8, <1>9 DEF WorkerAcknowledge, At, Current, ApplySteps, Table!TableCall
  <1>10. CASE WorkerFail
    <2>1. worker.reason \in Table!Failures /\ Table!Fail(worker.op, Actor, worker.reason)
      BY <1>10, WorkerFields DEF WorkerFail, At, Current
    <2> QED BY <1>8, <1>10, <2>1 DEF WorkerFail, At, ApplySteps, Table!TableCall
  <1>11. CASE WorkerVerified
    <2>1. /\ worker.op \in Ops /\ worker.op \in Stored /\ Reviewed(review[worker.op])
          /\ Table!Verified(worker.op, review[worker.op].rev + 1, TRUE)
      BY <1>8, <1>11 DEF WorkerVerified, At, Current, ApplySteps, ProviderSteps, LedgerInv
    <2>2. review[worker.op].rev + 1 \in Table!Revisions
      BY <2>1, RevisionsAreBounded DEF Table!Revisions
    <2> QED BY <2>1, <2>2 DEF Table!TableCall
  <1> QED BY <1>4, <1>5, <1>6, <1>7, <1>9, <1>10, <1>11, Frames

\* Whatever the clients, the worker and the clock do, the table moves only by
\* its own methods, or is lost in a crash (development_bus.rs, operations.rs).
THEOREM TableOrCrash == WorkflowSpec => [][Table!TableNext \/ Crash]_(Table!tableVars)
  <1>1. ASSUME WorkflowInv, [WorkflowNext]_vars
        PROVE  [Table!TableNext \/ Crash]_(Table!tableVars)
    BY <1>1, StepsOfTheTable
  <1> QED BY <1>1, WorkflowInvariant, PTL DEF WorkflowSpec

\* The broker uses the table as OperationTable allows, so what is proved of the
\* table holds of its operations; a crash discards the table and starts over.
THEOREM DrivesTheTable ==
    ASSUME MaxCrashes = 0 PROVE WorkflowSpec => UsesOperationTable
  <1>1. WorkflowInit => Table!TableInit
    BY DEF WorkflowInit
  <1>2. WorkflowInv => ~Crash
    BY DEF WorkflowInv, Rows, BrokerRows, Crash
  <1> QED BY <1>1, <1>2, StepsOfTheTable, WorkflowInvariant, PTL
          DEF WorkflowSpec, UsesOperationTable, Table!TableSpec
=============================================================================
