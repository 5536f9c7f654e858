--------------------------- MODULE PolicyWorkflow ---------------------------
(***************************************************************************)
(* The broker that turns a reviewed change into enforced policy: the D-Bus  *)
(* dispatcher and the single policy worker (development_bus.rs), the        *)
(* reviews it holds and the apply transaction (workflow.rs,                 *)
(* policy_intent.rs, authorization.rs), and the SELinux provider that loads *)
(* the change into the kernel and reads it back (policy_execution.rs,       *)
(* managed_grant.rs, resource_labeling.rs).  It composes OperationTable and *)
(* PolicyStore.                                                             *)
(*                                                                          *)
(* Actors: the dispatcher thread, which answers Cancel and queues Apply and *)
(* preview jobs; the worker thread, which runs one job at a time in the     *)
(* steps of its pc; clients that may exit; package updates that replace the *)
(* installed code; the clock; and a crash of the broker process, which      *)
(* loses everything but the store, the label journal, the files and the     *)
(* kernel.                                                                  *)
(*                                                                          *)
(* A call that returns an error before it changes anything is no step of    *)
(* the dispatcher.  In the worker it ends the job, which is a step.         *)
(***************************************************************************)
EXTENDS Naturals, Sequences, FiniteSets

CONSTANTS
    Ops,              \* operation references; a grant is named by its operation
    Actors,           \* client executions
    Uids,
    ActorUid,         \* [Actors -> Uids]
    Directories,      \* directories a client may register
    DirectoryOwner,   \* [Directories -> Uids]
    Registered,       \* directories registered and verified in an earlier life
    NoGeneration, NotInstalled, NoOp, Torn,
    MAX_OPERATIONS,   \* 32 in the code
    MAX_PENDING,      \* 32 in the code, per owner
    MAX_ACTIVE,       \* 16 in the code: grants, of all owners, that may be active
    MAX_CONTEXTS,     \* 32 in the code: subject types ever retained per owner
    QUEUE,            \* 8 in the code
    REVIEW_TIME,      \* 100 s in the code
    WAIT,             \* 6 s in the code
    TICKET_LEASE,     \* 5 s in the code
    MaxGeneration,    \* bound: replacements of the reviewed tool's code
    MaxTime,          \* bound on the clock
    MaxExits,         \* bound on client executions that end
    MaxCrashes        \* bound on crashes of the broker

Generations == 1 .. MaxGeneration

ASSUME WorkflowSets ==
    /\ IsFiniteSet(Ops) /\ IsFiniteSet(Directories) /\ NoOp \notin Ops
    /\ ActorUid \in [Actors -> Uids] /\ DirectoryOwner \in [Directories -> Uids]
    /\ Registered \subseteq Directories
    /\ NoGeneration \notin Generations /\ NotInstalled \notin Generations
ASSUME WorkflowLimits ==
    /\ {MAX_OPERATIONS, MAX_PENDING, MAX_ACTIVE, MAX_CONTEXTS, QUEUE, REVIEW_TIME,
        WAIT, TICKET_LEASE, MaxTime, MaxExits, MaxCrashes} \subseteq Nat
    /\ MaxGeneration \in Nat \ {0}

VARIABLES
    entries, now,                             \* OperationTable
    revision, resources, grants, registry,    \* PolicyStore
    journal,       \* resource_label_journal: the phase of each directory
    labels,        \* the labels of a directory's objects on disk
    denied,        \* directories whose deny rules are loaded in the kernel
    access,        \* [Uids -> set of grants]: allow rules loaded in the kernel
    contexts,      \* [Uids -> set of grants]: subject types loaded in the kernel
    contextFile,   \* [Uids -> set of grants]: subject types in <context>.cil
    live,          \* live_resources: directories whose labels were verified
    installed,     \* [Uids -> Generations]: the reviewed tool's code on disk
    alive,         \* client executions that still exist
    review,        \* [Ops -> the review drawn under this reference]
    pending,       \* operations whose review the workflow still holds
    queue,         \* the bounded job channel
    worker,        \* the job in progress
    log,           \* history: operations in the order their change was stored
    crashes

\* One reviewed tool per owner is enough: an installation is its owner.
\* Registration previews expire when their lease does, hence the interval.
Table == INSTANCE OperationTable WITH
    ReviewTimes <- 1 .. REVIEW_TIME,
    MaxRevision <- Cardinality(Ops) + Cardinality(Registered) + 1

\* The limits of 2000 records are PolicyStore's subject and are out of reach
\* here; so is the inventory counter, which a preview reads and uses at once.
Store == INSTANCE PolicyStore WITH
    ResourceRefs <- Directories, Objects <- Directories, GrantRefs <- Ops,
    Installations <- Uids, InstallationOwner <- [u \in Uids |-> u],
    Providers <- {"Rpm"}, InstallationProvider <- [u \in Uids |-> "Rpm"],
    MAX_POLICY_RESOURCES <- 2000, MAX_POLICY_GRANTS <- 2000,
    MAX_INSTALLATION_GRANTS <- 32, MAX_APPLICATIONS <- 2000,
    MaxRevision <- 2000, MaxInventory <- 0, inventory_revision <- 0

policyVars == <<revision, resources, grants>>
kernelVars == <<denied, access, contexts>>
fileVars == <<journal, labels, contextFile, live>>
clientVars == <<installed, alive>>
vars == <<entries, now, policyVars, registry, kernelVars, fileVars, clientVars,
          review, pending, queue, worker, log, crashes>>

-----------------------------------------------------------------------------

Kinds == {"Register", "ProposeGrant", "RevokeGrant"}
NoReview == [kind |-> "None"]

Review ==
    [kind : Kinds, actor : Actors, target : Ops \cup Directories, rev : Nat,
     generation : Generations \cup {NoGeneration}, deadline : Nat, told : BOOLEAN]

Job ==
    [kind : Kinds \cup {"Apply"}, actor : Actors, target : Ops \cup Directories,
     rev : Nat, deadline : Nat]

\* pc is where the worker stands; op is NoOp until the job is an Apply.
Idle == [pc |-> "idle", op |-> NoOp]
Steps == {"begin", "authorize", "commit", "ack", "context", "write", "load", "access",
          "withdraw", "resource", "journal", "label", "verify", "check", "readback"}

Desired == {g.ref : g \in grants}
GrantOf(o) == CHOOSE g \in grants : g.ref = o
Owner(o) == ActorUid[review[o].actor]

\* The IntentChange a review holds.  Nothing on the bus removes a resource, so
\* whether it is a custom one makes no difference.
ChangeOf(o, r) ==
    LET uid == ActorUid[r.actor] IN
    CASE r.kind = "Register" ->
           [kind |-> "Register",
            record |-> [ref |-> r.target, object |-> r.target, owner |-> uid,
                        custom |-> FALSE, policy_revision |-> r.rev + 1]]
      [] r.kind = "ProposeGrant" ->
           [kind |-> "ProposeGrant",
            record |-> [ref |-> o, owner |-> uid, installation |-> uid,
                        generation |-> r.generation, resources |-> {r.target},
                        policy_revision |-> r.rev + 1]]
      [] OTHER -> [kind |-> "RevokeGrant", ref |-> r.target]

WorkflowTypeOK ==
    /\ Table!TableTypeOK
    /\ revision \in Nat
    /\ resources \subseteq Store!ResourceIntent
    /\ grants \subseteq Store!GrantIntent
    /\ registry \in [Uids -> Generations \cup {NotInstalled}]
    /\ journal \in [Directories -> {"None", "PREPARED", "APPLIED", "VERIFIED", "FAILED"}]
    /\ labels \in [Directories -> {"original", "partial", "target"}]
    /\ denied \subseteq Directories /\ live \subseteq Directories
    /\ access \in [Uids -> SUBSET Ops] /\ contexts \in [Uids -> SUBSET Ops]
    /\ \A u \in Uids : contextFile[u] = Torn \/ contextFile[u] \subseteq Ops
    /\ installed \in [Uids -> Generations] /\ alive \subseteq Actors
    /\ \A o \in Ops : review[o] = NoReview \/ review[o] \in Review
    /\ pending \subseteq Ops
    /\ \A i \in DOMAIN queue : queue[i] \in Job
    /\ Len(queue) <= QUEUE
    /\ worker.pc \in {"idle", "observe", "review", "fail"} \cup Steps
    /\ worker.op \in Ops \cup {NoOp}
    /\ \A i \in DOMAIN log : log[i] \in Ops
    /\ crashes \in 0 .. MaxCrashes

\* A broker started over a store that earlier lives left behind.
WorkflowInit ==
    /\ Table!TableInit
    /\ revision = Cardinality(Registered) + 1
    /\ \E order \in [Registered -> 2 .. Cardinality(Registered) + 1] :
         /\ \A c, d \in Registered : order[c] = order[d] => c = d
         /\ resources = {[ref |-> d, object |-> d, owner |-> DirectoryOwner[d],
                          custom |-> FALSE, policy_revision |-> order[d]] : d \in Registered}
    /\ grants = {}
    /\ registry = [u \in Uids |-> NotInstalled]
    /\ journal = [d \in Directories |-> IF d \in Registered THEN "VERIFIED" ELSE "None"]
    /\ labels = [d \in Directories |-> IF d \in Registered THEN "target" ELSE "original"]
    /\ denied = Registered /\ live = Registered
    /\ access = [u \in Uids |-> {}]
    /\ contexts = [u \in Uids |-> {}]
    /\ contextFile = [u \in Uids |-> {}]
    /\ installed = [u \in Uids |-> 1]
    /\ alive = Actors
    /\ review = [o \in Ops |-> NoReview]
    /\ pending = {} /\ queue = <<>> /\ worker = Idle
    /\ log = <<>> /\ crashes = 0

-----------------------------------------------------------------------------
(* The dispatcher thread *)

Enqueue(job) == Len(queue) < QUEUE /\ queue' = Append(queue, job)

\* A preview request carries the revision the client has just read; it may be
\* stale by the time the worker comes to it.
RequestPreview(a, kind, target) ==
    /\ a \in alive
    /\ Enqueue([kind |-> kind, actor |-> a, target |-> target,
                rev |-> revision, deadline |-> now + WAIT])
    /\ UNCHANGED <<entries, now, policyVars, registry, kernelVars, fileVars, clientVars,
                   review, pending, worker, log, crashes>>

\* A client knows only the references it was told in time.
Known(a, o) ==
    /\ a \in alive
    /\ Table!Owned(o, a)
    /\ review[o].told

\* Apply is answered at once with the current result and queued; nothing stops
\* a client from queueing it twice.
RequestApply(a, o) ==
    /\ Known(a, o)
    /\ entries[o].outcome = "Pending"
    /\ Enqueue([kind |-> "Apply", actor |-> a, target |-> o,
                rev |-> review[o].rev, deadline |-> now + REVIEW_TIME])
    /\ UNCHANGED <<entries, now, policyVars, registry, kernelVars, fileVars, clientVars,
                   review, pending, worker, log, crashes>>

RequestCancel(a, o) ==
    /\ Known(a, o)
    /\ entries[o].outcome = "Pending"
    /\ Table!Cancel(o, a)
    /\ UNCHANGED <<now, policyVars, registry, kernelVars, fileVars, clientVars,
                   review, pending, queue, worker, log, crashes>>

-----------------------------------------------------------------------------
(* The worker thread: taking a job, and reviews *)

At(pc) == worker.pc = pc
Goto(pc) == worker' = [worker EXCEPT !.pc = pc]
Stop == worker' = Idle
Abandon(reason) == worker' = [pc |-> "fail", op |-> worker.op, reason |-> reason]

\* workflow.expire on the reviews of one owner, after the table was swept.
Retained(uid) ==
    {o \in pending : Owner(o) = uid =>
        review[o].deadline > now /\ Table!Swept[o].outcome = "Pending"}

\* A job that waited too long, or whose client is gone, is dropped before the
\* sweep.  Otherwise the sweep comes first, then the request.
WorkerTake ==
    /\ At("idle") /\ queue # <<>>
    /\ LET j == Head(queue) IN
       IF now >= j.deadline \/ j.actor \notin alive
         THEN UNCHANGED <<entries, pending, worker>>
         ELSE /\ entries' = Table!Swept
              /\ pending' = Retained(ActorUid[j.actor])
              /\ worker' = IF j.kind = "Apply"
                             THEN [pc |-> "begin", op |-> j.target]
                             ELSE [pc |-> IF j.kind = "ProposeGrant" THEN "observe" ELSE "review",
                                   op |-> NoOp, job |-> j,
                                   lease |-> now + REVIEW_TIME, generation |-> NoGeneration]
    /\ queue' = Tail(queue)
    /\ UNCHANGED <<now, policyVars, registry, kernelVars, fileVars, clientVars,
                   review, log, crashes>>

\* lease: capacity for one more held review, and the revision is current.
LeaseGranted(j) ==
    /\ Cardinality({o \in pending : Owner(o) = ActorUid[j.actor]}) < MAX_PENDING
    /\ revision = j.rev

\* preview_read_grant captures the installed code and reconciles the registry
\* with it before the review is made.
WorkerObserve ==
    /\ At("observe")
    /\ LET u == ActorUid[worker.job.actor] IN
       /\ LeaseGranted(worker.job)
       /\ Cardinality(grants) < MAX_ACTIVE
       /\ registry' = [registry EXCEPT ![u] = installed[u]]
       /\ worker' = [worker EXCEPT !.pc = "review", !.generation = installed[u]]
    /\ UNCHANGED <<entries, now, policyVars, kernelVars, fileVars, clientVars,
                   review, pending, queue, log, crashes>>

\* The review held for operation o: a revocation carries the generation of the
\* grant it withdraws.
NewReview(j) ==
    [kind |-> j.kind, actor |-> j.actor, target |-> j.target, rev |-> j.rev,
     generation |-> IF j.kind = "RevokeGrant" THEN GrantOf(j.target).generation
                                              ELSE worker.generation,
     deadline |-> worker.lease, told |-> now < j.deadline]

\* A registration expires with its lease, the others REVIEW_TIME after the
\* review was made; an answer after the job's deadline is never sent.
WorkerReview(o) ==
    /\ At("review")
    /\ LET j == worker.job
           u == ActorUid[j.actor]
           expires == IF j.kind = "Register" THEN worker.lease - now ELSE REVIEW_TIME
       IN
       /\ j.actor \in alive
       /\ now < worker.lease
       /\ LeaseGranted(j)
       /\ j.kind = "Register" => DirectoryOwner[j.target] = u
       /\ j.kind = "RevokeGrant" => Store!ValidRevocation(u, j.target)
       /\ Store!validate_change(u, j.rev, ChangeOf(o, NewReview(j)))
       /\ review[o] = NoReview
       /\ Table!CanPrepare(o)
       /\ entries' = Table!Inserted(entries, o, j.actor, j.rev, NewReview(j).generation, expires)
       /\ review' = [review EXCEPT ![o] = NewReview(j)]
    /\ pending' = pending \cup {o}
    /\ Stop
    /\ UNCHANGED <<now, policyVars, registry, kernelVars, fileVars, clientVars,
                   queue, log, crashes>>

\* Any check or system call of a preview may fail: an error reply, nothing kept.
WorkerRefuse ==
    /\ worker.pc \in {"observe", "review"}
    /\ Stop
    /\ UNCHANGED <<entries, now, policyVars, registry, kernelVars, fileVars, clientVars,
                   review, pending, queue, log, crashes>>

-----------------------------------------------------------------------------
(* The worker thread: apply *)

Current == worker.op
Actor == review[Current].actor
CodeUnchanged(o) == review[o].kind = "ProposeGrant" => installed[Owner(o)] = review[o].generation

\* PolicyIntentReview::revalidate
Revalidated(o) ==
    /\ now < review[o].deadline
    /\ review[o].actor \in alive
    /\ Store!validate_change(Owner(o), review[o].rev, ChangeOf(o, review[o]))

\* Fault: the table is not asked whether the operation may begin.
BeginUnasked ==
    /\ At("begin")
    /\ IF Current \in pending
         THEN /\ entries' = [entries EXCEPT ![Current].outcome = "Running"]
              /\ IF CodeUnchanged(Current) /\ Revalidated(Current)
                   THEN Goto("authorize") ELSE Abandon("ReadbackFailed")
         ELSE UNCHANGED entries /\ Stop
    /\ pending' = pending \ {Current}
    /\ UNCHANGED <<now, policyVars, registry, kernelVars, fileVars, clientVars,
                   review, queue, log, crashes>>

\* Fault: the table refuses to begin the operation and is not listened to.
BeginRefusalIgnored ==
    /\ At("begin")
    /\ IF Current \in pending
         THEN /\ Table!Begin(Current, Actor, revision, review[Current].generation)
                   \/ /\ ~Table!CanBegin(Current, Actor, revision, review[Current].generation)
                      /\ UNCHANGED entries
              /\ IF CodeUnchanged(Current) /\ Revalidated(Current)
                   THEN Goto("authorize") ELSE Abandon("ReadbackFailed")
         ELSE UNCHANGED entries /\ Stop
    /\ pending' = pending \ {Current}
    /\ UNCHANGED <<now, policyVars, registry, kernelVars, fileVars, clientVars,
                   review, queue, log, crashes>>

\* The review is transferred out of pending exactly once; begin may still
\* refuse, because the client cancelled since the job was taken.
WorkerBegin ==
    /\ At("begin")
    /\ LET held == Current \in pending /\ Actor \in alive
           begun == held /\ Table!CanBegin(Current, Actor, revision, review[Current].generation)
       IN
       /\ pending' = IF held THEN pending \ {Current} ELSE pending
       /\ IF begun
            THEN /\ Table!Begin(Current, Actor, revision, review[Current].generation)
                 /\ IF CodeUnchanged(Current) /\ Revalidated(Current)
                      THEN Goto("authorize") ELSE Abandon("ReadbackFailed")
            ELSE UNCHANGED entries /\ Stop
    /\ UNCHANGED <<now, policyVars, registry, kernelVars, fileVars, clientVars,
                   review, queue, log, crashes>>

\* Polkit asks the owner; the ticket outlives neither its lease nor the review.
Least(m, n) == IF m < n THEN m ELSE n

WorkerAuthorize ==
    /\ At("authorize")
    /\ \/ /\ Actor \in alive /\ now < review[Current].deadline
          /\ worker' = [pc |-> "commit", op |-> Current,
                        ticket |-> Least(now + TICKET_LEASE, review[Current].deadline)]
       \/ Abandon("AuthorizationRequired")
    /\ UNCHANGED <<entries, now, policyVars, registry, kernelVars, fileVars, clientVars,
                   review, pending, queue, log, crashes>>

\* The ticket is consumed, everything is validated again and the change stored.
WorkerCommit ==
    /\ At("commit")
    /\ now < worker.ticket
    /\ Revalidated(Current)
    /\ Store!commit_intent_change(Owner(Current), review[Current].rev,
                                  ChangeOf(Current, review[Current]))
    /\ log' = Append(log, Current)
    /\ worker' = [pc |-> "ack", op |-> Current]
    /\ UNCHANGED <<entries, now, kernelVars, fileVars, clientVars,
                   review, pending, queue, crashes>>

WorkerCommitRefused ==
    /\ At("commit")
    /\ Abandon(IF now < worker.ticket THEN "ReadbackFailed" ELSE "AuthorizationRequired")
    /\ UNCHANGED <<entries, now, policyVars, registry, kernelVars, fileVars, clientVars,
                   review, pending, queue, log, crashes>>

\* A commit that is late for its operation is recorded and goes no further.
WorkerAcknowledge ==
    /\ At("ack")
    /\ Table!Committed(Current, revision)
    /\ worker' = IF entries'[Current].outcome = "Failed" THEN Idle
                 ELSE [pc |-> CASE review[Current].kind = "Register" -> "resource"
                                [] review[Current].kind = "ProposeGrant" -> "context"
                                [] OTHER -> "withdraw",
                       op |-> Current]
    /\ UNCHANGED <<now, policyVars, registry, kernelVars, fileVars, clientVars,
                   review, pending, queue, log, crashes>>

\* Fault: the error of apply is logged and not recorded.
FailUnrecorded ==
    /\ At("fail")
    /\ Stop
    /\ UNCHANGED <<entries, now, policyVars, registry, kernelVars, fileVars, clientVars,
                   review, pending, queue, log, crashes>>

\* failed() refuses to rewrite a terminal result and its refusal is ignored.
WorkerFail ==
    /\ At("fail")
    /\ IF entries[Current].outcome \in {"Running", "Verifying"}
         THEN Table!Fail(Current, Actor, worker.reason) ELSE UNCHANGED entries
    /\ Stop
    /\ UNCHANGED <<now, policyVars, registry, kernelVars, fileVars, clientVars,
                   review, pending, queue, log, crashes>>

\* Reported as read back under the revision that was committed.
WorkerVerified ==
    /\ At("readback")
    /\ Table!Verified(Current, review[Current].rev + 1, TRUE)
    /\ Stop
    /\ UNCHANGED <<now, policyVars, registry, kernelVars, fileVars, clientVars,
                   review, pending, queue, log, crashes>>

-----------------------------------------------------------------------------
(* The worker thread: the kernel provider *)

\* DevelopmentKernelProvider::actor
ProviderReady == Actor \in alive /\ now < review[Current].deadline

\* Fault: the status of the provider's commands is not looked at.
ProviderStatusIgnored ==
    /\ worker.pc \in {"context", "load", "access", "withdraw", "resource", "journal", "check"}
    /\ worker' = [pc |-> "readback", op |-> Current]
    /\ UNCHANGED <<entries, now, policyVars, registry, kernelVars, fileVars, clientVars,
                   review, pending, queue, log, crashes>>

\* A provider step that fails before it has changed anything.
WorkerProviderFails ==
    /\ worker.pc \in {"context", "load", "access", "withdraw", "resource", "journal", "check"}
    /\ Abandon("ReadbackFailed")
    /\ UNCHANGED <<entries, now, policyVars, registry, kernelVars, fileVars, clientVars,
                   review, pending, queue, log, crashes>>

\* semodule may also fail, or be reported as failed, after the module is loaded.
Loaded(pc) == Goto(pc) \/ Abandon("ReadbackFailed")

\* Fault: every recorded grant is loaded again, whether it was active or not.
PreserveRecorded(excluded) ==
    {g.ref : g \in {g \in grants : g.owner = Owner(Current) /\ g.ref # excluded}}

\* active_access keeps the owner's other recorded grants whose rules it reads
\* back as live; a readback that fails counts as not live.
Preservable(excluded) ==
    {o \in access[Owner(Current)] : o \in Desired /\ o # excluded}

\* ReviewedReadGrant::prepare and revalidate
GrantCurrent ==
    /\ Current \in Desired
    /\ GrantOf(Current).policy_revision = revision
    /\ registry[Owner(Current)] = review[Current].generation
    /\ installed[Owner(Current)] = review[Current].generation

\* contexts() reads the retained types; install then truncates the file ...
WorkerContext ==
    /\ At("context")
    /\ ProviderReady /\ GrantCurrent
    /\ Cardinality(grants) <= MAX_ACTIVE
    /\ LET u == Owner(Current) IN
       /\ contextFile[u] # Torn
       /\ Cardinality(contextFile[u] \cup {Current}) <= MAX_CONTEXTS
       /\ \E preserved \in SUBSET Preservable(Current) :
            worker' = [pc |-> "write", op |-> Current, preserved |-> preserved,
                       types |-> contextFile[u] \cup {Current}]
       /\ contextFile' = [contextFile EXCEPT ![u] = {}]
    /\ UNCHANGED <<entries, now, policyVars, registry, kernelVars, journal, labels, live,
                   clientVars, review, pending, queue, log, crashes>>

\* ... and writes it: a full disk leaves it empty or cut short.
WorkerWrite ==
    /\ At("write")
    /\ LET u == Owner(Current) IN
       \/ /\ contextFile' = [contextFile EXCEPT ![u] = worker.types]
          /\ worker' = [pc |-> "load", op |-> Current, preserved |-> worker.preserved]
       \/ /\ \E left \in {{}, Torn} : contextFile' = [contextFile EXCEPT ![u] = left]
          /\ Abandon("ReadbackFailed")
    /\ UNCHANGED <<entries, now, policyVars, registry, kernelVars, journal, labels, live,
                   clientVars, review, pending, queue, log, crashes>>

\* Fault: only the file of subject types is written, the module is not loaded.
ContextsNotLoaded ==
    /\ At("load")
    /\ Goto("access")
    /\ UNCHANGED <<entries, now, policyVars, registry, kernelVars, fileVars, clientVars,
                   review, pending, queue, log, crashes>>

\* A module whose removal of a type leaves an allow rule without its subject
\* does not link, so semodule refuses it.
WorkerLoadContexts ==
    /\ At("load")
    /\ LET u == Owner(Current) IN
       /\ access[u] \subseteq contextFile[u]
       /\ contexts' = [contexts EXCEPT ![u] = contextFile[u]]
    /\ Loaded("access")
    /\ UNCHANGED <<entries, now, policyVars, registry, denied, access, fileVars, clientVars,
                   review, pending, queue, log, crashes>>

WorkerLoadAccess ==
    /\ At("access")
    /\ ProviderReady /\ GrantCurrent
    /\ access' = [access EXCEPT ![Owner(Current)] = worker.preserved \cup {Current}]
    /\ Loaded("check")
    /\ UNCHANGED <<entries, now, policyVars, registry, denied, contexts, fileVars, clientVars,
                   review, pending, queue, log, crashes>>

\* A revocation reloads the rules to preserve, or removes the module when there
\* are none, which fails when no module is loaded.
WorkerWithdraw ==
    /\ At("withdraw")
    /\ ProviderReady
    /\ revision = review[Current].rev + 1
    /\ \E preserved \in SUBSET Preservable(NoOp) :
         /\ preserved = {} => access[Owner(Current)] # {}
         /\ access' = [access EXCEPT ![Owner(Current)] = preserved]
         /\ \/ worker' = [pc |-> "check", op |-> Current, preserved |-> preserved]
            \/ Abandon("ReadbackFailed")
    /\ UNCHANGED <<entries, now, policyVars, registry, denied, contexts, fileVars, clientVars,
                   review, pending, queue, log, crashes>>

\* verify_active or verify(active = false), and verify of what was preserved.
WorkerCheck ==
    /\ At("check")
    /\ ProviderReady
    /\ worker.preserved \subseteq access[Owner(Current)]
    /\ IF review[Current].kind = "ProposeGrant"
         THEN GrantCurrent /\ Current \in access[Owner(Current)]
         ELSE review[Current].target \notin Desired \cup access[Owner(Current)]
    /\ worker' = [pc |-> "readback", op |-> Current]
    /\ UNCHANGED <<entries, now, policyVars, registry, kernelVars, fileVars, clientVars,
                   review, pending, queue, log, crashes>>

\* register: the owner's whole denial program is reloaded first.
WorkerDeny ==
    /\ At("resource")
    /\ ProviderReady
    /\ revision = review[Current].rev + 1
    /\ denied' = denied \cup {r.ref : r \in {r \in resources : r.owner = Owner(Current)}}
    /\ Loaded("journal")
    /\ UNCHANGED <<entries, now, policyVars, registry, access, contexts, fileVars, clientVars,
                   review, pending, queue, log, crashes>>

\* The original labels are journaled before the first one is changed.
Directory == review[Current].target

\* Fault: labelling starts without its journal.
LabelUnjournaled ==
    /\ At("journal")
    /\ ProviderReady
    /\ Goto("label")
    /\ UNCHANGED <<entries, now, policyVars, registry, kernelVars, fileVars,
                   clientVars, review, pending, queue, log, crashes>>

WorkerJournal ==
    /\ At("journal")
    /\ ProviderReady
    /\ journal[Directory] = "None"
    /\ journal' = [journal EXCEPT ![Directory] = "PREPARED"]
    /\ Goto("label")
    /\ UNCHANGED <<entries, now, policyVars, registry, kernelVars, labels, contextFile, live,
                   clientVars, review, pending, queue, log, crashes>>

\* Some objects, the others, then the journal: the broker may die or fail
\* between any two.
WorkerLabel ==
    /\ At("label")
    /\ ProviderReady
    /\ \/ /\ labels[Directory] # "target"
          /\ labels' = [labels EXCEPT ![Directory] =
                          IF @ = "original" THEN "partial" ELSE "target"]
          /\ UNCHANGED <<journal, worker>>
       \/ /\ labels[Directory] = "target"
          /\ journal' = [journal EXCEPT ![Directory] = "APPLIED"]
          /\ Goto("verify")
          /\ UNCHANGED labels
    /\ UNCHANGED <<entries, now, policyVars, registry, kernelVars, contextFile, live,
                   clientVars, review, pending, queue, log, crashes>>

\* Only a receipt revalidated against the labels on disk becomes live, if the
\* held root can be duplicated.
WorkerReceipt ==
    /\ At("verify")
    /\ ProviderReady
    /\ labels[Directory] = "target"
    /\ journal' = [journal EXCEPT ![Directory] = "VERIFIED"]
    /\ \/ live' = live \cup {Directory} /\ Goto("readback")
       \/ UNCHANGED live /\ Abandon("ReadbackFailed")
    /\ UNCHANGED <<entries, now, policyVars, registry, kernelVars, labels, contextFile,
                   clientVars, review, pending, queue, log, crashes>>

\* A labelling that fails marks its journal FAILED, if the store still can.
WorkerLabelFails ==
    /\ worker.pc \in {"label", "verify"}
    /\ \E phase \in {journal[Directory], "FAILED"} :
         journal' = [journal EXCEPT ![Directory] = phase]
    /\ Abandon("ReadbackFailed")
    /\ UNCHANGED <<entries, now, policyVars, registry, kernelVars, labels, contextFile, live,
                   clientVars, review, pending, queue, log, crashes>>

-----------------------------------------------------------------------------
(* The environment *)

Tick ==
    /\ Table!Tick
    /\ UNCHANGED <<entries, policyVars, registry, kernelVars, fileVars, clientVars,
                   review, pending, queue, worker, log, crashes>>

ClientExit(a) ==
    /\ a \in alive /\ Cardinality(Actors \ alive) < MaxExits
    /\ alive' = alive \ {a}
    /\ UNCHANGED <<entries, now, policyVars, registry, kernelVars, fileVars, installed,
                   review, pending, queue, worker, log, crashes>>

\* A package update: a held descriptor of the old code never revalidates again.
UpdateCode(u) ==
    /\ installed[u] < MaxGeneration
    /\ installed' = [installed EXCEPT ![u] = @ + 1]
    /\ UNCHANGED <<entries, now, policyVars, registry, kernelVars, fileVars, alive,
                   review, pending, queue, worker, log, crashes>>

\* The broker dies and starts again.  A write in progress may be cut short;
\* directories that are VERIFIED in the journal are reopened if they can be.
Crash ==
    /\ crashes < MaxCrashes
    /\ crashes' = crashes + 1
    /\ entries' = [o \in Ops |-> Table!Absent]
    /\ pending' = {} /\ queue' = <<>> /\ worker' = Idle
    /\ live' \in SUBSET {d \in Directories : journal[d] = "VERIFIED" /\ labels[d] = "target"}
    /\ contextFile' \in
         IF At("write") THEN {[contextFile EXCEPT ![Owner(Current)] = left] : left \in {{}, Torn}}
                        ELSE {contextFile}
    /\ UNCHANGED <<now, policyVars, registry, kernelVars, journal, labels, clientVars, review, log>>

-----------------------------------------------------------------------------

\* Requests that name what the client can see; it may be gone when they run.
Dispatcher ==
    \E a \in Actors :
      \/ \E d \in Directories :
           LET known == \E r \in resources : r.ref = d IN
           \/ ~known /\ RequestPreview(a, "Register", d)
           \/ known /\ RequestPreview(a, "ProposeGrant", d)
      \/ \E o \in Ops :
           \/ o \in Desired /\ RequestPreview(a, "RevokeGrant", o)
           \/ RequestApply(a, o)
           \/ RequestCancel(a, o)

Worker ==
    \/ WorkerTake \/ WorkerObserve \/ (\E o \in Ops : WorkerReview(o)) \/ WorkerRefuse
    \/ WorkerBegin \/ WorkerAuthorize \/ WorkerCommit \/ WorkerCommitRefused
    \/ WorkerAcknowledge \/ WorkerFail \/ WorkerVerified \/ WorkerProviderFails
    \/ WorkerContext \/ WorkerWrite \/ WorkerLoadContexts \/ WorkerLoadAccess
    \/ WorkerWithdraw \/ WorkerCheck
    \/ WorkerDeny \/ WorkerJournal \/ WorkerLabel \/ WorkerReceipt \/ WorkerLabelFails

Environment ==
    \/ Tick
    \/ \E a \in Actors : ClientExit(a)
    \/ \E u \in Uids : UpdateCode(u)
    \/ Crash

WorkflowNext == Dispatcher \/ Worker \/ Environment

WorkflowSpec == WorkflowInit /\ [][WorkflowNext]_vars

\* The worker thread is never stopped: whatever it does next, it does.  Nobody
\* owes the broker a request, and the clock runs.
FairWorkflowSpec == WorkflowSpec /\ WF_vars(Worker) /\ WF_vars(Tick)

-----------------------------------------------------------------------------
(* Properties *)

Stored == {log[i] : i \in DOMAIN log}

\* "No unjournaled success": an operation is reported Completed only when the
\* store and the kernel both say what was reviewed, whatever exits, updates,
\* crashes and deadlines came between the steps of apply.
CompletedIsEffective ==
    [][\A o \in Ops :
         entries[o] # Table!Absent /\ entries[o].outcome # "Completed"
           /\ entries'[o].outcome = "Completed" =>
             LET r == review[o]  u == Owner(o) IN
             /\ o \in Stored
             /\ CASE r.kind = "Register" ->
                       /\ \E s \in resources : s.ref = r.target /\ s.owner = u
                       /\ journal[r.target] = "VERIFIED" /\ labels[r.target] = "target"
                       /\ r.target \in live \cap denied
                  [] r.kind = "ProposeGrant" -> o \in Desired \cap access[u]
                  [] OTHER -> r.target \notin Desired \cup access[u]]_vars

\* A review is used once: two queued Apply calls, a cancellation that races the
\* worker or an expiry never store a change twice, and a change that is stored
\* is never reported as not started, cancelled or expired.
OneCommitPerReview ==
    /\ \A i, j \in DOMAIN log : log[i] = log[j] => i = j
    /\ revision = 1 + Cardinality(Registered) + Len(log)
    /\ \A o \in Stored :
         entries[o].outcome \notin {"Pending", "Cancelled", "Expired", "CancelRequested"}

\* "Desired records from a failed operation must never be activated by someone
\* else's later authorization" (active_access): an allow rule enters the kernel
\* only while its own, stored and unfinished operation is being applied.
OnlyOwnOperationActivates ==
    [][\A u \in Uids : \A g \in access'[u] \ access[u] :
         /\ worker.op = g /\ Owner(g) = u
         /\ g \in Stored /\ g \in Desired
         /\ entries[g].outcome = "Verifying"]_vars

\* "Only an authenticated owner": what the kernel allows was reviewed by that
\* owner and stored, and its subject type is loaded with it.
KernelWithinReviewed ==
    \A u \in Uids : \A g \in access[u] :
      /\ g \in Stored /\ review[g].kind = "ProposeGrant" /\ Owner(g) = u
      /\ g \in contexts[u]

\* "A successful database revoke without successful kernel denial is failure":
\* while the kernel still allows what the policy no longer grants, the table
\* shows the revocation in progress or failed.
ResidualIsReported ==
    \A u \in Uids : \A g \in access[u] \ Desired :
      \E o \in Ops :
        /\ review[o] # NoReview /\ review[o].kind = "RevokeGrant" /\ review[o].target = g
        /\ entries[o].outcome \in {"Running", "Verifying", "Failed"}

\* "Journal original metadata before the first mutation", "journal loading
\* cannot produce this type": no object is relabelled before its journal
\* exists, and a directory counts as live only with its deny rules loaded, its
\* labels applied and its journal VERIFIED - after any crash too.
LabelsAreJournaled ==
    \A d \in Directories :
      /\ labels[d] # "original" => journal[d] # "None" /\ d \in denied
      /\ d \in live => journal[d] = "VERIFIED" /\ labels[d] = "target" /\ d \in denied
      /\ journal[d] # "None" => \E r \in resources : r.ref = d

\* The one worker is the only thread that starts work, and it sweeps only
\* between jobs: work that shows as started is being worked on, and no started
\* operation is ever left waiting for an acknowledgement of cancellation.
NoOrphanRunning ==
    \A o \in Ops :
      /\ entries[o].outcome \in {"Running", "Verifying"} => worker.op = o /\ worker.pc # "begin"
      /\ entries[o].outcome # "CancelRequested"

\* "Keep revoked subject types installed": loading the module for a new grant
\* never drops a type that a process may still run under.
ContextsRetained == [][\A u \in Uids : contexts[u] \subseteq contexts'[u]]_vars

\* Work that was started ends in a result, or is lost with the broker.
StartedWorkEnds ==
    \A o \in Ops :
      entries[o].outcome \in {"Running", "Verifying"}
        ~> entries[o].outcome \in Table!Terminal \cup {"Absent"}

\* "Retention is bounded; only terminal records may be removed": a table that
\* is full of finished operations makes room for new ones.
RetentionMakesRoom ==
    (\A o \in Table!Tracked : entries[o].outcome \in Table!Terminal)
      ~> Cardinality(Table!Tracked) < MAX_OPERATIONS

\* The broker drives the table only through its methods: every step of the
\* threads is a step of OperationTable (a crash, which discards the table,
\* aside).
UsesOperationTable == Table!TableSpec
=============================================================================
