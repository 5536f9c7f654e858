# GREYWARD: TLA+ models

GREYWARD is a hardened Fedora desktop. Its own logic is a set of Rust crates and
Python services (`security-center/`) and the enrollment scripts
(`packaging/greyward-enrollment/`). They decide what applications may do, scan
and quarantine files, keep network rules, DNS, updates, backups and evidence in
a known state, and admit logins to a protected seat. This directory holds TLA+
models of that logic, TLC configurations that check them on small instances, and
TLAPS proofs for every value of the constants. `PROJECT.json` lists the
components, runs, hazards, findings and theorems, and maps every definition that
models code to the lines it stands for.

## Inventory

Rust files are under `security-center/crates/greyward-application-security/src`,
Python files under `security-center/security-context/greyward_security_context`
unless a directory is given.

| Component | State | Operations | Hard behaviour | What makes it correct |
|---|---|---|---|---|
| Operation table (`operations.rs`) | up to 32 records: actor, revision, generation, deadline, outcome, committed revision | prepare, begin, failed, cancel, expire, stopped, committed, verified, forget | three callers in any order; deadlines between a commit and its acknowledgement | a result is true, final, never early; the table is bounded |
| Policy store (`store.rs`, `store_intent.rs`, `registry.rs`) | policy revision, resources, grants; application registry | compare-and-set commit of one change; reconcile one scope | stale reviews; limits; several owners in one database | every stored state can be read back; a revision belongs to one change |
| Policy broker and SELinux provider (`development_bus.rs`, `workflow.rs`, `policy_intent.rs`, `authorization.rs`, `policy_execution.rs`, `managed_grant.rs`, `resource_labeling.rs`) | reviews, job channel, job in progress; kernel modules, the files they are built from, label journal | previews, Apply, Cancel, sweep; activate, revoke, register, relabel, reopen | two threads, clients that exit, updated code, commands that fail after they worked, crash | a review is used once; Completed means enforced; only the reviewed operation activates its rule; journal before label |
| Network rules (`network_rules.py`, `network_rule_transactions.py`, `network_policy_service.py`, `network_firewall.py`) | policy file, journal, last good copy, reviews, undo, firewalld | prepare, apply, cancel, undo, recover, expire | authentication outside the lock; two stores; failing rollback; restarts of either side | policy and firewalld agree, or the journal says how to make them |
| OpenSnitch control plane (`control_plane.py`, `feodo.py`) | policy as last read, feed, recent connections | AskRule, Ping | four threads without a lock; unreadable policy | direct DNS stays blocked; one record of a connection |
| Secure DNS (`secure_dns_reconciler.py`, `secure_dns_split.py`) | snapshots of links, drop-in, status | reconcile, restore, set mode | several calls per link; links that change; death between calls | what was set can be undone |
| File security (`file_security.py`, `clamav*.py`, `scan_cache.py`) | scans, receipts, detections, quarantine objects, tokens in memory | start, cancel, quarantine, restore, delete | two services, one of which changes the home; files that change while scanned; restarts | the original goes only when a verified copy exists; a receipt describes scanned bytes |
| Arrival scanner (`arrival_scanner.py`) | queue, watermarks, walks, batch | observe, walk, scan | full queue, missed events, mounts, restarts | no arrival is forgotten |
| Update center (`update_center.py`, `update_center_bus.py`) | transaction, cached snapshot, evidence history | resolve, apply, cancel, restart, refresh | worker threads, a root helper, restarts of service and machine | a refresh ends; history goes forward |
| Recovery points (`recovery.py`), backup (`restic_backup.py`) | directories of snapshots; configuration and record of a repository | create, clean; configure, back up, verify, restore | deaths between snapshots; media that are exchanged | a complete point is kept; a record is about its repository |
| Security history (`telemetry.py`, `findings.py`, `local_activity.py`) | spool, events, findings, activity | import, prune, resolve, clear | import repeated after a crash | resolved stays resolved, cleared stays cleared |
| USB devices (`usbguard.py`, `usbguard_session.py`) | device rows, findings, an approval | list, review, allow, revoke | two threads synchronise the rows; USBGuard numbers devices again | findings follow the device table; an approval is of the device chosen |
| Notifications (`notification_router.py`, `shell_runtime.py`) | records, ledger, reminders | collect, reconcile, deliver, dismiss | three programs that restart independently | one reminder a day |
| Behavioural evidence (`intelligence.py`, `intelligence_service.py`, `sensor_health.py`) | cursor, evidence, incidents, coverage | follow the export, check coverage | rotation, truncation, death between evidence and cursor | loss is reported; active means recently verified |
| Session services (`user_bus.py`, `application_workflows.py`, `safe_open.py`, `persistence.py`) | leases, event cursor, document being opened, startup baseline | preview, apply, launch, open, scan | broker restarts during a call; overlapping scans | denials are kept; a change is not forgotten |
| Privacy capsule (`privacy_capsule.py`, `sensors.py`, `clipboard_watch.py`) | live signals, recent events | observe, refresh, clear | two refreshing threads, observers that end | live sources are shown |
| Account enrollment and migration (`packaging/greyward-enrollment/`) | transaction receipt, mappings, context file; installed desktop and policy | prepare, finish, roll back; migrate, undo | power loss between any two writes; logins meanwhile | rollback restores; undoing gives back what was there |
| Protected seat, administration (`security-center/packaging/application-security/desktop`, `administration`, `authentication`) | workers, guardian, receipt, console label; heartbeat and state file | start, verify, end; lock, challenge, pause, resume | files as messages, stale when read; killed workers | a seat starts empty; a lock is shown |
| Launches, enrollment and administration jobs of the broker, read-only broker, identity and policy text, backends, feeds, shell and interface, builds, image, tools | | | | not modelled, see below |

A client calls the broker over D-Bus. The dispatcher thread looks the operation
up in the table (shared under a mutex), answers reads and Cancel itself, and puts
Apply and the previews on a bounded channel for the single worker thread. The
session service (`user_bus.py`) holds one connection to the broker and forwards
requests; it also talks to the file-security service, which asks it to remove or
write files in the home. The control plane reads the policy file that the
network-rule service writes, and the Secure DNS status. Services write events to
a spool that the history imports; the notification router collects conditions
from all of them. Enrollment prepares what a seat starts from, migrations replace
it, and the administration terminal and the shell take turns on the seat through
two small files.

## Modules

### The broker

`OperationTable`: `operations.rs`, one action per method, `Tick` for the clock,
called in any order. `entries` maps each reference to a record or `Absent`. A
method that returns an error before it changes anything is a guard that is
false; `committed` and `verified`, which record a late answer and then return an
error, keep their effect. `Expire` is the whole sweep. `OperationPromise` is the
abstract specification: the life of one reviewed change as a client may rely on
it.

`PolicyStore`: the tables of the reviewed policy (`revision`, `resources`,
`grants`) and of the registry. `Changes(rev)` are the changes a client could have
reviewed against `rev`, current or stale, of any owner. An object stands for
boot, device, inode and owner together. SQLite transactions are atomic.

`PolicyWorkflow` composes the two with `INSTANCE`. The state of the worker is
`worker.pc`, one value for each place where another thread, the clock, a client
or a crash can come between two effects:

| `pc` | Code |
|---|---|
| `observe`, `review` | `preview_*`: capture installed code, hold the review, insert the record |
| `begin` | `apply` up to `code.revalidate` |
| `authorize`, `commit` | polkit; consume the ticket, validate again, store |
| `ack` | `OperationTable::committed` |
| `context`, `write`, `load`, `access` | `activate_read_grant`: truncate and write the subject types, load them, load the rules |
| `withdraw` | `revoke_recorded_read_grant` |
| `resource`, `journal`, `label`, `verify` | `register` and `apply_labels` |
| `check`, `readback` | `verify`, then `OperationTable::verified` |
| `fail` | the error arm of `apply` |

`access`, `contexts` and `denied` are what the kernel has loaded, as the sets of
grants and directories the CIL text stands for. A command may fail before it has
changed anything, or be reported as failed after it has. `Crash` loses the table,
the reviews, the channel and the job, keeps the database, files, labels and
kernel, and cuts a write in progress short. `log` is a history variable: the
operations in the order their change was stored.

### The services

Each module models one service with its own files or tables; what it gets from
another service is an input. Its state is named after the code's, its actions
after the functions, cut where another thread, process or a death can come
between two effects.

| Module | State | Actions beside the plain operations |
|---|---|---|
| `Quarantine` | the file at its path, detection row, vault object and manifest, the tokens in memory, transfer and staging files, both services' calls and the mailbox between them | restart of the service, reboot, user changes to the files, retention |
| `FileScans` | file version, definitions, scan rows, cancel tokens, the locals of `_run`, receipts | cancel and restart anywhere, interrupted scans reconciled, file or definitions change |
| `ArrivalScanner` | change times, mounts, events, walks, `arrivals`, `watermarks`, the batch in flight, what a walk passed over | missed events, full queue, a listing that breaks off or meets a limit, a pass that fails, restart |
| `NetworkRules` | policy file, last good copy, firewalld's entries by plane, reviews, undo, the holder of the lock | entry-by-entry replacement, failing save and rollback, death, recovery, firewalld restart, damaged file |
| `ControlPlane` | the saved rules, what the engine last read, the feed | unreadable file, engine restart; `select_policy_rule` is an operator |
| `ConnectionActivity` | the shared list, each thread's report | look, prune, keep by four threads; restart |
| `SecureDns` | desired mode, link, both snapshots, drop-in, resolved's scope and pending reload, the step of the pass | the link changes, a call fails or the service dies between any two |
| `UpdateCenter` | transaction, worker threads, boot, offline update and its results, refresh threads | service stops, machine restarts, automatic update, late signals |
| `UpdateHistory` | installed versions (two branches may share an id), recorded version per id, history file, overlapping snapshots | reads and writes apart, up- and downgrades, death |
| `RecoveryPoints` | snapshots and metadata of each point, the helpers | failure and death between any two snapshots |
| `Backup` | configuration, repository per destination, attached media, record, the running helpers | media change, repository replaced, death |
| `Telemetry` | spool, stored ids, the finding's row, migration marker | repeated import, lost spool, retention |
| `DeviceHistory` | rows, findings, what each synchronising thread has selected | select and transaction apart, two threads, a failing transaction |
| `DeviceApproval` | USBGuard's numbering and rules, the connection an approval names | USBGuard restarts, devices come and go between check and action |
| `LocalActivity` | items, import marker | import, prune and clear in any order |
| `Notifications` | server and its signals, runtime, router, ledger, reminders file | each of server, session and router restarts; failing saves; an answer that comes too late |
| `ShellMigration` | installed release, desktop files with the shell directory's mode and receipt, loaded policy, broker, seat, the running migration | login, failure or death between any two commit or undo steps |
| `SensorReader` | export files, database and open transaction, counts in memory, the reader | append in part, rotate between any two of its looks, truncate, die |
| `SensorCoverage` | probes, health, heartbeat | late answers, gaps, failing rounds |
| `SessionWorkflows` | broker life, denials, leases and cursor, session history, document being opened | broker dies before, during or after a call; audit log rotates; the store refuses; a call without the lock overlaps a read; session restarts |
| `StartupChanges` | file versions, baseline, temporary file, two scans | overlap over one temporary file, expiry, failing write, session end between open, write and replace |
| `Enrollment` | SELinux mapping, receipt, origins, sudoers, context file and trees, running command | death between any two steps; an administrator maps accounts |
| `SeatSession` | workers, guardian, receipt, tty label, running start | owner or worker exits, scope killed, start stopped by its timeout, a cleanup that stops half way |
| `Administration` | the shell's lock and challenge, heartbeat, state file, holder of the session lock, worker, terminal | either file stale, worker ended or killed |
| `PrivacyCapsule` | PipeWire graph, monitor, portal, clipboard, sensors, two refreshing threads, capsule, notices | monitor, portal and observer end, failing refresh, fields written one by one |

`MCFiles`, `MCNetwork`, `MCServices` and `MCSessions` put several services into
one run. The services share no variable at this level, so a behaviour of all is
an interleaving of one of each and no property speaks of two: a variable `part`,
chosen at the start, says which service a behaviour is about, and the others stay
as they began. This is a disjoint union, not a composition; the modules that
do interact through shared state (table, store and broker) are composed in
`PolicyWorkflow`.

The modules have a few operators marked `Fault` beside the code: plausible bugs.
Each property of a passing run is known to fail when one of them replaces the
definition it stands before.

## Runs

| Run | Shows | States |
|---|---|---|
| `operation_table` | results are true and never early; the table implements `OperationPromise` | 132 036 |
| `policy_store` | every stored state is readable, one change per revision | 14 384 |
| `policy_workflow` | no crash: one commit per review, no orphaned work, Completed is effective, residual rules are reported, the broker uses the table only through its methods | 1 712 226 |
| `policy_workflow_crash` | one crash, three operations: the kernel stays within what was reviewed; only the own operation activates | 349 708 |
| `policy_workflow_progress` | registration and grant with a crash: journal before label; started work ends | 270 624 |
| `files` | detected content survives in at least one place until the user or a deletion removes it; what is called quarantined is held; a receipt of selected files describes scanned bytes; no arrival in the home is forgotten that a walk could list; a scan's result is final | FILES |
| `network` | firewalld follows the policy or its journal; a change is saved only on the policy that was reviewed; direct DNS stays blocked; the global DNS scope has its drop-in and the journal no server of our own | NETWORK |
| `services` | fourteen services, thirteen properties (below) | SERVICES |
| `sessions` | rollback restores every account; a seat starts empty; a lock is eventually shown; live sources are eventually shown | SESSIONS |
| `contexts_retained`, `revocation_residual`, `quarantine_retention` | violated, findings 1 to 3 | |

`services` checks for the update center that the refresh flag never outlives its
thread (`RefreshNotStuck`) and that the history names no version that was not
installed and none against the order of time (`EvidenceGoesForward`); a complete
recovery point is kept until newer complete ones replace it
(`CompletePointKept`); a backup record is about the repository it names
(`RecordIsOfItsRepository`); a resolved finding stays so when old events are
imported again (`ResolvedStaysResolved`); device findings follow the device
table, although two threads write it (`FindingsFollowDevices`); cleared activity
stays cleared (`ClearedStaysCleared`); a reminder comes a day after one whose
time was saved (`OneReminderADay`); an undone migration leaves what was there
(`UndoneIsAsBefore`); sensor records are stored or reported as lost
(`LossIsReported`); active coverage was verified recently
(`ShownActiveIsRecent`); denials are kept across broker restarts
(`DenialsAreKept`); a startup change is presented, pending or dropped by a scan
(`ChangeIsNotForgotten`).

Where the code loses something that its texts promise to keep, the property of
the run names the loss and says that there is no other, and the promise itself is
stated beside it and fails (findings 21 to 31). A history variable holds what was
lost in the named way: `passedOver` (arrivals a walk could not list or hold, or
that could not be examined), `overtaken` (device rows), `seen.left`,
`seen.skipped`, `seen.ignored` and `seen.regrown` (sensor records),
`kept.refused` and `session.foreign` (denials), `dropped` (startup changes),
`delivered.lost` (the time of a reminder).

Bounds. The limits of the code (32 records, 16 active grants, 32 subject types,
channel of 8, arrival queue of 8192 and so on) are constants, set to 1 to 3 so that each
is reached. In `operation_table` three operations compete for two slots and the
clock passes both kinds of deadline in every phase. In `policy_store` six
revisions are enough to register, grant, revoke, remove and register again with
both tables full. In the workflow runs two operations give every pair that can
interfere; three add the one that comes after a failure or a crash, four the one
that comes after a failure after a revocation. In `files` two quarantine ids, two
scans of one file with two versions and two definition generations, and one file
in the home and one on a volume with a queue of one. In `network` a permanent, a
timed, a boot and an application rule, two reviews, four policy revisions, three
saved policies for the control plane, five networks
(two plain on one interface index, one on another, one with split DNS, one VPN)
and two providers. In `services` two of everything that can overlap (workers,
refreshes, snapshots, scans, devices, destinations, repositories), one recovery
helper and four points of which two are kept, a day of two ticks, three exports
of which one is kept behind the current, two restarts of USBGuard's numbering,
one reference for the leases, two recent startup changes. In `sessions` two
accounts, three logins, two administration requests and two changes of screen
shares that compete for one place in the list (`MAX_SHOWN`, eight in the code). `MaxGeneration`, `MaxTime`,
`MaxExits`, `MaxCrashes`, `MaxClock` and the like bound the environment.

Two bounds leave something out on purpose. `Overlap = FALSE` keeps `configure`
apart from other backup operations, though it takes no lock (finding 11), and
the run has one recovery helper and two retained points, though nothing keeps two
helpers apart (`LastPointIsKept` is proved for as many as the code's retention
bears). Both are listed as hazards.

Symmetry is over interchangeable references and used in no run with a liveness
property. Deadlock is not checked in the runs whose environment is bounded: when
references, time and clients are used up, a service waits.

Fairness. `FairWorkflowSpec` assumes that the worker thread continues when it can
and that the clock runs: it is one loop that blocks on the channel only, its
commands run under `timeout` and polkit's answer is waited for with a deadline.
All other fairness is weak too. `AdministrationFairness` is that of the lock's
binding (`BindingFollows`), the shell's one-second timer (`RetryLock`,
`WriteReadiness`), the steps of terminal and worker (each wait has a deadline of
a few seconds), the renewal of the state file and its running out once nobody
renews it. A retry is one that the binding makes: during a challenge there is
none, and `LockIsShown` excepts a challenge that was denied the seat. No fairness
on locking, unlocking, challenges, kills or requests. `CapsuleFairness` is that
of the collector's timer, the main loop and the monitor's thread. A refresh may
fail for ever: nothing assumes that a source which raises stops doing so, and
`SourcesAreShown` speaks of the times when none does and of uses that fit the
list. Nothing forces a use to start, a monitor to stop or a user to copy.
`SessionsSpec` gives each part the fairness of its module.

Stated beside the runs' properties, and true on the same instances: the type
invariant of every module, `RestartVerified` (`UpdateCenter`),
`FindingsFollowEvidence` (`Telemetry`), `CompleteIsOfTheChosenDevice`
(`DeviceApproval`), and, proved too,
`UserLockSurvives` (`Administration`), `OneActiveScan` (`FileScans`),
`LeasesAreOfTheirBroker` (`SessionWorkflows`), `MappedIsOnRecord` (`Enrollment`),
`RetentionBounded`, `FinalResultsStand` and `RevisionsOnlyAdvance`.

## Findings

With a run that shows them:

1. `install` truncates the file of retained subject types in place. After a write
   that fails, the next grant loads a module without the revoked types, which the
   comment at `policy_execution.rs:298` rules out.
2. A crash between a stored revocation and its withdrawal leaves the kernel rules
   loaded, and neither the policy nor the table shows it (`workflow.rs:569`).
3. Retention deletes the scan operation of a quarantined object after 30 days,
   and with it the owner's right to restore or delete it (`telemetry.py:636`).

Stated as a property that fails in its module's own specification (the constants
in brackets suffice; quotes are in `PROJECT.json`):

4. `RetentionMakesRoom` (`PolicyWorkflow`): `forget` has no caller; after 32
   previews none succeeds until the broker restarts.
5. `MountedArrivalIsNotForgotten` (`ArrivalScanner`): files waiting on a volume
   that is unmounted are not scanned when it comes back.
6. `EveryReceiptIsTruthful` (`FileScans`): in a directory the fingerprint is
   taken from the path after the scanned descriptor is opened.
7. `NetworkDefaultIsTheNetworks` (`SecureDns`): a half-applied override of a link
   without a snapshot survives the return to Network Default.
8. `ShownOnce` (`ConnectionActivity`): two threads may show one connection twice.
9. `ClosedAfterReboot` (`UpdateCenter`): three active phases are not closed after
   a reboot.
10. `ValidPointsRetained` (`RecoveryPoints`): a failing cleanup marks the new,
    valid point failed.
11. `RecordIsOfItsRepository` [`Overlap = TRUE`] (`Backup`): configure takes no
    lock.
12. `EscalationIsShown` [`Conditions = {"incident"}`] (`Notifications`): an
    escalation that meets a failing server stays silent.
13. `AssemblyCanBeRepeated` (`Enrollment`): a partial context file stops every
    later attempt.
14. `CommitsOnQuietDesktop` [`MaxRelease = 1`] (`ShellMigration`): a login during
    the assembly is not noticed.
15. `ConsoleCanBeRecovered` [`MaxLogin = 2`] (`SeatSession`): recovery refuses
    exactly when the guardian was killed.
16. `AdministrationNeverUnlocks` [`MaxAdministrations = 1`] (`Administration`): a
    lock younger than the last heartbeat is released when a terminal starts.
17. `FailingIsNotActive` (`SensorCoverage`): a failing reader is shown as active
    between failures.
18. `ClearedHasEnded` [microphone, `MaxChanges = 2`] and 19. `OneNoticePerUse`
    [microphone, `MaxChanges = 3`] (`PrivacyCapsule`): a stopped monitor clears a
    use that goes on; an older observation applied late repeats a notice.
20. `EmittedOnce` (`StartupChanges`): two overlapping scans emit one change.

The same with the constants of the run that its module is in:

21. `EveryHomeArrivalIsScanned` (`ArrivalScanner`): the watermark moves past what
    a failed listing or a limit kept a walk from seeing.
22. `BootRulesEnd` (`NetworkRules`): recovery after a reboot in the middle of a
    change loads the boot rule again.
23. `NoTransitionIsInvented` (`UpdateHistory`): two branches of a Flatpak share an
    id, and the history has one replace the other.
24. `GoneDeviceIsHistory` (`DeviceHistory`): of two overlapping listings the
    slower one leaves a gone device its unresolved finding.
25. `RotationLossIsReported` (`SensorReader`): a rotation between stat, successor
    and open leaves records behind without a gap.
26. `DenialsEnterHistory` (`SessionWorkflows`): the cursor passes a denial that
    the store refused.
27. `ChangeIsEmitted` (`StartupChanges`): a change is dropped after five minutes,
    presented or not.
28. `RemindersAreADayApart` (`Notifications`): a reminder whose answer was late is
    shown again the same day.
29. `ShellIsGivenBack` (`ShellMigration`): the shell is restored with the backup's
    mode 0700.
30. `ChallengeIsShown` (`Administration`): a challenge denied the seat never asks
    for it again.
31. `MissingMonitorIsUnavailable` (`PrivacyCapsule`): while another source raises,
    a lost monitor is shown as it was.

Read in the code, with no property of their own: `_unlink_verified_source`
(`file_security.py:263`) verifies a descriptor and unlinks by path;
`load_policy`'s fallback (`control_plane.py:141`) still allows the stub and
managed DNS a user rule denied; the tty label is restored in a `finally` that a
start killed at `RuntimeMaxSec` never reaches (`desktop/session.py:362`).

## Proofs

`OperationTableProofs` proves for any sets of operations, actors and generations
and any limits: `TypeCorrect`, `Truthful`, `NeverEarly`, `ResultsStand`,
`Bounded` and `Refinement` (`TableSpec => Promise!PromiseSpec`). `ResultTruthful`
is not inductive alone: a late acknowledgement is truthful only because an entry
whose expiry was requested is CancelRequested, which is part of `ExpiryIsReal`.
`TruthInv == TableTypeOK /\ ResultTruthful /\ ExpiryIsReal` is inductive. The
argument goes through one entry at a time: `StepOfEntry` and `StepOfAbsent` say
what any step may do to one entry, `EntryStaysTruthful` that this keeps it
truthful, and the refinement reads the same facts as a step of the promise.
`Bounded` counts the tracked references and uses `FiniteSetTheorems`.

`PolicyStoreProofs` proves `StoreTypeCorrect`, `Readable`, `UniqueRevisions` and
`Monotone`. The inductive invariant `StoreInv` joins the type, the finiteness of
both tables, `StoreReadable` and `OneChangePerRevision`: a new record's revision
is unique only because all stored ones are at most the current revision, which
is a part of `StoreReadable`. The lemmas follow the kinds of change:
`CommitByKind` and `StepByKind` split a step, and `GrantKeepsReadable`,
`RegistrationKeepsReadable` and `RemovalKeepsReadable` treat them. The proofs
assume what the modules state as assumptions about the constants: finite sets,
an owner and a provider for each installation, natural limits.

`PolicyWorkflowProofs` proves for any operations, clients, limits and crashes
`CommitsOnce`, `NothingOrphaned`, `KernelIsReviewed`, `JournalComesFirst`,
`ActivatedByItsOwn`, `CompletedMeansEffective`, `RevocationIsRemembered` and
`TableOrCrash`. None of the properties is inductive: each depends on how far the
worker has come. `WorkflowInv` joins the shape of the state (`Rows`); what table,
held reviews and log say of one another (`LedgerInv`, with the outcome an
operation has at each step of the worker); that every stored operation is in the
log once and counts for one revision (`LogInv`); that the provider's steps are
those of the kind of change (`KindInv`) and each record what its operation stored
(`RecordInv`); how far labelling and loading have come (`LabelInv`, `LoadInv`);
and `ResidualInv`, that a rule which outlives its grant has a stored revocation
that was not reported as Completed. A lemma per group of steps shows that it is
kept; the table's methods and the store's transactions enter through a few lemmas
on what they change. `ResidualReported` and `DrivesTheTable` (the refinement of
`OperationTable`) assume `MaxCrashes = 0`: a crash empties the table, which is
not a step of it, and with it what the table shows (finding 2). `TableOrCrash`
and `RevocationIsRemembered` say what is left with crashes.

`FilesProofs` proves `ContentIsKept` and `QuarantineIsReal` (`QuarantineInv`: every
name that any of the two services, the mailbox, the database or a token has for a
vault object is of one that holds the detected bytes, at each step at which a
reply may come late or the service restart); `ReceiptsTellTheTruth`,
`ScansAreSerial` and `ResultsAreFinal` (`ScanInv`: the locals of each worker agree
with its row and with the bytes it has scanned, and two workers are not active at
once); `HomeIsCovered` (`ArrivalInv`: a walk that has read its directory has every
older arrival among its entries, or handled or passed over, so the watermark may
advance).

`NetworkProofs` proves `FirewallFollows` and `NoLostUpdate` for any rules, reviews
and expiries. `NetworkInv` says what the journal is good for: outside its records
firewalld agrees with the policy, inside them everything that may be there is
known (`FirewallInv`; boot rules of an earlier boot apart), and half-way through a replacement what is left to remove
and to add is all that is wrong (`ApplyInv`); a review is of the policy of its
revision, and an undo of an application rule leaves the incoming ones alone
(`ReviewsInv`). `DnsIsManaged` is about the decision itself, for every list of
rules, in whichever copy the engine reads, policy and threat list being of one
read (`ControlInv`), and `DnsPolicyIsKept`
states it for the composed module the run checks. `ResolverIsRecorded` needs
`DnsInv`: there is a journal while providers are tried and while a link has one of
ours, so such a link is never the one that is journaled.

`ServicesProofs` has an invariant per service: `FindingsFollow` (`DeviceInv`: a
known device whose finding a transaction does not derive again was not listed, and
is as it was or overtaken), `ActiveIsRecent` (`CoverageInv`: what was
active was so when it was checked, and the check is not ahead of the clock),
`RecordsAreTrue` (`BackupInv`), `DenialsAreNotLost` and `LeasesEndWithTheirBroker`
(`SessionInv`: beyond `foreign` the cursor is of the pinned broker, and an adapter
never takes a later broker for it), `HistoryGoesForward` (`HistoryInv`: records and
snapshots in progress name installed versions, and what a snapshot collected was
installed no earlier than what it compares with), `ChangesAreRemembered` (`StartupInv`: baseline, temporary file and each
scan in progress remember every change, or dropped it), `LossesAreReported`
(`SensorInv`: what lies behind a position of the reader is in the evidence, in the
committed gap, or one of the named silent losses). `RecordsAreTrue` assumes
`Overlap = FALSE`, as the run does (finding 11).

`MaintenanceProofs`: `NeverStuck` (`RefreshInv`; `OthersClear` says that every other
action leaves the flag, or clears it) and `ClearedForGood` (`LocalInv`: numbers of
shown and cleared items are below the next one, and nothing was cleared before
the import, which is why `clear` imports first). `ReplayCannotReopen`
(`HistoryTimes`, and `GreatestOf`: a bounded set of numbers has a greatest one).
`RemindersAreDaily` (`ReminderInv`: unless its time was lost, to a failing save or a
late answer, file and router have the time of the last reminder). `LastPointIsKept` is proved for any number of points
and of processes below `KEEP_POINTS`, so for two at once with the three that the
code retains, where the run has one. Its invariant `BackedInv`: every valid point
is complete and in nobody's plan, or older than one that is complete, in nobody's
plan and nobody's to mark as failed. Planning keeps it because more newer points
than processes are left: one of them is nobody's (`SurplusIsBacked`), and the
newest such point is never surplus (`NewestIsRetained`).

`SessionProofs`: `RollbackIsTrue` and `MappingIsRecorded` (`EnrollmentInv`: the
receipt is written before the first mapping changes and remembers what was there,
whatever command is repeated after a death), `SeatIsEmpty` (`SeatInv`: without a
receipt no worker of an admitted seat is alive, and a start lets workers go only
before it has one), `UndoGivesBack` (`MigrationInv`: what an undoing still has to
write includes everything that is not as it was, and `UndoesWhatItCommits`: the
two lists have the same members for each kind of migration; the shell directory
is as found unless the migration replaces it), `LockIsKept`
(`NativeInv`: a challenge keeps the session locked while it runs).

Beside the hypotheses named here, the theorems use the `ASSUME`s of the modules,
which TLC evaluates in the runs: natural or positive limits, finite sets of files
and rules, positive interface indexes, provider names that are not networks.

Model-checked only: liveness (`StartedWorkEnds`, `LockIsShown`, `SourcesAreShown`),
which is out of the prover's reach, and the violated properties of the findings.
Every other property of a passing run is a theorem.

## Not modelled, and the plan

Left out for good: text generation and parsing (CIL, QML, provider output),
hashing, package queries, audit parsing, feeds and lookups, presentation, build
scripts, image, vendored code. These have no state of their own, or are I/O whose
result is an input of a module here.

Left out of the broker: its launch jobs (`reviewed_launch.rs`,
`isolated_launch.rs`, `payload.rs`, `private_display.rs`) and the Rust side of
enrollment and administration, which read prepared files and spawn the workers
that `SeatSession` and `Administration` model. A launch as the session sees it is
in `SessionWorkflows`. Smaller omissions are in the notes of the components in
`PROJECT.json`.

Next, proofs of what is stated beside the runs: `FindingsFollowEvidence`,
`CompleteIsOfTheChosenDevice` and `RestartVerified`.
