----------------------------- MODULE UpdateCenter -----------------------------
(***************************************************************************)
(* The update center (update_center_bus.py) with its privileged helper      *)
(* (bin/greyward-update-action): one transaction record, written by worker  *)
(* threads, D-Bus methods and signals of the DNF daemon, kept in a file     *)
(* over a restart of the service and of the machine; and the cached         *)
(* snapshot of the providers with its refresh threads.                      *)
(***************************************************************************)
EXTENDS Naturals, Sequences, FiniteSets, SequencesExt

CONSTANTS
    Workers,      \* slots of worker threads
    Refreshers,   \* slots of refresh threads
    MaxBoots      \* bound: how often the machine restarts

ASSUME UpdateConstants == MaxBoots \in Nat /\ IsFiniteSet(Workers) /\ IsFiniteSet(Refreshers)

VARIABLES
    txn,          \* _transaction, and the same in transaction.json
    worker,       \* each worker thread: what it runs and where it is
    up,           \* whether the service runs
    boot,         \* the boot id
    offline,      \* whether an offline transaction is stored (/system-update)
    history,      \* results of offline runs since started_at, oldest first
    refresher,    \* each refresh thread
    refreshing    \* _snapshot_refreshing

updateVars == <<txn, worker, up, boot, offline, history, refresher, refreshing>>

-----------------------------------------------------------------------------

TERMINAL_PHASES == {"COMPLETE", "CANCELLED", "FAILED", "READY_TO_RESTART"}
ACTIVE_PHASES ==
    {"RESOLVING", "AUTHENTICATING", "DOWNLOADING", "CHECKPOINTING", "PREPARING_RESTART",
     "UPDATING_APPLICATIONS", "UPDATING_FIRMWARE", "RESTARTING"}

\* The phases reconcile_transaction looks at.
Reconciled ==
    {"AUTHENTICATING", "RESOLVING", "DOWNLOADING", "CHECKPOINTING", "PREPARING_RESTART",
     "RESTARTING", "READY_TO_RESTART"}

NoWork == [runs |-> "nothing", at |-> "end", system |-> FALSE]
Run(kind, at) == [runs |-> kind, at |-> at, system |-> FALSE]

UpdateTypeOK ==
    /\ txn \in [phase : ACTIVE_PHASES \cup TERMINAL_PHASES \cup {"IDLE", "RESOLVED"},
                dnf : BOOLEAN, restart : BOOLEAN, cancellable : BOOLEAN, boot : 0 .. MaxBoots]
    /\ worker \in [Workers -> [runs : {"nothing", "resolve", "apply", "restart"},
                               at : {"end", "begin", "authenticate", "checkpoint", "prepare", "others", "optional", "finish"},
                               system : BOOLEAN]]
    /\ up \in BOOLEAN /\ boot \in 0 .. MaxBoots /\ offline \in BOOLEAN
    /\ history \in Seq({"ok", "error"})
    /\ refresher \in [Refreshers -> {"none", "started", "collecting"}] /\ refreshing \in BOOLEAN

UpdateInit ==
    /\ txn = [phase |-> "IDLE", dnf |-> FALSE, restart |-> FALSE, cancellable |-> FALSE, boot |-> 0]
    /\ worker = [w \in Workers |-> NoWork] /\ up = TRUE /\ boot = 0
    /\ offline = FALSE /\ history = <<>>
    /\ refresher = [r \in Refreshers |-> "none"] /\ refreshing = FALSE

Active == txn.phase \in ACTIVE_PHASES

\* set_transaction: a terminal phase cannot be cancelled.
Phase(t, phase) ==
    [t EXCEPT !.phase = phase, !.boot = boot,
              !.cancellable = @ /\ phase \notin TERMINAL_PHASES]

WorkerDone(w) == worker' = [worker EXCEPT ![w] = NoWork]
Goes(w, at) == worker' = [worker EXCEPT ![w].at = at]

-----------------------------------------------------------------------------
(* The D-Bus methods and signals, on the main thread.                       *)

\* start_operation: resolve, apply and apply_all begin a new record.
StartOperation(w) ==
    /\ up /\ ~Active /\ worker[w] = NoWork
    /\ \E kind \in {"resolve", "apply"} : worker' = [worker EXCEPT ![w] = Run(kind, "begin")]
    /\ txn' = [phase |-> "RESOLVING", dnf |-> FALSE, restart |-> FALSE, cancellable |-> FALSE, boot |-> boot]
    /\ history' = <<>>
    /\ UNCHANGED <<up, boot, offline, refresher, refreshing>>

\* RestartAndApply keeps the record's results and its started_at is now.
StartRestart(w) ==
    /\ up /\ ~Active /\ worker[w] = NoWork
    /\ worker' = [worker EXCEPT ![w] = Run("restart", "begin")]
    /\ txn' = [Phase(txn, "RESTARTING") EXCEPT !.cancellable = FALSE]
    /\ history' = <<>>
    /\ UNCHANGED <<up, boot, offline, refresher, refreshing>>

CancelUpdate ==
    /\ up /\ Active /\ txn.cancellable
    /\ txn' = Phase(txn, "CANCELLED")
    /\ UNCHANGED <<worker, up, boot, offline, history, refresher, refreshing>>

\* on_download_add: the daemon reads metadata for a session that resolves.
DownloadSignal ==
    /\ up /\ txn.phase \notin TERMINAL_PHASES
    /\ \E w \in Workers : worker[w].runs = "resolve"
    /\ txn' = [Phase(txn, "DOWNLOADING") EXCEPT !.cancellable = TRUE]
    /\ UNCHANGED <<worker, up, boot, offline, history, refresher, refreshing>>

-----------------------------------------------------------------------------
(* The worker threads.                                                      *)

\* resolve_worker and resolve_cli_worker: nothing to do, something, an error.
ResolveEnds(w) ==
    /\ worker[w].runs = "resolve"
    /\ \E phase \in {"COMPLETE", "RESOLVED", "FAILED"} : txn' = Phase(txn, phase)
    /\ WorkerDone(w)
    /\ UNCHANGED <<up, boot, offline, history, refresher, refreshing>>

\* apply_all_worker: the plan, from a fresh snapshot.
ApplyPlans(w) ==
    LET fresh == [Phase(txn, "RESOLVING") EXCEPT !.dnf = FALSE] IN
    /\ worker[w].runs = "apply" /\ worker[w].at = "begin"
    /\ \/ Goes(w, "optional") /\ txn' = fresh
       \/ /\ \E system \in BOOLEAN : worker' = [worker EXCEPT ![w].at = "authenticate", ![w].system = system]
          /\ txn' = Phase(fresh, "AUTHENTICATING")
       \/ WorkerDone(w) /\ txn' = Phase(fresh, "FAILED")
    /\ refreshing' = FALSE
    /\ UNCHANGED <<up, boot, offline, history, refresher>>

\* pkexec is refused, the helper fails or never says that it completed.
HelperFails(w) ==
    /\ worker[w].at \in {"authenticate", "checkpoint", "prepare", "others"}
    /\ txn' = Phase(txn, "FAILED") /\ WorkerDone(w)
    /\ UNCHANGED <<up, boot, offline, history, refresher, refreshing>>

HelperStarts(w) ==
    /\ worker[w].at = "authenticate"
    /\ IF worker[w].system
       THEN Goes(w, "checkpoint") /\ txn' = Phase(txn, "CHECKPOINTING")
       ELSE Goes(w, "others") /\ UNCHANGED txn
    /\ UNCHANGED <<up, boot, offline, history, refresher, refreshing>>

\* A valid recovery point, then DNF downloads.
HelperCheckpoints(w) ==
    /\ worker[w].at = "checkpoint"
    /\ Goes(w, "prepare") /\ txn' = Phase(txn, "PREPARING_RESTART")
    /\ UNCHANGED <<up, boot, offline, history, refresher, refreshing>>

\* prepare_dnf: stored, scheduled, and only then a success.
HelperPrepares(w) ==
    /\ worker[w].at = "prepare"
    /\ offline' = TRUE
    /\ Goes(w, "others") /\ txn' = [txn EXCEPT !.dnf = TRUE, !.boot = boot]
    /\ UNCHANGED <<up, boot, history, refresher, refreshing>>

\* System Flatpak and firmware.
HelperContinues(w) ==
    /\ worker[w].at = "others"
    /\ \E phase \in {"UPDATING_APPLICATIONS", "UPDATING_FIRMWARE"} : txn' = Phase(txn, phase)
    /\ UNCHANGED <<worker, up, boot, offline, history, refresher, refreshing>>

HelperCompletes(w) ==
    /\ worker[w].at = "others"
    /\ txn' = [txn EXCEPT !.dnf = worker[w].system, !.restart = @ \/ worker[w].system, !.boot = boot]
    /\ Goes(w, "optional")
    /\ UNCHANGED <<up, boot, offline, history, refresher, refreshing>>

\* run_optional_provider_updates: user Flatpak, then the readback.
OptionalRuns(w) ==
    /\ worker[w].at = "optional"
    /\ Goes(w, "finish")
    /\ txn' = Phase(txn, "UPDATING_APPLICATIONS") \/ UNCHANGED txn
    /\ UNCHANGED <<up, boot, offline, history, refresher, refreshing>>

ApplyEnds(w) ==
    /\ worker[w].at = "finish"
    /\ \E readback \in BOOLEAN :
         txn' = [Phase(txn, IF txn.restart \/ readback THEN "READY_TO_RESTART" ELSE "COMPLETE")
                 EXCEPT !.restart = @ \/ readback]
    /\ WorkerDone(w)
    /\ refreshing' = FALSE
    /\ UNCHANGED <<up, boot, offline, history, refresher>>

\* restart_worker, when logind refuses.
RestartFails(w) ==
    /\ worker[w].runs = "restart"
    /\ txn' = [Phase(txn, "FAILED") EXCEPT !.restart = TRUE] /\ WorkerDone(w)
    /\ UNCHANGED <<up, boot, offline, history, refresher, refreshing>>

-----------------------------------------------------------------------------
(* The service and the machine.                                             *)

\* The service stops; a helper at work goes on, perhaps to the end.
ServiceStops ==
    /\ up /\ up' = FALSE
    /\ worker' = [w \in Workers |-> NoWork]
    /\ offline' \in {offline, offline \/ \E w \in Workers : worker[w].at = "prepare"}
    /\ refresher' = [r \in Refreshers |-> "none"] /\ refreshing' = FALSE
    /\ UNCHANGED <<txn, boot, history>>

\* A stored transaction runs before the next boot.
MachineRestarts ==
    /\ boot < MaxBoots /\ boot' = boot + 1
    /\ up' = FALSE /\ worker' = [w \in Workers |-> NoWork]
    /\ offline' = FALSE
    /\ IF offline THEN \E result \in {"ok", "error"} : history' = Append(history, result) ELSE UNCHANGED history
    /\ refresher' = [r \in Refreshers |-> "none"] /\ refreshing' = FALSE
    /\ UNCHANGED txn

\* greyward-auto-update stores one too, unless one is waiting.
AutoUpdate ==
    /\ ~offline /\ offline' = TRUE
    /\ UNCHANGED <<txn, worker, up, boot, history, refresher, refreshing>>

\* dnf_offline_history_result: the newest run decides.
OfflineRunSucceeded == history # <<>> /\ Last(history) = "ok"

\* reconcile_completed_restart.
AfterRestart(t) == Phase(t, IF t.dnf /\ ~OfflineRunSucceeded THEN "FAILED" ELSE "COMPLETE")

\* reconcile_transaction, and the interrupted check of load_transaction; a
\* restart asked for more than 900 seconds ago did not come.
Loaded(t) ==
    LET boot_changed == t.boot # boot IN
    IF t.phase \in Reconciled /\ boot_changed
    THEN IF t.phase \in {"RESTARTING", "READY_TO_RESTART"} THEN {AfterRestart(t)} ELSE {Phase(t, "FAILED")}
    ELSE IF t.phase = "RESTARTING" THEN {t, [Phase(t, "FAILED") EXCEPT !.restart = TRUE]}
    ELSE IF t.phase = "RESOLVING" THEN {Phase(t, "FAILED")}
    ELSE {t}

ServiceStarts ==
    /\ ~up /\ up' = TRUE
    /\ txn' \in Loaded(txn)
    /\ UNCHANGED <<worker, boot, offline, history, refresher, refreshing>>

-----------------------------------------------------------------------------
(* The cached snapshot.                                                     *)

\* request_snapshot_refresh: at most one refresh is asked for at a time.
RequestRefresh(r) ==
    /\ up /\ ~refreshing /\ refresher[r] = "none"
    /\ refreshing' = TRUE /\ refresher' = [refresher EXCEPT ![r] = "started"]
    /\ UNCHANGED <<txn, worker, up, boot, offline, history>>

\* Fault: a refresh that finds an update at work keeps the flag.
RefreshDeclinedQuietly == refreshing' = refreshing

\* A refresh that finds an update at work gives up and clears the flag.
RefreshDeclined == refreshing' = FALSE

RefreshBegins(r) ==
    /\ refresher[r] = "started"
    /\ IF Active
       THEN RefreshDeclined /\ refresher' = [refresher EXCEPT ![r] = "none"]
       ELSE refresher' = [refresher EXCEPT ![r] = "collecting"] /\ UNCHANGED refreshing
    /\ UNCHANGED <<txn, worker, up, boot, offline, history>>

RefreshEnds(r) ==
    /\ refresher[r] = "collecting"
    /\ refresher' = [refresher EXCEPT ![r] = "none"] /\ refreshing' = FALSE
    /\ UNCHANGED <<txn, worker, up, boot, offline, history>>

UpdateNext ==
    \/ \E w \in Workers :
         \/ StartOperation(w) \/ StartRestart(w) \/ ResolveEnds(w) \/ ApplyPlans(w)
         \/ HelperFails(w) \/ HelperStarts(w) \/ HelperCheckpoints(w) \/ HelperPrepares(w)
         \/ HelperContinues(w) \/ HelperCompletes(w) \/ OptionalRuns(w) \/ ApplyEnds(w) \/ RestartFails(w)
    \/ CancelUpdate \/ DownloadSignal
    \/ ServiceStops \/ MachineRestarts \/ AutoUpdate \/ ServiceStarts
    \/ \E r \in Refreshers : RequestRefresh(r) \/ RefreshBegins(r) \/ RefreshEnds(r)

UpdateSpec == UpdateInit /\ [][UpdateNext]_updateVars

-----------------------------------------------------------------------------

(* After a restart a prepared system update is reported complete only when   *)
(* the last offline run since it was asked for succeeded, however many       *)
(* restarts and automatic updates came between                               *)
(* (reconcile_completed_restart).                                            *)
RestartVerified ==
    [][(~up /\ up' /\ txn.dnf /\ txn.boot # boot /\ txn'.phase = "COMPLETE" /\ txn.phase # "COMPLETE")
        => history # <<>> /\ Last(history) = "ok"]_updateVars

(* The refresh flag never outlives the thread that clears it; otherwise no   *)
(* snapshot would be read again (refresh_snapshot_worker).                   *)
RefreshNotStuck == refreshing => \E r \in Refreshers : refresher[r] # "none"

(* "Close transactions left behind by a reboot": once the service is up on a *)
(* new boot, an active phase of the earlier boot is no longer there to       *)
(* refuse every operation (reconcile_transaction).                           *)
ClosedAfterReboot == up /\ txn.phase \in ACTIVE_PHASES => txn.boot = boot
=============================================================================
