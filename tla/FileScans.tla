----------------------------- MODULE FileScans -----------------------------
(***************************************************************************)
(* Scans and their receipts (file_security.py start to _finish,             *)
(* scan_cache.py, clamav.py, the scan calls of clamav_service.py).  A scan  *)
(* is a durable row and a worker thread; the thread and its cancel token    *)
(* die with the service, the row does not.  A receipt says what a scan      *)
(* found for the bytes and the definitions it saw, and is VALID while both  *)
(* are still the current ones.                                              *)
(*                                                                         *)
(* The selection is one file, or a folder that holds one file: the file's   *)
(* fingerprint (inode, size, ctime) is a counter that every change          *)
(* advances, and the folder's fingerprint changes with it.  A change is     *)
(* made in place, which an open descriptor sees, or by replacing the file,  *)
(* which it does not.                                                       *)
(***************************************************************************)
EXTENDS Naturals, FiniteSets

CONSTANTS
    Scans,        \* operation ids
    MaxVersion,   \* bound on the changes of the file
    MaxGeneration \* bound on the updates of the definitions

ASSUME ScanConstants == IsFiniteSet(Scans) /\ MaxVersion \in Nat /\ MaxGeneration \in Nat

VARIABLES
    version,     \* the fingerprint of the file
    generation,  \* scan_cache.generation: engine and definitions
    current,     \* clamav status is CURRENT
    scans,       \* file_scan_operations
    tokens,      \* _cancel: the scans with a worker in this process
    cancelled,   \* those whose cancel event is set
    worker,      \* the locals of _run
    receipts     \* file_scan_receipts by path

scanVars == <<version, generation, current, scans, tokens, cancelled, worker, receipts>>

-----------------------------------------------------------------------------

Active == {"QUEUED", "SCANNING", "FINALIZING"}
Terminal == {"COMPLETED", "PARTIAL", "CANCELLED", "FAILED", "INTERRUPTED"}
Verdicts == {"KNOWN", "PARTIAL"}   \* KNOWN stands for CLEAN or THREAT

Paths == {"file", "folder"}
Modes == {"FILE", "FOLDER"}
Selection(mode) == IF mode = "FILE" THEN "file" ELSE "folder"

\* The locals of _run.  descriptor is what the open descriptor reads, linked
\* that it is still the file of the path; seen and seen_with are what
\* clamscan read and the definitions it used.
Steps == {"none", "begin", "open", "fingerprint", "scan", "save_files", "save_sources", "finish"}
NoWorker ==
    [step |-> "none", before |-> 0, file_before |-> 0, generation |-> 0, descriptor |-> 0,
     linked |-> FALSE, seen |-> 0, seen_with |-> 0, verdict |-> "PARTIAL", outcome |-> "FAILED"]
Finishing == [NoWorker EXCEPT !.step = "finish"]

\* A row of file_scan_receipts.  honest and walked are not stored: that the
\* recorded bytes and definitions are the ones clamscan saw, and that the
\* receipt is of a file found in a selection, not of the selection.
NoReceipt == [state |-> "NOT_SCANNED", fingerprint |-> 0, generation |-> 0, honest |-> TRUE, walked |-> FALSE]

ScanTypeOK ==
    /\ version \in 1..MaxVersion /\ generation \in 1..MaxGeneration /\ current \in BOOLEAN
    /\ scans \in [Scans -> [state : Active \cup Terminal \cup {"NONE"}, mode : Modes, background : BOOLEAN]]
    /\ cancelled \subseteq tokens /\ tokens \subseteq Scans
    /\ \A s \in Scans : worker[s].step \in Steps /\ worker[s].outcome \in Terminal /\ worker[s].verdict \in Verdicts
    /\ DOMAIN receipts = Paths
    /\ \A p \in Paths : receipts[p].state \in Verdicts \cup {"NOT_SCANNED"}

ScanInit ==
    /\ version = 1 /\ generation = 1 /\ current = TRUE
    /\ scans = [s \in Scans |-> [state |-> "NONE", mode |-> "FILE", background |-> FALSE]]
    /\ tokens = {} /\ cancelled = {}
    /\ worker = [s \in Scans |-> NoWorker]
    /\ receipts = [p \in Paths |-> NoReceipt]

-----------------------------------------------------------------------------

ActiveScans == {s \in Scans : scans[s].state \in Active}

\* Fault: an active row is taken for an orphan although its worker runs.
OrphansAll == ActiveScans

\* _mark_interrupted_if_orphaned: an active row without a worker here.
Orphans == ActiveScans \ tokens

Interrupted(lost) ==
    [s \in Scans |-> IF s \in lost THEN [scans[s] EXCEPT !.state = "INTERRUPTED"] ELSE scans[s]]

\* _active, after it has reconciled the orphans.
Running == ActiveScans \ Orphans

\* GetScanStatus, GetFileSecuritySummary: status and reconcile_interrupted_scans.
ReconcileInterrupted ==
    /\ Orphans # {}
    /\ scans' = Interrupted(Orphans)
    /\ UNCHANGED <<version, generation, current, tokens, cancelled, worker, receipts>>

\* What StartScan and ScanPath pass on: a scan of the whole system, for an
\* administrator, is a FOLDER here; ScanPath waits a minute and then cancels.
Requests == [mode : Modes, background : BOOLEAN]

\* start: under the lock, orphans are reconciled; a running scan refuses
\* the request, and is cancelled first when it is a background scan and the
\* request is not; else the row is queued and the worker started.
StartScan(s, mode, background) ==
    /\ scans[s].state = "NONE"
    /\ IF Running # {}
       THEN /\ scans' = Interrupted(Orphans)
            /\ cancelled' = cancelled \cup
                 {r \in Running \cap tokens : ~background /\ scans[r].background}
            /\ UNCHANGED <<tokens, worker>>
       ELSE /\ current
            /\ scans' = [Interrupted(Orphans) EXCEPT
                           ![s] = [state |-> "QUEUED", mode |-> mode, background |-> background]]
            /\ tokens' = tokens \cup {s}
            /\ worker' = [worker EXCEPT ![s] = [NoWorker EXCEPT !.step = "begin"]]
            /\ UNCHANGED cancelled
    /\ UNCHANGED <<version, generation, current, receipts>>

\* CancelScan, and the timeout of ScanPath in _legacy_scan: the token is set
\* and clamscan is told to stop.
CancelScan(s) ==
    /\ s \in tokens \ cancelled
    /\ cancelled' = cancelled \cup {s}
    /\ UNCHANGED <<version, generation, current, scans, tokens, worker, receipts>>

-----------------------------------------------------------------------------
(* The worker, _run.                                                        *)

At(s, step) == worker[s].step = step

Record(s, state) == scans' = [scans EXCEPT ![s].state = state]

\* The definitions are checked, the selection's fingerprint taken, SCANNING.
BeginScan(s) ==
    /\ At(s, "begin")
    /\ IF current
       THEN /\ worker' = [worker EXCEPT ![s].step = "open", ![s].before = version, ![s].generation = generation]
            /\ Record(s, "SCANNING")
       ELSE /\ worker' = [worker EXCEPT ![s] = Finishing]
            /\ Record(s, "FAILED")
    /\ UNCHANGED <<version, generation, current, tokens, cancelled, receipts>>

\* _scan_handles opens the file, or fails and the scan with it.
OpenHandle(s) ==
    /\ At(s, "open")
    /\ \/ /\ worker' = [worker EXCEPT ![s].step = "fingerprint", ![s].descriptor = version, ![s].linked = TRUE]
          /\ UNCHANGED scans
       \/ /\ worker' = [worker EXCEPT ![s] = Finishing]
          /\ Record(s, "FAILED")
    /\ UNCHANGED <<version, generation, current, tokens, cancelled, receipts>>

\* Fault: the selection's fingerprint, too, is taken after the file is open.
LateFingerprint(s) ==
    /\ At(s, "fingerprint")
    /\ worker' = [worker EXCEPT ![s].step = "scan", ![s].file_before = version, ![s].before = version]
    /\ UNCHANGED <<version, generation, current, scans, tokens, cancelled, receipts>>

\* before[str(source)] = scan_cache.fingerprint(source), by path.
FingerprintHandle(s) ==
    /\ At(s, "fingerprint")
    /\ worker' = [worker EXCEPT ![s].step = "scan", ![s].file_before = version]
    /\ UNCHANGED <<version, generation, current, scans, tokens, cancelled, receipts>>

\* clamscan reads the descriptor with the definitions of that moment; its
\* output gives a verdict or, stopped early or at an engine limit, none.
\* Cancelled, timed out, ended well, ended badly, or not started at all.
RunScanner(s) ==
    /\ At(s, "scan")
    /\ \E verdict \in Verdicts, outcome \in Terminal \ {"INTERRUPTED"} :
         /\ s \in cancelled <=> outcome = "CANCELLED"
         /\ outcome = "COMPLETED" => verdict # "PARTIAL"
         /\ IF outcome = "FAILED"
            THEN worker' = [worker EXCEPT ![s] = Finishing] /\ Record(s, "FAILED")
            ELSE /\ worker' = [worker EXCEPT ![s].step = "save_files", ![s].verdict = verdict, ![s].outcome = outcome,
                                             ![s].seen = worker[s].descriptor, ![s].seen_with = generation,
                                             ![s].descriptor = 0, ![s].linked = FALSE]
                 /\ UNCHANGED scans
    /\ UNCHANGED <<version, generation, current, tokens, cancelled, receipts>>

\* scan_cache.save: an unknown or changed fingerprint makes it PARTIAL.
Saved(s, path, before, verdict, walked) ==
    receipts' = [receipts EXCEPT ![path] =
        [state |-> IF before = version THEN verdict ELSE "PARTIAL",
         fingerprint |-> version, generation |-> worker[s].generation, walked |-> walked,
         honest |-> worker[s].seen = version /\ worker[s].seen_with = worker[s].generation]]

\* The receipts of the files that were opened, from the fingerprint taken
\* when they were.
SaveFiles(s) ==
    /\ At(s, "save_files")
    /\ Saved(s, "file", worker[s].file_before,
             IF generation = worker[s].generation THEN worker[s].verdict ELSE "PARTIAL", TRUE)
    /\ worker' = [worker EXCEPT ![s].step = "save_sources"]
    /\ UNCHANGED <<version, generation, current, scans, tokens, cancelled>>

\* The selection and the definitions are what they were before the scan.
Unchanged(s) == worker[s].before = version /\ generation = worker[s].generation

\* The receipt of the selection itself and the result of the scan.
SaveSources(s) ==
    /\ At(s, "save_sources")
    /\ LET whole == Unchanged(s)
           complete == scans[s].mode = "FILE" \/ worker[s].outcome = "COMPLETED" IN
         /\ Saved(s, Selection(scans[s].mode), worker[s].before,
                  IF whole /\ complete THEN worker[s].verdict ELSE "PARTIAL", FALSE)
         /\ Record(s, IF whole THEN worker[s].outcome ELSE "PARTIAL")
    /\ worker' = [worker EXCEPT ![s] = Finishing]
    /\ UNCHANGED <<version, generation, current, tokens, cancelled>>

\* finally: descriptors closed, _finish drops the token and prunes the store.
FinishScan(s) ==
    /\ At(s, "finish")
    /\ tokens' = tokens \ {s} /\ cancelled' = cancelled \ {s}
    /\ worker' = [worker EXCEPT ![s] = NoWorker]
    /\ UNCHANGED <<version, generation, current, scans, receipts>>

WorkerStep(s) ==
    \/ BeginScan(s) \/ OpenHandle(s) \/ FingerprintHandle(s) \/ RunScanner(s)
    \/ SaveFiles(s) \/ SaveSources(s) \/ FinishScan(s)

-----------------------------------------------------------------------------

\* The service dies: threads, tokens and descriptors go, rows stay.
ScanServiceRestart ==
    /\ tokens # {}
    /\ tokens' = {} /\ cancelled' = {}
    /\ worker' = [s \in Scans |-> NoWorker]
    /\ UNCHANGED <<version, generation, current, scans, receipts>>

\* The user writes to the file, in place or by replacing it.
ChangeFile ==
    /\ version < MaxVersion
    /\ version' = version + 1
    /\ \E in_place \in BOOLEAN :
         worker' = [s \in Scans |->
            IF ~worker[s].linked THEN worker[s]
            ELSE IF in_place THEN [worker[s] EXCEPT !.descriptor = version + 1]
            ELSE [worker[s] EXCEPT !.linked = FALSE]]
    /\ UNCHANGED <<generation, current, scans, tokens, cancelled, receipts>>

\* freshclam installs new definitions, or they pass MAX_DATABASE_AGE.
ChangeDefinitions ==
    /\ \/ generation < MaxGeneration /\ generation' = generation + 1 /\ current' = TRUE
       \/ current /\ current' = FALSE /\ UNCHANGED generation
    /\ UNCHANGED <<version, scans, tokens, cancelled, worker, receipts>>

ScanNext ==
    \/ \E s \in Scans, r \in Requests : StartScan(s, r.mode, r.background)
    \/ \E s \in Scans : CancelScan(s) \/ WorkerStep(s)
    \/ ReconcileInterrupted \/ ScanServiceRestart \/ ChangeFile \/ ChangeDefinitions

ScanSpec == ScanInit /\ [][ScanNext]_scanVars

-----------------------------------------------------------------------------

\* lookup: VALID, with a verdict.
Valid(r) ==
    /\ r.state = "KNOWN" /\ r.fingerprint = version
    /\ current /\ r.generation = generation

Truthful(r) == Valid(r) => r.honest

(* A valid receipt of a selection is about the bytes that are there now and  *)
(* the definitions in use now: neither a change of the file during the scan, *)
(* in place or by replacement, nor an update of the definitions lets a       *)
(* verdict of something else pass for a current one (_run, scan_cache).      *)
SelectionReceiptIsTruthful == \A p \in Paths : ~receipts[p].walked => Truthful(receipts[p])

(* The same for every receipt: "a receipt describes observed bytes"          *)
(* (scan_cache.py).                                                          *)
EveryReceiptIsTruthful == \A p \in Paths : Truthful(receipts[p])

(* One scan at a time, counting the rows a dead service left behind          *)
(* (_active, _mark_interrupted_if_orphaned).                                 *)
OneActiveScan == Cardinality(ActiveScans) <= 1

(* The result of a scan is final: no reconciliation, late worker or restart  *)
(* changes a row that has ended (_mark_interrupted_if_orphaned, _run).       *)
ScanResultIsFinal ==
    [][\A s \in Scans : scans[s].state \in Terminal => scans'[s] = scans[s]]_scanVars
=============================================================================
