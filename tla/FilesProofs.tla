---------------------------- MODULE FilesProofs ----------------------------
(***************************************************************************)
(* File security for any number of files, scans and quarantined objects:    *)
(* the detected content is never lost, a valid receipt is of the bytes and  *)
(* the definitions in use, a scan's result is final, and no arrival in a    *)
(* home directory is forgotten.                                             *)
(***************************************************************************)
EXTENDS Quarantine, FileScans, ArrivalScanner, FiniteSetTheorems, TLAPS

-----------------------------------------------------------------------------
(* The life of a detection.                                                 *)

\* The rows, files and calls the argument is about have their types.
QuarantineRows ==
    /\ detection \in [state : DetectionStates, hash : Contents, id : QuarantineIds \cup {NoId}]
    /\ vault \in [QuarantineIds -> Contents \cup {NoFile}]
    /\ manifests \subseteq QuarantineIds
    /\ pending_quarantine \in QuarantineIds \cup {NoId}
    /\ service \in [doing : {"nothing", "prepare", "delete"}, id : QuarantineIds \cup {NoId}]
    /\ session \in [doing : {"nothing", "await", "remove", "unlink", "copy"}, hash : Contents \cup {NoFile}]
    /\ service.doing = "nothing" \/ service.id \in QuarantineIds

\* Every name for a quarantined object, in memory, in the record, in the
\* manifests or in a step half done, is the name of a copy of the detected
\* content; and the session removes the original only when a copy exists.
EveryNameIsOfACopy ==
    ~deleteAsked =>
        /\ service.doing # "delete"
        /\ service.doing = "prepare" => vault[service.id] = Threat
        /\ \A q \in manifests : vault[q] = Threat
        /\ detection.id # NoId => vault[detection.id] = Threat
        /\ pending_quarantine # NoId => vault[pending_quarantine] = Threat
        /\ session.doing \in {"remove", "unlink"} => \E q \in QuarantineIds : vault[q] = Threat

QuarantineInv ==
    /\ QuarantineRows
    /\ detection.hash = Threat
    /\ EveryNameIsOfACopy
    /\ detection.state = "QUARANTINED" /\ ~deleteAsked => detection.id # NoId
    /\ DetectedContentKept

(* A detection just recorded satisfies the invariant.                        *)
LEMMA QuarantineStart == QuarantineInit => QuarantineInv
  BY QuarantineConstants
  DEF QuarantineInit, QuarantineInv, QuarantineRows, EveryNameIsOfACopy, DetectedContentKept,
      DetectionStates, Nothing, Idle

(* A reply either moves the session on or finds nobody waiting.              *)
LEMMA AnswerMoves ==
    ASSUME NEW next, Answer(next)
    PROVE  session' = next \/ session' = session
  BY DEF Answer

(* A step of the session that touches no file leaves the vault and its       *)
(* names alone, and the session starts no removal of its own accord.         *)
LEMMA SessionKeeps ==
    ASSUME QuarantineInv,
           \/ GiveUp \/ VerifySource \/ CreateRestoreCopy \/ \E call \in Calls : Ask(call)
    PROVE  QuarantineInv'
<1>1. UNCHANGED <<original, detection, vault, manifests, pending_quarantine, service, userTouched, deleteAsked>>
  BY DEF GiveUp, VerifySource, CreateRestoreCopy, Ask
<1>2. \/ session' = Idle \/ session' = [doing |-> "await", hash |-> NoFile]
      \/ session.doing = "remove" /\ session' = [session EXCEPT !.doing = "unlink"]
  BY DEF GiveUp, VerifySource, CreateRestoreCopy, Ask, Send
<1> QED
  BY <1>1, <1>2 DEF QuarantineInv, QuarantineRows, EveryNameIsOfACopy, DetectedContentKept, Idle

(* The original goes only after the verified copy is in the vault            *)
(* (_unlink_verified_source).                                                *)
LEMMA UnlinkKeeps ==
    ASSUME QuarantineInv, UnlinkSource
    PROVE  QuarantineInv'
<1>1. UNCHANGED <<detection, vault, manifests, pending_quarantine, service, userTouched, deleteAsked>>
  BY DEF UnlinkSource
<1>2. session.doing = "unlink" /\ session' = [doing |-> "await", hash |-> NoFile] /\ original' = NoFile
  BY DEF UnlinkSource, Send
<1> QED
  BY <1>1, <1>2 DEF QuarantineInv, QuarantineRows, EveryNameIsOfACopy, DetectedContentKept

(* prepare_quarantine adds a copy of the detected content under a new name,  *)
(* or refuses.                                                               *)
LEMMA PrepareKeeps ==
    ASSUME QuarantineInv, PrepareQuarantine
    PROVE  QuarantineInv'
<1>1. UNCHANGED <<original, detection, manifests, pending_quarantine, userTouched, deleteAsked>>
  BY DEF PrepareQuarantine
<1>2. CASE owned /\ detection.state # "QUARANTINED" /\ VerifiedCopy
  <2>1. PICK q \in QuarantineIds :
          /\ vault[q] = NoFile
          /\ vault' = [vault EXCEPT ![q] = original]
          /\ service' = [doing |-> "prepare", id |-> q]
          /\ session' = session
    BY <1>2 DEF PrepareQuarantine, AnswerLater
  <2>2. original = Threat
    BY <1>2 DEF VerifiedCopy, QuarantineInv
  <2> QED
    BY <1>1, <2>1, <2>2, QuarantineConstants
    DEF QuarantineInv, QuarantineRows, EveryNameIsOfACopy, DetectedContentKept
<1>3. CASE ~(owned /\ detection.state # "QUARANTINED" /\ VerifiedCopy)
  <2>1. UNCHANGED <<vault, service>> /\ (session' = Idle \/ session' = session)
    BY <1>3, AnswerMoves DEF PrepareQuarantine
  <2> QED
    BY <1>1, <2>1 DEF QuarantineInv, QuarantineRows, EveryNameIsOfACopy, DetectedContentKept, Idle
<1> QED
  BY <1>2, <1>3

(* The manifest, the in-memory record and the reply name that copy.          *)
LEMMA PublishKeeps ==
    ASSUME QuarantineInv, PublishQuarantine
    PROVE  QuarantineInv'
<1>1. UNCHANGED <<original, detection, vault, userTouched, deleteAsked>>
  BY DEF PublishQuarantine
<1>2. /\ service.doing = "prepare" /\ manifests' = manifests \cup {service.id}
      /\ pending_quarantine' = service.id /\ service' = Nothing
  BY DEF PublishQuarantine
<1>3. session' = [doing |-> "remove", hash |-> vault[service.id]] \/ session' = session
  BY AnswerMoves DEF PublishQuarantine
<1> QED
  BY <1>1, <1>2, <1>3
  DEF QuarantineInv, QuarantineRows, EveryNameIsOfACopy, DetectedContentKept, Nothing

(* _find_pending_quarantine finds no name that is not of a copy.             *)
LEMMA PendingIsCopy ==
    ASSUME QuarantineInv, NEW q \in PendingIds
    PROVE  /\ q \in QuarantineIds \cup {NoId}
           /\ ~deleteAsked /\ q # NoId => vault[q] = Threat
  BY DEF PendingIds, QuarantineInv, QuarantineRows, EveryNameIsOfACopy

(* complete_quarantine and fail_quarantine record a name they found.         *)
LEMMA RecordKeeps ==
    ASSUME QuarantineInv, CompleteQuarantine \/ FailQuarantine
    PROVE  QuarantineInv'
<1>1. UNCHANGED <<original, vault, manifests, service, userTouched, deleteAsked>>
  BY DEF CompleteQuarantine, FailQuarantine
<1>2. session' = Idle \/ session' = session
  BY AnswerMoves DEF CompleteQuarantine, FailQuarantine
<1>3. \/ UNCHANGED <<detection, pending_quarantine>>
      \/ \E q \in PendingIds :
           \/ /\ q # NoId
              /\ detection' = [detection EXCEPT !.state = "QUARANTINED", !.id = q]
              /\ pending_quarantine' = NoId
           \/ QuarantineFailed(q)
  BY DEF CompleteQuarantine, FailQuarantine
<1>4. CASE UNCHANGED <<detection, pending_quarantine>>
  BY <1>1, <1>2, <1>4 DEF QuarantineInv, QuarantineRows, EveryNameIsOfACopy, DetectedContentKept, Idle
<1>5. ASSUME NEW q \in PendingIds, q # NoId, pending_quarantine' = NoId,
             detection' = [detection EXCEPT !.state = "QUARANTINED", !.id = q]
      PROVE  QuarantineInv'
  <2>1. q \in QuarantineIds /\ (~deleteAsked => vault[q] = Threat)
    BY <1>5, PendingIsCopy
  <2>2. detection' = [state |-> "QUARANTINED", hash |-> detection.hash, id |-> q]
    BY <1>5 DEF QuarantineInv, QuarantineRows
  <2> QED
    BY <1>1, <1>2, <1>5, <2>1, <2>2
    DEF QuarantineInv, QuarantineRows, EveryNameIsOfACopy, DetectedContentKept, DetectionStates, Idle
<1>6. ASSUME NEW q \in PendingIds, QuarantineFailed(q) PROVE QuarantineInv'
  <2>1. q \in QuarantineIds \cup {NoId} /\ (~deleteAsked /\ q # NoId => vault[q] = Threat)
    BY PendingIsCopy
  <2>2. detection' = [state |-> "QUARANTINE_FAILED", hash |-> detection.hash,
                      id |-> IF q # NoId THEN q ELSE detection.id]
    BY <1>6 DEF QuarantineFailed, QuarantineInv, QuarantineRows
  <2>3. pending_quarantine' = pending_quarantine
    BY <1>6 DEF QuarantineFailed
  <2> QED
    BY <1>1, <1>2, <2>1, <2>2, <2>3
    DEF QuarantineInv, QuarantineRows, EveryNameIsOfACopy, DetectedContentKept, DetectionStates, Idle
<1> QED
  BY <1>3, <1>4, <1>5, <1>6

(* Restoring copies out of the vault; the object and its names stay          *)
(* (prepare_restore, complete_restore, fail_restore).                        *)
LEMMA RestoreKeeps ==
    ASSUME QuarantineInv, PrepareRestore \/ CompleteRestore \/ FailRestore
    PROVE  QuarantineInv'
<1>1. UNCHANGED <<original, vault, manifests, pending_quarantine, service, userTouched, deleteAsked>>
  BY DEF PrepareRestore, CompleteRestore, FailRestore, AfterStaging
<1>2. session' \in {Idle, [doing |-> "copy", hash |-> detection.hash], session}
  BY AnswerMoves DEF PrepareRestore, CompleteRestore, FailRestore
<1>3. \/ detection' = detection
      \/ detection' = [state |-> "RESTORED", hash |-> detection.hash, id |-> detection.id]
      \/ detection' = [state |-> "RESTORE_FAILED", hash |-> detection.hash, id |-> detection.id]
  BY DEF PrepareRestore, CompleteRestore, FailRestore, QuarantineInv, QuarantineRows
<1> QED
  BY <1>1, <1>2, <1>3
  DEF QuarantineInv, QuarantineRows, EveryNameIsOfACopy, DetectedContentKept, DetectionStates, Idle

(* A permanent deletion is the only step that takes an object away.          *)
LEMMA DeleteKeeps ==
    ASSUME QuarantineInv, DeleteObject \/ DeleteRecord
    PROVE  QuarantineInv'
<1>1. CASE DeleteRecord
  <2>1. /\ service.doing = "delete" /\ UNCHANGED <<vault, original, pending_quarantine, userTouched, deleteAsked>>
        /\ manifests' = manifests \ {service.id} /\ service' = Nothing
    BY <1>1 DEF DeleteRecord
  <2>2. detection' = [state |-> "DELETED", hash |-> detection.hash, id |-> detection.id]
    BY <1>1 DEF DeleteRecord, QuarantineInv, QuarantineRows
  <2>3. session' = Idle \/ session' = session
    BY <1>1, AnswerMoves DEF DeleteRecord
  <2> QED
    BY <2>1, <2>2, <2>3
    DEF QuarantineInv, QuarantineRows, EveryNameIsOfACopy, DetectedContentKept, DetectionStates, Nothing, Idle
<1>2. CASE DeleteObject
  <2>1. UNCHANGED <<original, manifests, pending_quarantine, userTouched>> /\ service.doing = "nothing"
    BY <1>2 DEF DeleteObject, Taking, Nothing
  <2>2. CASE ~owned \/ detection.id = NoId
    <3>1. UNCHANGED <<vault, service, detection, deleteAsked>> /\ (session' = Idle \/ session' = session)
      BY <1>2, <2>2, AnswerMoves DEF DeleteObject
    <3> QED
      BY <2>1, <3>1 DEF QuarantineInv, QuarantineRows, EveryNameIsOfACopy, DetectedContentKept, Idle
  <2>3. CASE /\ detection' = [detection EXCEPT !.state = "DELETE_FAILED"]
             /\ Answer(Idle) /\ UNCHANGED <<vault, service, deleteAsked>>
    <3>1. detection' = [state |-> "DELETE_FAILED", hash |-> detection.hash, id |-> detection.id]
      BY <2>3 DEF QuarantineInv, QuarantineRows
    <3>2. UNCHANGED <<vault, service, deleteAsked>> /\ (session' = Idle \/ session' = session)
      BY <2>3, AnswerMoves
    <3> QED
      BY <2>1, <3>1, <3>2
      DEF QuarantineInv, QuarantineRows, EveryNameIsOfACopy, DetectedContentKept, DetectionStates, Idle
  <2>4. CASE /\ detection.id # NoId
             /\ vault' = [vault EXCEPT ![detection.id] = NoFile]
             /\ service' = [doing |-> "delete", id |-> detection.id]
             /\ deleteAsked' = TRUE
             /\ UNCHANGED <<session, detection>>
    BY <2>1, <2>4 DEF QuarantineInv, QuarantineRows, EveryNameIsOfACopy, DetectedContentKept
  <2> QED
    BY <1>2, <2>2, <2>3, <2>4 DEF DeleteObject, AnswerLater
<1> QED
  BY <1>1, <1>2

(* A restart or a reboot forgets names, never objects; the row and the files *)
(* of the home are the user's.                                               *)
LEMMA OutsideKeeps ==
    ASSUME QuarantineInv,
           ServiceRestart \/ Reboot \/ PruneOperation \/ UserChangesOriginal \/ UserChangesStaging
    PROVE  QuarantineInv'
<1>1. CASE ServiceRestart \/ Reboot
  BY <1>1 DEF ServiceRestart, Reboot, QuarantineInv, QuarantineRows, EveryNameIsOfACopy, DetectedContentKept,
              Nothing, Idle
<1>2. CASE PruneOperation \/ UserChangesStaging
  BY <1>2 DEF PruneOperation, UserChangesStaging, QuarantineInv, QuarantineRows, EveryNameIsOfACopy,
              DetectedContentKept
<1>3. CASE UserChangesOriginal
  <2>1. /\ UNCHANGED <<detection, vault, manifests, pending_quarantine, service, session, deleteAsked>>
        /\ userTouched' = (userTouched \/ original = Threat)
    BY <1>3 DEF UserChangesOriginal
  <2> QED
    BY <2>1 DEF QuarantineInv, QuarantineRows, EveryNameIsOfACopy, DetectedContentKept
<1> QED
  BY <1>1, <1>2, <1>3

(* The invariant holds in every reachable state.                             *)
LEMMA QuarantineKeeps == QuarantineSpec => []QuarantineInv
<1>1. QuarantineInv /\ [QuarantineNext]_quarantineVars => QuarantineInv'
  <2> SUFFICES ASSUME QuarantineInv, [QuarantineNext]_quarantineVars PROVE QuarantineInv'
    OBVIOUS
  <2>1. CASE SessionStep
    BY <2>1, SessionKeeps, UnlinkKeeps DEF SessionStep
  <2>2. CASE ServiceStep
    BY <2>2, PrepareKeeps, PublishKeeps, RecordKeeps, RestoreKeeps, DeleteKeeps DEF ServiceStep
  <2>3. CASE ServiceRestart \/ Reboot \/ PruneOperation \/ UserChangesOriginal \/ UserChangesStaging
    BY <2>3, OutsideKeeps
  <2>4. CASE UNCHANGED quarantineVars
    BY <2>4 DEF quarantineVars, QuarantineInv, QuarantineRows, EveryNameIsOfACopy, DetectedContentKept
  <2> QED
    BY <2>1, <2>2, <2>3, <2>4 DEF QuarantineNext
<1> QED
  BY <1>1, QuarantineStart, PTL DEF QuarantineSpec

(* Quarantining and restoring never lose the detected content, for any       *)
(* number of attempts, restarts, lost replies and queued calls: unless the   *)
(* user changed it or asked for its deletion, it is at its original place or *)
(* in the vault (prepare_quarantine, _unlink_verified_source,                *)
(* prepare_restore).                                                         *)
THEOREM ContentIsKept == QuarantineSpec => []DetectedContentKept
<1>1. QuarantineInv => DetectedContentKept
  BY DEF QuarantineInv
<1> QED
  BY <1>1, QuarantineKeeps, PTL

(* A detection reported as quarantined names an object with the detected     *)
(* content, whichever attempt, memory, record or manifest its name came from *)
(* (complete_quarantine, _find_pending_quarantine), until a deletion begins. *)
THEOREM QuarantineIsReal == QuarantineSpec => []QuarantinedIsHeld
<1>1. QuarantineInv => QuarantinedIsHeld
  BY DEF QuarantineInv, QuarantinedIsHeld, EveryNameIsOfACopy
<1> QED
  BY <1>1, QuarantineKeeps, PTL

-----------------------------------------------------------------------------
(* Scans and their receipts.                                                *)

\* The locals of a worker and a row of file_scan_operations.
WorkerType ==
    [step : Steps, before : Nat, file_before : Nat, generation : Nat, descriptor : Nat, linked : BOOLEAN,
     seen : Nat, seen_with : Nat, verdict : Verdicts, outcome : Terminal]
RowType == [state : Active \cup Terminal \cup {"NONE"}, mode : Modes, background : BOOLEAN]

ScanRows ==
    /\ version \in Nat /\ generation \in Nat
    /\ scans \in [Scans -> RowType] /\ worker \in [Scans -> WorkerType]
    /\ tokens \subseteq Scans

\* Worker w of scan s, whose row is row: it has a token and an active row
\* until it has written the result; what clamscan read lies between the
\* fingerprint taken before it and the file of now, and so do the definitions.
Sound(s, w, row) ==
    /\ w.step \notin {"none", "finish"} => s \in tokens /\ row.state \in Active
    /\ w.step \in {"open", "fingerprint", "scan", "save_files", "save_sources"} =>
         w.before <= version /\ w.generation <= generation
    /\ w.step \in {"fingerprint", "scan"} => w.before <= w.descriptor /\ w.descriptor <= version
    /\ w.step \in {"save_files", "save_sources"} =>
         /\ w.before <= w.seen /\ w.seen <= version
         /\ w.generation <= w.seen_with /\ w.seen_with <= generation

\* At most one row is active.
OneAtATime == \A s, t \in ActiveScans : s = t

\* A verdict recorded for a selection was honest when it was recorded.
SelectionsAreHonest ==
    /\ receipts \in [Paths -> [state : Verdicts \cup {"NOT_SCANNED"}, fingerprint : Nat, generation : Nat,
                               honest : BOOLEAN, walked : BOOLEAN]]
    /\ \A p \in Paths : ~receipts[p].walked /\ receipts[p].state = "KNOWN" => receipts[p].honest

WorkersInv == ScanRows /\ (\A s \in Scans : Sound(s, worker[s], scans[s])) /\ OneAtATime
ScanInv == WorkersInv /\ SelectionsAreHonest

(* An empty store has no scan and no receipt.                                *)
LEMMA ScanStart == ScanInit => ScanInv
<1> SUFFICES ASSUME ScanInit PROVE ScanInv
  OBVIOUS
<1>1. ScanRows
  BY DEF ScanInit, ScanRows, WorkerType, RowType, NoWorker, Steps, Verdicts, Terminal, Active, Modes
<1>2. SelectionsAreHonest
  BY DEF ScanInit, SelectionsAreHonest, NoReceipt, Verdicts
<1> QED
  BY <1>1, <1>2 DEF ScanInit, ScanInv, WorkersInv, Sound, OneAtATime, ActiveScans, NoWorker, Active

(* Reconciling marks rows that no worker here owns, so an ended row and the  *)
(* row of a running worker stay as they are (_mark_interrupted_if_orphaned). *)
LEMMA InterruptedLeaves ==
    ASSUME WorkersInv, NEW s \in Scans
    PROVE  /\ Interrupted(Orphans)[s] \in RowType
           /\ s \in Orphans => /\ scans[s].state \in Active
                               /\ Interrupted(Orphans)[s].state = "INTERRUPTED"
           /\ s \notin Orphans => Interrupted(Orphans)[s] = scans[s]
           /\ worker[s].step \notin {"none", "finish"} => s \notin Orphans
<1>1. scans[s] \in RowType
  BY DEF WorkersInv, ScanRows
<1>2. [scans[s] EXCEPT !.state = "INTERRUPTED"] =
        [state |-> "INTERRUPTED", mode |-> scans[s].mode, background |-> scans[s].background]
  BY <1>1 DEF RowType
<1>3. Sound(s, worker[s], scans[s])
  BY DEF WorkersInv
<1> QED
  BY <1>1, <1>2, <1>3 DEF Interrupted, Orphans, ActiveScans, Sound, RowType, Terminal

(* Reconciling keeps every running worker's row active.                      *)
LEMMA ReconcileKeeps ==
    ASSUME WorkersInv, scans' = Interrupted(Orphans), UNCHANGED <<version, generation, tokens, worker>>
    PROVE  WorkersInv'
<1>1. \A s \in Scans :
        /\ scans'[s] \in RowType
        /\ scans'[s].state \in Active => scans'[s] = scans[s]
        /\ worker[s].step \notin {"none", "finish"} => scans'[s] = scans[s]
  BY InterruptedLeaves DEF Active
<1>2. ScanRows'
  BY <1>1 DEF WorkersInv, ScanRows, Interrupted
<1>3. \A s \in Scans : Sound(s, worker[s], scans[s])'
  BY <1>1 DEF WorkersInv, Sound
<1> QED
  BY <1>1, <1>2, <1>3 DEF WorkersInv, OneAtATime, ActiveScans

(* One worker moves on: the others are not concerned.                        *)
LEMMA WorkerMoves ==
    ASSUME WorkersInv, NEW s \in Scans,
           worker' = [worker EXCEPT ![s] = worker'[s]], worker'[s] \in WorkerType,
           scans' = [scans EXCEPT ![s] = scans'[s]], scans'[s] \in RowType,
           UNCHANGED <<version, generation>>, tokens' \subseteq Scans, tokens \ {s} \subseteq tokens',
           Sound(s, worker'[s], scans'[s]), worker'[s].step \notin {"none", "finish"} => s \in tokens',
           scans'[s].state \in Active => scans[s].state \in Active
    PROVE  WorkersInv'
<1>1. \A t \in Scans : t # s => worker'[t] = worker[t] /\ scans'[t] = scans[t]
  BY DEF WorkersInv, ScanRows
<1>2. ScanRows'
  BY DEF WorkersInv, ScanRows
<1>3. ASSUME NEW t \in Scans PROVE Sound(t, worker[t], scans[t])'
  <2>1. CASE t = s
    BY <2>1 DEF Sound
  <2>2. CASE t # s
    BY <2>2, <1>1 DEF WorkersInv, Sound
  <2> QED
    BY <2>1, <2>2
<1>4. OneAtATime'
  BY <1>1 DEF WorkersInv, OneAtATime, ActiveScans
<1> QED
  BY <1>2, <1>3, <1>4 DEF WorkersInv

(* start queues a scan only when no scan has a worker, so that the new row   *)
(* is the one active row.                                                    *)
LEMMA StartKeeps ==
    ASSUME WorkersInv, NEW s \in Scans, NEW mode \in Modes, NEW background \in BOOLEAN,
           StartScan(s, mode, background)
    PROVE  WorkersInv'
<1>1. CASE Running # {}
  BY <1>1, ReconcileKeeps DEF StartScan
<1>2. CASE Running = {}
  <2> DEFINE row == [state |-> "QUEUED", mode |-> mode, background |-> background]
             w == [step |-> "begin", before |-> 0, file_before |-> 0, generation |-> 0, descriptor |-> 0,
                   linked |-> FALSE, seen |-> 0, seen_with |-> 0, verdict |-> "PARTIAL", outcome |-> "FAILED"]
  <2>1. /\ scans' = [Interrupted(Orphans) EXCEPT ![s] = row]
        /\ tokens' = tokens \cup {s}
        /\ UNCHANGED <<version, generation>>
    BY <1>2 DEF StartScan
  <2>2. worker' = [worker EXCEPT ![s] = w]
    BY <1>2 DEF StartScan, NoWorker
  <2>3. row \in RowType /\ w \in WorkerType
    BY DEF RowType, WorkerType, Active, Steps, Verdicts, Terminal
  <2>4. ASSUME NEW t \in Scans, t # s
        PROVE  /\ worker'[t] = worker[t] /\ scans'[t] \in RowType /\ scans'[t].state \notin Active
               /\ worker[t].step \in {"none", "finish"}
    <3>1. scans'[t] = Interrupted(Orphans)[t] /\ worker'[t] = worker[t]
      BY <2>1, <2>2, <2>4 DEF WorkersInv, ScanRows, Interrupted
    <3>2. t \in Orphans \/ scans[t].state \notin Active
      BY <1>2 DEF Running, ActiveScans
    <3>3. Sound(t, worker[t], scans[t])
      BY DEF WorkersInv
    <3> QED
      BY <3>1, <3>2, <3>3, InterruptedLeaves DEF Active, Sound
  <2>5. scans'[s] = row /\ worker'[s] = w
    BY <2>1, <2>2 DEF WorkersInv, ScanRows, Interrupted
  <2>6. ScanRows'
    BY <2>1, <2>2, <2>3, <2>4, <2>5 DEF WorkersInv, ScanRows, Interrupted
  <2>7. ASSUME NEW t \in Scans PROVE Sound(t, worker[t], scans[t])'
    <3>1. CASE t = s
      BY <2>1, <2>5, <3>1 DEF Sound, Active
    <3>2. CASE t # s
      BY <2>4, <3>2 DEF Sound
    <3> QED
      BY <3>1, <3>2
  <2>8. OneAtATime'
    BY <2>4 DEF OneAtATime, ActiveScans
  <2> QED
    BY <2>6, <2>7, <2>8 DEF WorkersInv
<1> QED
  BY <1>1, <1>2

(* The locals of a worker that is about to end, or that is not there.        *)
LEMMA EndingWorker ==
    /\ Finishing \in WorkerType /\ Finishing.step = "finish"
    /\ NoWorker \in WorkerType /\ NoWorker.step = "none"
<1>1. NoWorker \in WorkerType /\ NoWorker.step = "none"
  BY DEF NoWorker, WorkerType, Steps, Verdicts, Terminal
<1>2. Finishing = [NoWorker EXCEPT !.step = "finish"] /\ "finish" \in Steps
  BY DEF Finishing, Steps
<1> QED
  BY <1>1, <1>2 DEF WorkerType

(* A running worker and its row.                                             *)
LEMMA AtWork ==
    ASSUME WorkersInv, NEW s \in Scans, worker[s].step \notin {"none", "finish"}
    PROVE  /\ worker[s] \in WorkerType /\ scans[s] \in RowType /\ version \in Nat /\ generation \in Nat
           /\ scans[s].state \in Active /\ Sound(s, worker[s], scans[s])
           /\ s \in tokens /\ tokens \subseteq Scans
           /\ scans' = scans => scans' = [scans EXCEPT ![s] = scans'[s]]
           /\ worker \in [Scans -> WorkerType] /\ scans \in [Scans -> RowType]
  BY DEF WorkersInv, ScanRows, Sound

(* Recording a state changes nothing else of one row.                        *)
LEMMA RecordSets ==
    ASSUME WorkersInv, NEW s \in Scans, NEW state \in Active \cup Terminal, Record(s, state)
    PROVE  /\ scans' = [scans EXCEPT ![s] = scans'[s]]
           /\ scans'[s] \in RowType /\ scans'[s].state = state
<1>1. scans \in [Scans -> RowType] /\ scans[s] \in RowType
  BY DEF WorkersInv, ScanRows
<1>2. scans' = [scans EXCEPT ![s] = scans'[s]]
  BY <1>1 DEF Record
<1>3. scans'[s] = [state |-> state, mode |-> scans[s].mode, background |-> scans[s].background]
  BY <1>1 DEF Record, RowType
<1> QED
  BY <1>1, <1>2, <1>3 DEF RowType

(* A worker that writes its result ends.                                     *)
LEMMA EndingKeeps ==
    ASSUME WorkersInv, NEW s \in Scans, NEW state \in Terminal,
           worker' = [worker EXCEPT ![s] = Finishing], Record(s, state),
           worker[s].step \notin {"none", "finish"}, UNCHANGED <<version, generation, tokens>>
    PROVE  WorkersInv'
<1>1. /\ scans' = [scans EXCEPT ![s] = scans'[s]] /\ scans'[s] \in RowType
      /\ scans'[s].state = state
  BY RecordSets
<1>2. worker' = [worker EXCEPT ![s] = worker'[s]] /\ worker'[s] = Finishing
  BY AtWork
<1>3. Sound(s, worker'[s], scans'[s])
  BY <1>2, EndingWorker DEF Sound
<1> QED
  BY <1>1, <1>2, <1>3, AtWork, EndingWorker, WorkerMoves DEF Sound

(* Up to the scan itself, the fingerprint is older than what is read.        *)
LEMMA BeforeScanKeeps ==
    ASSUME WorkersInv, NEW s \in Scans, BeginScan(s) \/ OpenHandle(s) \/ FingerprintHandle(s)
    PROVE  WorkersInv'
<1> DEFINE v == worker[s]
<1>1. UNCHANGED <<version, generation, tokens>> /\ v.step \in {"begin", "open", "fingerprint"}
  BY DEF BeginScan, OpenHandle, FingerprintHandle, At
<1>2. /\ v \in WorkerType /\ scans[s] \in RowType /\ version \in Nat /\ generation \in Nat
      /\ scans[s].state \in Active /\ Sound(s, v, scans[s])
      /\ s \in tokens /\ tokens \subseteq Scans
      /\ scans' = scans => scans' = [scans EXCEPT ![s] = scans'[s]]
      /\ worker \in [Scans -> WorkerType]
  BY <1>1, AtWork
<1>3. CASE BeginScan(s) /\ current
  <2>1. /\ scans' = [scans EXCEPT ![s] = scans'[s]] /\ scans'[s] \in RowType
        /\ scans'[s].state = "SCANNING"
    BY <1>3, RecordSets DEF BeginScan, Active
  <2>2. worker' = [worker EXCEPT ![s] = worker'[s]]
    BY <1>2, <1>3 DEF BeginScan
  <2>3. worker'[s] = [step |-> "open", before |-> version, file_before |-> v.file_before,
                      generation |-> generation, descriptor |-> v.descriptor, linked |-> v.linked,
                      seen |-> v.seen, seen_with |-> v.seen_with, verdict |-> v.verdict, outcome |-> v.outcome]
    BY <1>2, <1>3 DEF BeginScan, WorkerType
  <2>4. worker'[s] \in WorkerType
    BY <1>2, <2>3 DEF WorkerType, Steps
  <2>5. Sound(s, worker'[s], scans'[s])
    BY <1>2, <2>1, <2>3 DEF Sound, Active
  <2> QED
    BY <1>1, <1>2, <2>1, <2>2, <2>4, <2>5, WorkerMoves
<1>4. CASE worker' = [worker EXCEPT ![s] = Finishing] /\ Record(s, "FAILED")
  BY <1>1, <1>4, EndingKeeps DEF Terminal
<1>5. CASE /\ v.step = "open"
           /\ worker' = [worker EXCEPT ![s].step = "fingerprint", ![s].descriptor = version, ![s].linked = TRUE]
           /\ UNCHANGED scans
  <2>2. worker' = [worker EXCEPT ![s] = worker'[s]]
    BY <1>2, <1>5
  <2>3. worker'[s] = [step |-> "fingerprint", before |-> v.before, file_before |-> v.file_before,
                      generation |-> v.generation, descriptor |-> version, linked |-> TRUE,
                      seen |-> v.seen, seen_with |-> v.seen_with, verdict |-> v.verdict, outcome |-> v.outcome]
    BY <1>2, <1>5 DEF WorkerType
  <2>4. worker'[s] \in WorkerType
    BY <1>2, <2>3 DEF WorkerType, Steps
  <2>5. Sound(s, worker'[s], scans'[s])
    BY <1>2, <1>5, <2>3 DEF Sound
  <2> QED
    BY <1>1, <1>2, <1>5, <2>2, <2>4, <2>5, WorkerMoves
<1>6. CASE FingerprintHandle(s)
  <2>1. v.step = "fingerprint" /\ scans' = scans
    BY <1>6 DEF FingerprintHandle, At
  <2>2. worker' = [worker EXCEPT ![s] = worker'[s]]
    BY <1>2, <1>6 DEF FingerprintHandle
  <2>3. worker'[s] = [step |-> "scan", before |-> v.before, file_before |-> version,
                      generation |-> v.generation, descriptor |-> v.descriptor, linked |-> v.linked,
                      seen |-> v.seen, seen_with |-> v.seen_with, verdict |-> v.verdict, outcome |-> v.outcome]
    BY <1>2, <1>6 DEF WorkerType, FingerprintHandle
  <2>4. worker'[s] \in WorkerType
    BY <1>2, <2>3 DEF WorkerType, Steps
  <2>5. Sound(s, worker'[s], scans'[s])
    BY <1>2, <2>1, <2>3 DEF Sound
  <2> QED
    BY <1>1, <1>2, <2>1, <2>2, <2>4, <2>5, WorkerMoves
<1> QED
  BY <1>3, <1>4, <1>5, <1>6 DEF BeginScan, OpenHandle, At

(* clamscan reads what the descriptor reads, with the definitions of then.   *)
LEMMA RunKeeps ==
    ASSUME WorkersInv, NEW s \in Scans, RunScanner(s)
    PROVE  WorkersInv'
<1> DEFINE v == worker[s]
<1>1. UNCHANGED <<version, generation, tokens>> /\ v.step = "scan"
  BY DEF RunScanner, At
<1>2. /\ v \in WorkerType /\ scans[s] \in RowType /\ version \in Nat /\ generation \in Nat
      /\ scans[s].state \in Active /\ Sound(s, v, scans[s])
      /\ s \in tokens /\ tokens \subseteq Scans
      /\ scans' = scans => scans' = [scans EXCEPT ![s] = scans'[s]]
      /\ worker \in [Scans -> WorkerType]
  BY <1>1, AtWork
<1>3. CASE worker' = [worker EXCEPT ![s] = Finishing] /\ Record(s, "FAILED")
  BY <1>1, <1>3, EndingKeeps DEF Terminal
<1>4. ASSUME NEW verdict \in Verdicts, NEW outcome \in Terminal, UNCHANGED scans,
             worker' = [worker EXCEPT ![s].step = "save_files", ![s].verdict = verdict, ![s].outcome = outcome,
                                      ![s].seen = worker[s].descriptor, ![s].seen_with = generation,
                                      ![s].descriptor = 0, ![s].linked = FALSE]
      PROVE  WorkersInv'
  <2>2. worker' = [worker EXCEPT ![s] = worker'[s]]
    BY <1>2, <1>4
  <2>3. worker'[s] = [step |-> "save_files", before |-> v.before, file_before |-> v.file_before,
                      generation |-> v.generation, descriptor |-> 0, linked |-> FALSE,
                      seen |-> v.descriptor, seen_with |-> generation, verdict |-> verdict, outcome |-> outcome]
    BY <1>2, <1>4 DEF WorkerType
  <2>4. worker'[s] \in WorkerType
    BY <1>2, <2>3 DEF WorkerType, Steps
  <2>5. Sound(s, worker'[s], scans'[s])
    BY <1>1, <1>2, <1>4, <2>3 DEF Sound
  <2> QED
    BY <1>1, <1>2, <1>4, <2>2, <2>4, <2>5, WorkerMoves
<1>5. PICK verdict \in Verdicts, outcome \in Terminal :
        IF outcome = "FAILED"
        THEN worker' = [worker EXCEPT ![s] = Finishing] /\ Record(s, "FAILED")
        ELSE /\ worker' = [worker EXCEPT ![s].step = "save_files", ![s].verdict = verdict, ![s].outcome = outcome,
                                         ![s].seen = worker[s].descriptor, ![s].seen_with = generation,
                                         ![s].descriptor = 0, ![s].linked = FALSE]
             /\ UNCHANGED scans
  BY ZenonT(40) DEF RunScanner
<1>6. CASE outcome = "FAILED"
  BY <1>3, <1>5, <1>6
<1>7. CASE outcome # "FAILED"
  BY <1>4, <1>5, <1>7, Zenon
<1> QED
  BY <1>6, <1>7

(* Saving the receipts of the files moves the worker on to the selection.    *)
LEMMA SaveFilesKeeps ==
    ASSUME WorkersInv, NEW s \in Scans, SaveFiles(s)
    PROVE  WorkersInv'
<1> DEFINE v == worker[s]
<1>1. UNCHANGED <<version, generation, tokens, scans>> /\ v.step = "save_files"
  BY DEF SaveFiles, At
<1>2. /\ v \in WorkerType /\ scans[s] \in RowType /\ version \in Nat /\ generation \in Nat
      /\ scans[s].state \in Active /\ Sound(s, v, scans[s])
      /\ s \in tokens /\ tokens \subseteq Scans
      /\ scans' = scans => scans' = [scans EXCEPT ![s] = scans'[s]]
      /\ worker \in [Scans -> WorkerType]
  BY <1>1, AtWork
<1>3. worker' = [worker EXCEPT ![s] = worker'[s]]
  BY <1>2 DEF SaveFiles
<1>4. worker'[s] = [step |-> "save_sources", before |-> v.before, file_before |-> v.file_before,
                    generation |-> v.generation, descriptor |-> v.descriptor, linked |-> v.linked,
                    seen |-> v.seen, seen_with |-> v.seen_with, verdict |-> v.verdict, outcome |-> v.outcome]
  BY <1>2 DEF SaveFiles, WorkerType
<1>5. worker'[s] \in WorkerType
  BY <1>2, <1>4 DEF WorkerType, Steps
<1>6. Sound(s, worker'[s], scans'[s])
  BY <1>1, <1>2, <1>4 DEF Sound
<1> QED
  BY <1>1, <1>2, <1>3, <1>5, <1>6, WorkerMoves

(* Saving the receipt of the selection writes the result.                    *)
LEMMA SaveSourcesKeeps ==
    ASSUME WorkersInv, NEW s \in Scans, SaveSources(s)
    PROVE  WorkersInv'
<1>1. UNCHANGED <<version, generation, tokens>> /\ worker[s].step = "save_sources"
  BY DEF SaveSources, At
<1>2. worker' = [worker EXCEPT ![s] = Finishing] /\ Record(s, IF Unchanged(s) THEN worker[s].outcome ELSE "PARTIAL")
  BY DEF SaveSources
<1>3. (IF Unchanged(s) THEN worker[s].outcome ELSE "PARTIAL") \in Terminal
  BY <1>1, AtWork DEF WorkerType, Terminal
<1> QED
  BY <1>1, <1>2, <1>3, EndingKeeps

(* The token goes with its worker, not before.                               *)
LEMMA FinishKeeps ==
    ASSUME WorkersInv, NEW s \in Scans, FinishScan(s)
    PROVE  WorkersInv'
<1>1. UNCHANGED <<version, generation, scans>> /\ tokens' = tokens \ {s}
  BY DEF FinishScan
<1>2. worker' = [worker EXCEPT ![s] = worker'[s]] /\ worker'[s] = NoWorker
  BY DEF FinishScan, WorkersInv, ScanRows
<1>3. scans' = [scans EXCEPT ![s] = scans'[s]] /\ scans'[s] \in RowType /\ tokens' \subseteq Scans
  BY <1>1 DEF WorkersInv, ScanRows
<1>4. Sound(s, worker'[s], scans'[s])
  BY <1>2, EndingWorker DEF Sound
<1> QED
  BY <1>1, <1>2, <1>3, <1>4, EndingWorker, WorkerMoves

(* The user and freshclam only move the file and the definitions forward,    *)
(* and what an open descriptor reads with them.                              *)
LEMMA ChangesKeep ==
    ASSUME WorkersInv, ChangeFile \/ ChangeDefinitions
    PROVE  WorkersInv'
<1>1. CASE ChangeFile
  <2>1. version' = version + 1 /\ UNCHANGED <<generation, scans, tokens>>
    BY <1>1 DEF ChangeFile
  <2>2. PICK in_place \in BOOLEAN :
          worker' = [s \in Scans |->
            IF ~worker[s].linked THEN worker[s]
            ELSE IF in_place THEN [worker[s] EXCEPT !.descriptor = version + 1]
            ELSE [worker[s] EXCEPT !.linked = FALSE]]
    BY <1>1 DEF ChangeFile
  <2>3. ASSUME NEW s \in Scans
        PROVE  worker'[s] \in WorkerType /\ Sound(s, worker[s], scans[s])'
    <3> DEFINE v == worker[s]
    <3>1. v \in WorkerType /\ version \in Nat /\ generation \in Nat /\ Sound(s, v, scans[s])
      BY DEF WorkersInv, ScanRows
    <3>2. CASE worker'[s] = v
      BY <2>1, <3>1, <3>2 DEF Sound, WorkerType
    <3>3. CASE worker'[s] = [v EXCEPT !.descriptor = version + 1]
      <4>1. worker'[s] = [step |-> v.step, before |-> v.before, file_before |-> v.file_before,
                    generation |-> v.generation, descriptor |-> version + 1, linked |-> v.linked,
                    seen |-> v.seen, seen_with |-> v.seen_with, verdict |-> v.verdict, outcome |-> v.outcome]
        BY <3>1, <3>3 DEF WorkerType
      <4> QED
        BY <2>1, <3>1, <4>1 DEF Sound, WorkerType
    <3>4. CASE worker'[s] = [v EXCEPT !.linked = FALSE]
      <4>1. worker'[s] = [step |-> v.step, before |-> v.before, file_before |-> v.file_before,
                    generation |-> v.generation, descriptor |-> v.descriptor, linked |-> FALSE,
                    seen |-> v.seen, seen_with |-> v.seen_with, verdict |-> v.verdict, outcome |-> v.outcome]
        BY <3>1, <3>4 DEF WorkerType
      <4> QED
        BY <2>1, <3>1, <4>1 DEF Sound, WorkerType
    <3> QED
      BY <2>2, <3>2, <3>3, <3>4
  <2>4. ScanRows'
    BY <2>1, <2>2, <2>3 DEF WorkersInv, ScanRows
  <2> QED
    BY <2>1, <2>3, <2>4 DEF WorkersInv, OneAtATime, ActiveScans
<1>2. CASE ChangeDefinitions
  <2>1. /\ generation' \in {generation, generation + 1}
        /\ UNCHANGED <<version, scans, tokens, worker>>
    BY <1>2 DEF ChangeDefinitions
  <2>2. ScanRows'
    BY <2>1 DEF WorkersInv, ScanRows
  <2>3. ASSUME NEW s \in Scans PROVE Sound(s, worker[s], scans[s])'
    <3>1. worker[s] \in WorkerType /\ version \in Nat /\ generation \in Nat /\ Sound(s, worker[s], scans[s])
      BY DEF WorkersInv, ScanRows
    <3> QED
      BY <2>1, <3>1 DEF Sound, WorkerType
  <2> QED
    BY <2>1, <2>2, <2>3 DEF WorkersInv, OneAtATime, ActiveScans
<1> QED
  BY <1>1, <1>2

(* A restart ends every worker; a cancelled one goes on to its next check.   *)
LEMMA RestartKeeps ==
    ASSUME WorkersInv, ScanServiceRestart \/ (\E s \in Scans : CancelScan(s)) \/ UNCHANGED scanVars
    PROVE  WorkersInv'
<1>1. CASE ScanServiceRestart
  <2>1. /\ UNCHANGED <<version, generation, scans>> /\ tokens' = {}
        /\ worker' = [s \in Scans |-> NoWorker]
    BY <1>1 DEF ScanServiceRestart
  <2>2. ScanRows'
    BY <2>1, EndingWorker DEF WorkersInv, ScanRows
  <2>3. \A s \in Scans : Sound(s, worker[s], scans[s])'
    BY <2>1, EndingWorker DEF Sound
  <2> QED
    BY <2>1, <2>2, <2>3 DEF WorkersInv, OneAtATime, ActiveScans
<1>2. CASE (\E s \in Scans : CancelScan(s)) \/ UNCHANGED scanVars
  <2>1. UNCHANGED <<version, generation, scans, tokens, worker>>
    BY <1>2 DEF CancelScan, scanVars
  <2> QED
    BY <2>1 DEF WorkersInv, ScanRows, Sound, OneAtATime, ActiveScans
<1> QED
  BY <1>1, <1>2

(* Every step keeps the workers, their rows and their readings.              *)
LEMMA WorkersStep == WorkersInv /\ [ScanNext]_scanVars => WorkersInv'
<1> SUFFICES ASSUME WorkersInv, [ScanNext]_scanVars PROVE WorkersInv'
  OBVIOUS
<1>1. ASSUME NEW s \in Scans, NEW r \in Requests, StartScan(s, r.mode, r.background) PROVE WorkersInv'
  BY <1>1, StartKeeps DEF Requests
<1>2. ASSUME NEW s \in Scans, WorkerStep(s) PROVE WorkersInv'
  BY <1>2, BeforeScanKeeps, RunKeeps, SaveFilesKeeps, SaveSourcesKeeps, FinishKeeps DEF WorkerStep
<1>3. CASE ReconcileInterrupted
  BY <1>3, ReconcileKeeps DEF ReconcileInterrupted
<1>4. CASE ScanServiceRestart \/ (\E s \in Scans : CancelScan(s)) \/ UNCHANGED scanVars
  BY <1>4, RestartKeeps
<1>5. CASE ChangeFile \/ ChangeDefinitions
  BY <1>5, ChangesKeep
<1> QED
  BY <1>1, <1>2, <1>3, <1>4, <1>5 DEF ScanNext

(* Of all steps only the two savings write receipts, and the verdict of a    *)
(* selection is written only when neither the file nor the definitions       *)
(* changed since before the scan, hence are what clamscan saw.               *)
LEMMA HonestStep == ScanInv /\ [ScanNext]_scanVars => SelectionsAreHonest'
<1> SUFFICES ASSUME ScanInv, [ScanNext]_scanVars PROVE SelectionsAreHonest'
  OBVIOUS
<1>1. ASSUME NEW s \in Scans, SaveFiles(s) PROVE SelectionsAreHonest'
  <2> DEFINE v == worker[s]
             verdict == IF generation = v.generation THEN v.verdict ELSE "PARTIAL"
             receipt == [state |-> IF v.file_before = version THEN verdict ELSE "PARTIAL",
                         fingerprint |-> version, generation |-> v.generation, walked |-> TRUE,
                         honest |-> v.seen = version /\ v.seen_with = v.generation]
  <2>1. v \in WorkerType /\ version \in Nat
    BY DEF ScanInv, WorkersInv, ScanRows
  <2>2. receipts' = [receipts EXCEPT !["file"] = receipt]
    BY <1>1 DEF SaveFiles, Saved
  <2> QED
    BY <2>1, <2>2 DEF ScanInv, SelectionsAreHonest, WorkerType, Verdicts, Paths
<1>2. ASSUME NEW s \in Scans, SaveSources(s) PROVE SelectionsAreHonest'
  <2> DEFINE v == worker[s]
             path == Selection(scans[s].mode)
             complete == scans[s].mode = "FILE" \/ v.outcome = "COMPLETED"
             verdict == IF Unchanged(s) /\ complete THEN v.verdict ELSE "PARTIAL"
             receipt == [state |-> IF v.before = version THEN verdict ELSE "PARTIAL",
                         fingerprint |-> version, generation |-> v.generation, walked |-> FALSE,
                         honest |-> v.seen = version /\ v.seen_with = v.generation]
  <2>1. /\ v \in WorkerType /\ version \in Nat /\ generation \in Nat /\ Sound(s, v, scans[s])
        /\ v.step = "save_sources" /\ path \in Paths
    BY <1>2 DEF ScanInv, WorkersInv, ScanRows, SaveSources, At, Selection, Paths
  <2>2. receipts' = [receipts EXCEPT ![path] = receipt]
    BY <1>2 DEF SaveSources, Saved
  <2>3. receipt.state = "KNOWN" => receipt.honest
    <3>1. Unchanged(s) => v.seen = version /\ v.seen_with = v.generation
      BY <2>1 DEF Sound, Unchanged, WorkerType
    <3>2. receipt.state = "KNOWN" => Unchanged(s)
      BY DEF Unchanged
    <3> QED
      BY <3>1, <3>2
  <2>4. receipt \in [state : Verdicts \cup {"NOT_SCANNED"}, fingerprint : Nat, generation : Nat,
                     honest : BOOLEAN, walked : BOOLEAN]
    BY <2>1 DEF WorkerType, Verdicts
  <2> HIDE DEF receipt, path
  <2> QED
    BY <2>1, <2>2, <2>3, <2>4 DEF ScanInv, SelectionsAreHonest
<1>3. CASE UNCHANGED receipts
  BY <1>3 DEF ScanInv, SelectionsAreHonest
<1>4. ASSUME NEW s \in Scans, WorkerStep(s), ~SaveFiles(s), ~SaveSources(s) PROVE UNCHANGED receipts
  BY <1>4 DEF WorkerStep, BeginScan, OpenHandle, FingerprintHandle, RunScanner, FinishScan
<1>5. ASSUME NEW s \in Scans, NEW r \in Requests, StartScan(s, r.mode, r.background) PROVE UNCHANGED receipts
  BY <1>5 DEF StartScan
<1>6. CASE \/ ReconcileInterrupted \/ ScanServiceRestart \/ (\E s \in Scans : CancelScan(s))
           \/ ChangeFile \/ ChangeDefinitions \/ UNCHANGED scanVars
  BY <1>3, <1>6 DEF ReconcileInterrupted, ScanServiceRestart, CancelScan, ChangeFile, ChangeDefinitions, scanVars
<1> QED
  BY <1>1, <1>2, <1>3, <1>4, <1>5, <1>6 DEF ScanNext

(* The invariant holds in every reachable state.                             *)
LEMMA ScansKeep == ScanSpec => []ScanInv
<1>1. ScanInv /\ [ScanNext]_scanVars => ScanInv'
  BY WorkersStep, HonestStep DEF ScanInv
<1> QED
  BY <1>1, ScanStart, PTL DEF ScanSpec

(* A valid receipt of a selection is of the bytes and the definitions of     *)
(* now, for any number of scans and of changes of either while they run      *)
(* (_run, scan_cache.save, scan_cache.lookup).                               *)
THEOREM ReceiptsTellTheTruth == ScanSpec => []SelectionReceiptIsTruthful
<1>1. ScanInv => SelectionReceiptIsTruthful
  BY DEF ScanInv, SelectionsAreHonest, SelectionReceiptIsTruthful, Truthful, Valid
<1> QED
  BY <1>1, ScansKeep, PTL

(* Two scans never run at once, the rows a dead service left behind counted  *)
(* (start, _active).                                                         *)
THEOREM ScansAreSerial == ScanSpec => []OneActiveScan
<1>1. ASSUME ScanInv PROVE OneActiveScan
  <2>1. CASE ActiveScans = {}
    BY <2>1, FS_EmptySet DEF OneActiveScan
  <2>2. ASSUME NEW s, ActiveScans = {s} PROVE OneActiveScan
    <3>1. Cardinality({s}) = 1
      BY FS_Singleton
    <3> QED
      BY <2>2, <3>1 DEF OneActiveScan
  <2> QED
    BY <1>1, <2>1, <2>2 DEF ScanInv, WorkersInv, OneAtATime
<1> QED
  BY <1>1, ScansKeep, PTL

(* Once a scan's row says how it ended, no late worker, reconciliation,      *)
(* second scan or restart changes it (_run, _mark_interrupted_if_orphaned).  *)
THEOREM ResultsAreFinal == ScanSpec => ScanResultIsFinal
<1>1. ScanInv /\ [ScanNext]_scanVars =>
        [\A s \in Scans : scans[s].state \in Terminal => scans'[s] = scans[s]]_scanVars
  <2> SUFFICES ASSUME ScanInv, ScanNext, NEW t \in Scans, scans[t].state \in Terminal
               PROVE  scans'[t] = scans[t]
    OBVIOUS
  <2>1. WorkersInv /\ scans[t].state \notin Active
    BY DEF ScanInv, Active, Terminal
  <2>2. Interrupted(Orphans)[t] = scans[t]
    BY <2>1, InterruptedLeaves
  <2>3. ASSUME NEW s \in Scans, NEW r \in Requests, StartScan(s, r.mode, r.background) PROVE scans'[t] = scans[t]
    <3>1. s # t
      BY <2>3 DEF StartScan, Terminal
    <3> QED
      BY <2>2, <2>3, <3>1 DEF StartScan, Interrupted
  <2>4. ASSUME NEW s \in Scans, WorkerStep(s) PROVE scans'[t] = scans[t]
    <3>1. CASE UNCHANGED scans
      BY <3>1
    <3>2. CASE worker[s].step \notin {"none", "finish"} /\ \E state : Record(s, state)
      <4>1. s # t
        BY <2>1, <3>2, AtWork
      <4> QED
        BY <3>2, <4>1, <2>1 DEF Record, WorkersInv, ScanRows
    <3> QED
      BY <2>4, <3>1, <3>2, ZenonT(40)
      DEF WorkerStep, BeginScan, OpenHandle, FingerprintHandle, RunScanner, SaveFiles, SaveSources, FinishScan, At
  <2>5. CASE ReconcileInterrupted
    BY <2>2, <2>5 DEF ReconcileInterrupted
  <2>6. CASE ScanServiceRestart \/ (\E s \in Scans : CancelScan(s)) \/ ChangeFile \/ ChangeDefinitions
    BY <2>6 DEF ScanServiceRestart, CancelScan, ChangeFile, ChangeDefinitions
  <2> QED
    BY <2>3, <2>4, <2>5, <2>6 DEF ScanNext
<1> QED
  BY <1>1, ScansKeep, PTL DEF ScanSpec, ScanResultIsFinal

-----------------------------------------------------------------------------
(* The arrival scanner.                                                     *)

\* A row of the table arrivals and a walk under way.
ArrivalRow == [signature : Nat, done : 0..2, priority : 0..1]
WalkType == [started : Nat, since : Nat, read : BOOLEAN, entries : SUBSET Files]

ArrivalRows ==
    /\ clock \in Nat /\ changed_at \in [Files -> Nat] /\ checked \subseteq Files
    /\ arrivals \in [Files -> ArrivalRow] /\ watermarks \in [Roots -> Nat] /\ walks \in [Roots -> WalkType]
    /\ events \subseteq Files /\ batch \subseteq Files
    /\ Fixed \subseteq mounted

\* No change, no row, no watermark and no walk is of the future.
NothingAhead ==
    /\ \A f \in Files : changed_at[f] <= clock /\ arrivals[f].signature <= clock
    /\ \A r \in Roots : watermarks[r] <= clock /\ walks[r].started <= clock

\* The file as it is now was scanned, waits in the queue, or was passed over.
Handled(f) ==
    \/ f \in passedOver
    \/ f \in checked
    \/ arrivals[f].signature = changed_at[f] /\ arrivals[f].done = 0

HomeFile(f) == RootOf[f] \in Fixed /\ changed_at[f] > 1

\* A finished row is of a scan that saw the file as it is now, or of an older
\* state of the file.
DoneIsChecked ==
    \A f \in Files : changed_at[f] > 1 /\ arrivals[f].done # 0 /\ arrivals[f].signature = changed_at[f]
                        => f \in checked

\* A walk starts from the watermark of its root, and every file it has read
\* past and that is older than its start is handled.
WalkCovers ==
    \A r \in Roots : walks[r] # NoWalk =>
        /\ walks[r].since = watermarks[r]
        /\ walks[r].read => \A f \in Files :
             RootOf[f] = r /\ r \in Fixed /\ changed_at[f] > 1 /\ changed_at[f] < walks[r].started
                => f \in walks[r].entries \/ Handled(f)

ArrivalInv == ArrivalRows /\ NothingAhead /\ DoneIsChecked /\ WalkCovers /\ HomeArrivalIsNotForgotten

(* At the first start nothing has arrived.                                   *)
LEMMA ArrivalStart == ArrivalInit => ArrivalInv
<1> SUFFICES ASSUME ArrivalInit PROVE ArrivalInv
  OBVIOUS
<1>1. ArrivalRows
  BY DEF ArrivalInit, ArrivalRows, ArrivalRow, WalkType, NoRow, NoWalk, Roots, Fixed
<1> QED
  BY <1>1, ArrivalConstants
  DEF ArrivalInit, ArrivalInv, ArrivalRows, NothingAhead, DoneIsChecked, WalkCovers, HomeArrivalIsNotForgotten, NoRow, NoWalk, Roots, Fixed

(* The larger of two priorities is one of them.                              *)
LEMMA MaxOfTwo ==
    ASSUME NEW a \in 0..1, NEW b \in 0..1
    PROVE  Max({a, b}) \in 0..1
<1>1. \E x \in {a, b} : \A y \in {a, b} : x >= y
  OBVIOUS
<1> QED
  BY <1>1 DEF Max

(* Observing a file that is there, with room for it, leaves it in the queue  *)
(* or scanned, and takes no unfinished row away (ArrivalQueue.observe).      *)
LEMMA ObservedHandles ==
    ASSUME ArrivalInv, NEW f \in Files, NEW priority \in 0..1, ~Refused(f, priority), Observed(f, priority),
           UNCHANGED <<clock, changed_at, checked, passedOver>>
    PROVE  /\ arrivals' \in [Files -> ArrivalRow]
           /\ \A g \in Files : arrivals'[g].signature <= clock
           /\ DoneIsChecked'
           /\ \A g \in Files : changed_at[g] > 1 /\ Handled(g) => Handled(g)'
           /\ changed_at[f] > 1 => Handled(f)'
<1> DEFINE rank == Rank(f, priority)
           row == [signature |-> changed_at[f], done |-> 0, priority |-> rank]
<1>1. row \in ArrivalRow /\ row.signature <= clock
  <2>1. arrivals[f].priority \in 0..1 /\ changed_at[f] \in Nat /\ changed_at[f] <= clock
    BY DEF ArrivalInv, ArrivalRows, NothingAhead, ArrivalRow
  <2>2. rank \in 0..1
    BY <2>1, MaxOfTwo DEF Rank
  <2> QED
    BY <2>1, <2>2 DEF ArrivalRow
<1>2. NoRow \in ArrivalRow /\ NoRow.signature <= clock /\ NoRow.done = 0 /\ NoRow.signature = 0
  BY DEF NoRow, ArrivalRow, ArrivalInv, ArrivalRows
<1>3. \/ /\ UNCHANGED arrivals
         /\ changed_at[f] = 0 \/ arrivals[f].signature = changed_at[f]
      \/ arrivals' = [arrivals EXCEPT ![f] = row]
      \/ \E g \in Files : arrivals[g].done # 0 /\ g # f /\ arrivals' = [arrivals EXCEPT ![g] = NoRow, ![f] = row]
  BY DEF Observed, Evictable, Full, Queued
<1> HIDE DEF row, rank
<1>4. CASE UNCHANGED arrivals /\ (changed_at[f] = 0 \/ arrivals[f].signature = changed_at[f])
  BY <1>4 DEF ArrivalInv, ArrivalRows, NothingAhead, DoneIsChecked, Handled, ArrivalRow
<1>5. CASE arrivals' = [arrivals EXCEPT ![f] = row]
  BY <1>1, <1>5 DEF ArrivalInv, ArrivalRows, NothingAhead, DoneIsChecked, Handled, ArrivalRow, row
<1>6. ASSUME NEW g \in Files, arrivals[g].done # 0, g # f, arrivals' = [arrivals EXCEPT ![g] = NoRow, ![f] = row]
      PROVE  /\ arrivals' \in [Files -> ArrivalRow]
             /\ \A h \in Files : arrivals'[h].signature <= clock
             /\ DoneIsChecked'
             /\ \A h \in Files : changed_at[h] > 1 /\ Handled(h) => Handled(h)'
             /\ changed_at[f] > 1 => Handled(f)'
  BY <1>1, <1>2, <1>6 DEF ArrivalInv, ArrivalRows, NothingAhead, DoneIsChecked, Handled, ArrivalRow, row
<1> QED
  BY <1>3, <1>4, <1>5, <1>6

\* What a step must leave true, said of the parts of the state it may move.
ArrivalKept ==
    /\ UNCHANGED <<clock, changed_at>>
    /\ \A g \in Files : HomeFile(g) /\ Handled(g) => Handled(g)'
    /\ DoneIsChecked'

(* A step that moves no watermark and no walk, and only adds to what is      *)
(* handled, keeps the invariant.                                             *)
LEMMA QueueKeeps ==
    ASSUME ArrivalInv, ArrivalKept, UNCHANGED <<watermarks, walks>>,
           arrivals' \in [Files -> ArrivalRow], \A g \in Files : arrivals'[g].signature <= clock,
           checked' \subseteq Files, events' \subseteq Files, batch' \subseteq Files, Fixed \subseteq mounted'
    PROVE  ArrivalInv'
<1>1. ArrivalRows' /\ NothingAhead'
  BY DEF ArrivalInv, ArrivalRows, NothingAhead, ArrivalKept
<1>2. WalkCovers'
  BY DEF ArrivalInv, WalkCovers, ArrivalKept, HomeFile
<1>3. HomeArrivalIsNotForgotten'
  BY DEF ArrivalInv, HomeArrivalIsNotForgotten, Accounted, Handled, ArrivalKept, HomeFile
<1> QED
  BY <1>1, <1>2, <1>3 DEF ArrivalInv, ArrivalKept

(* Events only speed the queue up: whatever becomes of them, of the mounts   *)
(* or of a restart that drops the walks, nothing handled is lost.            *)
LEMMA EventsKeep ==
    ASSUME ArrivalInv, PassFails \/ (\E f \in Files : ObserveEvent(f)) \/ \E r \in Roots : Mount(r)
    PROVE  ArrivalInv'
<1>1. CASE PassFails \/ \E r \in Roots : Mount(r)
  <2>1. UNCHANGED <<clock, changed_at, watermarks, walks, arrivals, checked, batch, passedOver>>
    BY <1>1 DEF PassFails, Mount
  <2>2. events' \subseteq Files /\ Fixed \subseteq mounted'
    BY <1>1 DEF PassFails, Mount, ArrivalInv, ArrivalRows
  <2>3. ArrivalKept
    BY <2>1 DEF ArrivalKept, ArrivalInv, DoneIsChecked, Handled
  <2> QED
    BY <2>1, <2>2, <2>3, QueueKeeps DEF ArrivalInv, ArrivalRows, NothingAhead
<1>2. ASSUME NEW f \in Files, ObserveEvent(f) PROVE ArrivalInv'
  <2>1. UNCHANGED <<clock, changed_at, watermarks, walks, checked, batch, mounted, passedOver>> /\ events' \subseteq Files
    BY <1>2 DEF ObserveEvent, ArrivalInv, ArrivalRows
  <2>2. CASE UNCHANGED arrivals
    <3>1. ArrivalKept
      BY <2>1, <2>2 DEF ArrivalKept, ArrivalInv, DoneIsChecked, Handled
    <3> QED
      BY <2>1, <2>2, <3>1, QueueKeeps DEF ArrivalInv, ArrivalRows, NothingAhead
  <2>3. CASE ~Refused(f, 1) /\ Observed(f, 1)
    <3>1. /\ arrivals' \in [Files -> ArrivalRow]
          /\ \A g \in Files : arrivals'[g].signature <= clock
          /\ DoneIsChecked'
          /\ \A g \in Files : changed_at[g] > 1 /\ Handled(g) => Handled(g)'
      BY <2>1, <2>3, ObservedHandles
    <3> QED
      BY <2>1, <3>1, QueueKeeps DEF ArrivalInv, ArrivalRows, ArrivalKept, HomeFile
  <2> QED
    BY <1>2, <2>2, <2>3 DEF ObserveEvent
<1> QED
  BY <1>1, <1>2

(* ready drops only rows whose file or root is gone or that it passes over,  *)
(* and takes the present state of the others.                                *)
LEMMA StartBatchKeeps ==
    ASSUME ArrivalInv, StartBatch
    PROVE  ArrivalInv'
<1>1. UNCHANGED <<clock, changed_at, mounted, events, walks, watermarks, checked>> /\ batch' \subseteq Files
  BY DEF StartBatch, Ready, Queued
<1>0. PICK unseen :
        /\ passedOver' = passedOver \cup unseen
        /\ arrivals' = [f \in Files |->
             IF f \notin Queued \/ arrivals[f].done # 0 THEN arrivals[f]
             ELSE IF RootOf[f] \notin mounted \/ changed_at[f] = 0 \/ f \in unseen THEN NoRow
             ELSE IF changed_at[f] # arrivals[f].signature
                  THEN [arrivals[f] EXCEPT !.signature = changed_at[f], !.done = 0]
             ELSE arrivals[f]]
  BY Zenon DEF StartBatch
<1>2. ASSUME NEW f \in Files
      PROVE  /\ arrivals'[f] \in ArrivalRow /\ arrivals'[f].signature <= clock
             /\ arrivals'[f].done # 0 => arrivals'[f] = arrivals[f]
             /\ HomeFile(f) /\ Handled(f) => Handled(f)'
  <2>1. /\ arrivals[f] \in ArrivalRow /\ arrivals[f].signature <= clock /\ clock \in Nat
        /\ changed_at[f] \in Nat /\ changed_at[f] <= clock /\ Fixed \subseteq mounted
    BY DEF ArrivalInv, ArrivalRows, NothingAhead
  <2>2. CASE arrivals'[f] = arrivals[f]
    BY <1>0, <1>1, <2>1, <2>2 DEF Handled
  <2>3. CASE arrivals'[f] = NoRow /\ (RootOf[f] \notin mounted \/ changed_at[f] = 0 \/ f \in unseen)
    <3>1. NoRow \in ArrivalRow /\ NoRow.signature = 0 /\ NoRow.done = 0
      BY DEF NoRow, ArrivalRow
    <3>2. HomeFile(f) => f \in unseen
      BY <2>1, <2>3 DEF HomeFile
    <3>3. f \in unseen => f \in passedOver'
      BY <1>0
    <3> QED
      BY <2>1, <2>3, <3>1, <3>2, <3>3 DEF Handled
  <2>4. CASE arrivals'[f] = [arrivals[f] EXCEPT !.signature = changed_at[f], !.done = 0]
    <3>1. arrivals'[f] = [signature |-> changed_at[f], done |-> 0, priority |-> arrivals[f].priority]
      BY <2>1, <2>4 DEF ArrivalRow
    <3> QED
      BY <1>1, <2>1, <3>1 DEF ArrivalRow, Handled
  <2> QED
    BY <1>0, <2>2, <2>3, <2>4
<1>3. arrivals' \in [Files -> ArrivalRow]
  BY <1>0, <1>2
<1>4. ArrivalKept
  BY <1>1, <1>2 DEF ArrivalKept, ArrivalInv, DoneIsChecked
<1> QED
  BY <1>1, <1>2, <1>3, <1>4, QueueKeeps DEF ArrivalInv, ArrivalRows

(* A file leaves the queue by its own receipt, which is of its state when    *)
(* the scan ended.                                                           *)
LEMMA EndBatchKeeps ==
    ASSUME ArrivalInv, EndBatch
    PROVE  ArrivalInv'
<1>1. UNCHANGED <<clock, changed_at, mounted, events, walks, watermarks, passedOver>> /\ batch' = {}
  BY DEF EndBatch
<1>2. PICK valid \in SUBSET {f \in batch : changed_at[f] # 0}, limit \in SUBSET batch :
        /\ arrivals' = [f \in Files |->
             IF f \notin batch \/ arrivals[f] = NoRow THEN arrivals[f]
             ELSE [arrivals[f] EXCEPT !.done = IF f \in valid THEN 1 ELSE IF f \in limit THEN 2 ELSE 0]]
        /\ checked' = checked \cup {f \in valid \cup limit : changed_at[f] # 0}
  BY Zenon DEF EndBatch
<1>3. ASSUME NEW f \in Files
      PROVE  /\ arrivals'[f] \in ArrivalRow /\ arrivals'[f].signature = arrivals[f].signature
             /\ f \in checked => f \in checked'
             /\ f \in checked' \/ changed_at[f] = 0 \/ arrivals'[f].done = 0 \/ arrivals'[f] = arrivals[f]
  <2>1. arrivals[f] \in ArrivalRow
    BY DEF ArrivalInv, ArrivalRows
  <2>2. /\ f \in checked => f \in checked'
        /\ f \in valid \cup limit /\ changed_at[f] # 0 => f \in checked'
    BY <1>2
  <2>3. CASE f \notin batch \/ arrivals[f] = NoRow
    <3>1. arrivals'[f] = arrivals[f]
      BY <1>2, <2>3
    <3> QED
      BY <2>1, <2>2, <3>1
  <2>4. CASE ~(f \notin batch \/ arrivals[f] = NoRow)
    <3>1. arrivals'[f] = [arrivals[f] EXCEPT !.done = IF f \in valid THEN 1 ELSE IF f \in limit THEN 2 ELSE 0]
      BY <1>2, <2>4
    <3>2. arrivals'[f] = [signature |-> arrivals[f].signature, priority |-> arrivals[f].priority,
                          done |-> IF f \in valid THEN 1 ELSE IF f \in limit THEN 2 ELSE 0]
      BY <2>1, <3>1 DEF ArrivalRow
    <3>3. CASE f \in valid \cup limit
      <4>1. PICK d \in {1, 2} :
              arrivals'[f] = [signature |-> arrivals[f].signature, priority |-> arrivals[f].priority, done |-> d]
        BY <3>2, <3>3
      <4>2. f \in checked' \/ changed_at[f] = 0
        BY <2>2, <3>3
      <4> QED
        BY <2>1, <2>2, <4>1, <4>2 DEF ArrivalRow
    <3>4. CASE f \notin valid \cup limit
      <4>1. arrivals'[f] = [signature |-> arrivals[f].signature, priority |-> arrivals[f].priority, done |-> 0]
        BY <3>2, <3>4
      <4> QED
        BY <2>1, <2>2, <3>4, <4>1 DEF ArrivalRow
    <3> QED
      BY <3>3, <3>4
  <2> QED
    BY <2>3, <2>4
<1>4. arrivals' \in [Files -> ArrivalRow] /\ checked' \subseteq Files
  BY <1>2, <1>3 DEF ArrivalInv, ArrivalRows
<1>5. ArrivalKept
  <2>1. \A g \in Files : HomeFile(g) /\ Handled(g) => Handled(g)'
    BY <1>1, <1>3 DEF ArrivalInv, ArrivalRows, Handled, HomeFile
  <2>2. DoneIsChecked'
    BY <1>1, <1>3 DEF ArrivalInv, ArrivalRows, DoneIsChecked
  <2> QED
    BY <1>1, <2>1, <2>2 DEF ArrivalKept
<1> QED
  BY <1>1, <1>3, <1>4, <1>5, QueueKeeps DEF ArrivalInv, ArrivalRows, NothingAhead

(* A change is newer than every watermark and every walk under way.          *)
LEMMA ArriveKeeps ==
    ASSUME ArrivalInv, NEW f \in Files, Arrive(f)
    PROVE  ArrivalInv'
<1>1. /\ clock' = clock + 1 /\ changed_at' = [changed_at EXCEPT ![f] = clock + 1]
      /\ UNCHANGED <<mounted, walks, arrivals, watermarks, batch>> /\ events' \subseteq Files
      /\ passedOver' = passedOver \ {f} /\ checked' = checked \ {f}
  BY DEF Arrive, Noticed, ArrivalInv, ArrivalRows
<1>2. ArrivalRows' /\ NothingAhead'
  BY <1>1 DEF ArrivalInv, ArrivalRows, ArrivalRow, NothingAhead, WalkType
<1>3. DoneIsChecked'
  BY <1>1 DEF ArrivalInv, ArrivalRows, ArrivalRow, NothingAhead, DoneIsChecked
<1>4. WalkCovers'
  BY <1>1 DEF ArrivalInv, ArrivalRows, NothingAhead, WalkCovers, Handled, WalkType
<1>5. HomeArrivalIsNotForgotten'
  <2> SUFFICES ASSUME NEW g \in Files, g \notin passedOver', RootOf[g] \in Fixed, changed_at'[g] > 1
               PROVE  Accounted(g)'
    BY DEF HomeArrivalIsNotForgotten
  <2>1. CASE g = f
    <3>1. watermarks[RootOf[g]] \in Nat /\ watermarks[RootOf[g]] <= clock /\ clock \in Nat /\ changed_at'[g] = clock + 1
      BY <1>1, <2>1, ArrivalConstants DEF ArrivalInv, ArrivalRows, NothingAhead, Roots
    <3> QED
      BY <1>1, <3>1 DEF Accounted
  <2>2. CASE g # f
    <3>1. changed_at'[g] = changed_at[g]
      BY <1>1, <2>2 DEF ArrivalInv, ArrivalRows
    <3>2. g \notin passedOver
      BY <1>1, <2>2
    <3> QED
      BY <1>1, <2>2, <3>1, <3>2 DEF ArrivalInv, HomeArrivalIsNotForgotten, Accounted
  <2> QED
    BY <2>1, <2>2
<1> QED
  BY <1>2, <1>3, <1>4, <1>5 DEF ArrivalInv

(* A file that is gone is nobody's concern.                                  *)
LEMMA RemoveKeeps ==
    ASSUME ArrivalInv, NEW f \in Files, Remove(f)
    PROVE  ArrivalInv'
<1>1. /\ changed_at' = [changed_at EXCEPT ![f] = 0]
      /\ UNCHANGED <<clock, events, mounted, walks, arrivals, watermarks, batch>>
      /\ passedOver' = passedOver \ {f} /\ checked' = checked \ {f}
  BY DEF Remove
<1>2. ArrivalRows' /\ NothingAhead'
  BY <1>1 DEF ArrivalInv, ArrivalRows, NothingAhead
<1>3. DoneIsChecked'
  BY <1>1 DEF ArrivalInv, ArrivalRows, DoneIsChecked
<1>4. WalkCovers'
  BY <1>1 DEF ArrivalInv, ArrivalRows, WalkCovers, Handled
<1>5. HomeArrivalIsNotForgotten'
  BY <1>1 DEF ArrivalInv, ArrivalRows, HomeArrivalIsNotForgotten, Accounted
<1> QED
  BY <1>2, <1>3, <1>4, <1>5 DEF ArrivalInv

(* A walk that begins, or that a restart drops, moves no watermark.          *)
LEMMA StartWalkKeeps ==
    ASSUME ArrivalInv, ArrivalRestart \/ \E r \in Roots : StartWalk(r)
    PROVE  ArrivalInv'
<1>1. UNCHANGED <<clock, changed_at, mounted, arrivals, watermarks, batch, checked, passedOver>> /\ events' \subseteq Files
  BY DEF ArrivalRestart, StartWalk, ArrivalInv, ArrivalRows
<1>2. NoWalk \in WalkType /\ NoWalk.started = 0 /\ NoWalk.read = FALSE
  BY DEF NoWalk, WalkType
<1>3. ASSUME NEW r \in Roots
      PROVE  /\ walks'[r] \in WalkType /\ walks'[r].started <= clock
             /\ \/ walks'[r] = NoWalk \/ walks'[r] = walks[r]
                \/ walks'[r].since = watermarks[r] /\ ~walks'[r].read
  <2>1. walks[r] \in WalkType /\ walks[r].started <= clock /\ clock \in Nat /\ watermarks[r] \in Nat
    BY DEF ArrivalInv, ArrivalRows, NothingAhead
  <2>2. CASE walks'[r] = NoWalk \/ walks'[r] = walks[r]
    BY <1>2, <2>1, <2>2
  <2>3. CASE walks'[r] = [NoWalk EXCEPT !.started = clock, !.since = watermarks[r]]
    <3>1. walks'[r] = [started |-> clock, since |-> watermarks[r], read |-> FALSE, entries |-> {}]
      BY <2>3 DEF NoWalk
    <3> QED
      BY <2>1, <3>1 DEF WalkType
  <2> QED
    BY <2>2, <2>3 DEF ArrivalRestart, StartWalk, ArrivalInv, ArrivalRows
<1>4. walks' \in [Roots -> WalkType]
  BY <1>3 DEF ArrivalRestart, StartWalk, ArrivalInv, ArrivalRows
<1>5. ArrivalRows' /\ NothingAhead' /\ DoneIsChecked'
  BY <1>1, <1>3, <1>4 DEF ArrivalInv, ArrivalRows, NothingAhead, DoneIsChecked
<1>6. WalkCovers'
  BY <1>1, <1>2, <1>3 DEF ArrivalInv, WalkCovers, Handled
<1>7. HomeArrivalIsNotForgotten'
  BY <1>1 DEF ArrivalInv, HomeArrivalIsNotForgotten, Accounted
<1> QED
  BY <1>5, <1>6, <1>7 DEF ArrivalInv

(* What a reading of the directory leaves out is older than the watermark,   *)
(* hence handled, or is passed over; what it finds is not older.             *)
LEMMA ReadDirectoryKeeps ==
    ASSUME ArrivalInv, NEW r \in Roots, ReadDirectory(r)
    PROVE  ArrivalInv'
<1>1. UNCHANGED <<clock, changed_at, mounted, events, arrivals, watermarks, batch, checked>> /\ walks[r] # NoWalk
  BY DEF ReadDirectory
<1>0. PICK lost \in SUBSET Recent(r) :
        /\ walks' = [walks EXCEPT ![r].read = TRUE, ![r].entries = Recent(r) \ lost]
        /\ passedOver' = (passedOver \ Recent(r)) \cup lost
  BY DEF ReadDirectory
<1> DEFINE found == Recent(r) \ lost
<1>2. walks \in [Roots -> WalkType] /\ walks[r] \in WalkType
  BY DEF ArrivalInv, ArrivalRows
<1>3. walks' = [walks EXCEPT ![r] = walks'[r]]
  BY <1>0, <1>2
<1>4. walks'[r] = [started |-> walks[r].started, since |-> walks[r].since, read |-> TRUE, entries |-> found]
  BY <1>0, <1>2 DEF WalkType
<1>5. ArrivalRows' /\ NothingAhead' /\ DoneIsChecked'
  <2>1. walks'[r] \in WalkType /\ walks'[r].started = walks[r].started
    BY <1>2, <1>4 DEF WalkType, Recent
  <2>2. walks' \in [Roots -> WalkType] /\ \A t \in Roots : walks'[t].started = walks[t].started
    BY <1>2, <1>3, <2>1
  <2> QED
    BY <1>1, <2>2 DEF ArrivalInv, ArrivalRows, NothingAhead, DoneIsChecked
<1>6. WalkCovers'
  <2>1. ASSUME NEW f \in Files, RootOf[f] = r, r \in Fixed, changed_at[f] > 1
        PROVE  f \in found \/ Handled(f)'
    <3>1. /\ f \in passedOver \/ Accounted(f)
          /\ walks[r].since = watermarks[r] /\ changed_at[f] \in Nat /\ watermarks[r] \in Nat
      BY <1>1, <2>1 DEF ArrivalInv, ArrivalRows, HomeArrivalIsNotForgotten, WalkCovers
    <3>2. f \in Recent(r) => f \in found \/ f \in passedOver'
      BY <1>0
    <3>3. f \notin Recent(r) => changed_at[f] < watermarks[r] /\ (f \in passedOver => f \in passedOver')
      BY <1>0, <2>1, <3>1 DEF Recent
    <3> HIDE DEF found
    <3> QED
      BY <1>1, <2>1, <3>1, <3>2, <3>3 DEF Accounted, Handled
  <2>2. ASSUME NEW t \in Roots, t # r PROVE walks'[t] = walks[t]
    BY <1>2, <1>3, <2>2
  <2>3. ASSUME NEW f \in Files, RootOf[f] # r, Handled(f) PROVE Handled(f)'
    BY <1>0, <1>1, <2>3 DEF Handled, Recent
  <2> HIDE DEF found
  <2> SUFFICES ASSUME NEW t \in Roots, walks'[t] # NoWalk
               PROVE  /\ walks'[t].since = watermarks[t]
                      /\ walks'[t].read => \A g \in Files :
                           RootOf[g] = t /\ t \in Fixed /\ changed_at[g] > 1 /\ changed_at[g] < walks'[t].started
                             => g \in walks'[t].entries \/ Handled(g)'
    BY <1>1 DEF WalkCovers
  <2>4. CASE t = r
    BY <1>1, <1>4, <2>1, <2>4 DEF ArrivalInv, WalkCovers
  <2>5. CASE t # r
    BY <2>2, <2>3, <2>5 DEF ArrivalInv, WalkCovers
  <2> QED
    BY <2>4, <2>5
<1>7. HomeArrivalIsNotForgotten'
  <2> SUFFICES ASSUME NEW f \in Files, f \notin passedOver', RootOf[f] \in Fixed, changed_at[f] > 1
               PROVE  Accounted(f)'
    BY <1>1 DEF HomeArrivalIsNotForgotten
  <2>1. CASE f \in Recent(r)
    BY <1>1, <2>1 DEF Accounted, Recent, ArrivalInv, WalkCovers
  <2>2. CASE f \notin Recent(r)
    <3>1. f \notin passedOver
      BY <1>0, <2>2
    <3> QED
      BY <1>1, <3>1 DEF ArrivalInv, HomeArrivalIsNotForgotten, Accounted
  <2> QED
    BY <2>1, <2>2
<1> QED
  BY <1>5, <1>6, <1>7 DEF ArrivalInv

(* An entry leaves the walk only once it is in the queue: a refused one      *)
(* stays at the cursor (_walk_step).                                         *)
LEMMA WalkEntryKeeps ==
    ASSUME ArrivalInv, NEW r \in Roots, WalkEntry(r)
    PROVE  ArrivalInv'
<1> DEFINE priority == IF r \in Fixed THEN 1 ELSE 0
<1>1. UNCHANGED <<clock, changed_at, mounted, events, watermarks, batch, checked, passedOver>>
  BY DEF WalkEntry
<1>2. PICK f \in walks[r].entries :
        /\ IF Refused(f, priority) THEN UNCHANGED arrivals ELSE Observed(f, priority)
        /\ walks' = [walks EXCEPT ![r].entries = Cursor(r, f)]
  BY DEF WalkEntry
<1>3. walks \in [Roots -> WalkType] /\ walks[r] \in WalkType /\ f \in Files /\ priority \in 0..1
  BY <1>2 DEF ArrivalInv, ArrivalRows, WalkType
<1>4. walks' = [walks EXCEPT ![r] = walks'[r]]
  BY <1>2, <1>3
<1>5. walks'[r] = [started |-> walks[r].started, since |-> walks[r].since, read |-> walks[r].read,
                   entries |-> Cursor(r, f)]
  BY <1>2, <1>3 DEF WalkType
<1>6. Cursor(r, f) = walks[r].entries \/ (Cursor(r, f) = walks[r].entries \ {f} /\ ~Refused(f, priority))
  <2>1. Cursor(r, f) = IF Refused(f, priority) THEN walks[r].entries ELSE walks[r].entries \ {f}
    BY DEF Cursor
  <2> HIDE DEF priority
  <2> QED
    BY <2>1
<1>7. /\ arrivals' \in [Files -> ArrivalRow]
      /\ \A g \in Files : arrivals'[g].signature <= clock
      /\ DoneIsChecked'
      /\ \A g \in Files : changed_at[g] > 1 /\ Handled(g) => Handled(g)'
      /\ ~Refused(f, priority) /\ changed_at[f] > 1 => Handled(f)'
  <2>1. CASE Refused(f, priority)
    BY <1>1, <1>2, <2>1 DEF ArrivalInv, ArrivalRows, NothingAhead, DoneIsChecked, Handled
  <2>2. CASE ~Refused(f, priority)
    BY <1>1, <1>2, <1>3, <2>2, ObservedHandles
  <2> QED
    BY <2>1, <2>2
<1> HIDE DEF priority
<1>8. ArrivalRows' /\ NothingAhead'
  <2>1. Cursor(r, f) \in SUBSET Files
    BY <1>3, <1>6 DEF WalkType
  <2>2. walks'[r] \in WalkType /\ walks'[r].started = walks[r].started
    BY <1>3, <1>5, <2>1 DEF WalkType
  <2>3. walks' \in [Roots -> WalkType] /\ \A t \in Roots : walks'[t].started = walks[t].started
    BY <1>3, <1>4, <2>2
  <2> QED
    BY <1>1, <1>7, <2>3 DEF ArrivalInv, ArrivalRows, NothingAhead
<1>9. WalkCovers'
  <2>1. walks[r] # NoWalk
    BY <1>2 DEF NoWalk
  <2>2. ASSUME NEW t \in Roots, t # r PROVE walks'[t] = walks[t]
    BY <1>3, <1>4, <2>2
  <2> SUFFICES ASSUME NEW t \in Roots, walks'[t] # NoWalk
               PROVE  /\ walks'[t].since = watermarks[t]
                      /\ walks'[t].read => \A g \in Files :
                           RootOf[g] = t /\ t \in Fixed /\ changed_at[g] > 1 /\ changed_at[g] < walks'[t].started
                             => g \in walks'[t].entries \/ Handled(g)'
    BY <1>1 DEF WalkCovers
  <2>3. CASE t = r
    BY <1>5, <1>6, <1>7, <2>1, <2>3 DEF ArrivalInv, WalkCovers
  <2>4. CASE t # r
    BY <1>7, <2>2, <2>4 DEF ArrivalInv, WalkCovers
  <2> QED
    BY <2>3, <2>4
<1>10. HomeArrivalIsNotForgotten'
  BY <1>1, <1>7 DEF ArrivalInv, HomeArrivalIsNotForgotten, Accounted, Handled
<1> QED
  BY <1>7, <1>8, <1>9, <1>10 DEF ArrivalInv

(* An entry that is lost is passed over.                                     *)
LEMMA WalkEntryFailsKeeps ==
    ASSUME ArrivalInv, NEW r \in Roots, WalkEntryFails(r)
    PROVE  ArrivalInv'
<1>1. UNCHANGED <<clock, changed_at, mounted, events, arrivals, watermarks, batch, checked>>
  BY DEF WalkEntryFails
<1>2. PICK f \in walks[r].entries :
        /\ walks' = [walks EXCEPT ![r].entries = @ \ {f}]
        /\ passedOver' = IF changed_at[f] = 0 THEN passedOver ELSE passedOver \cup {f}
  BY DEF WalkEntryFails
<1>3. walks \in [Roots -> WalkType] /\ walks[r] \in WalkType /\ f \in Files /\ walks[r] # NoWalk
  BY <1>2 DEF ArrivalInv, ArrivalRows, WalkType, NoWalk
<1>4. walks' = [walks EXCEPT ![r] = walks'[r]]
  BY <1>2, <1>3
<1>5. walks'[r] = [started |-> walks[r].started, since |-> walks[r].since, read |-> walks[r].read,
                   entries |-> walks[r].entries \ {f}]
  BY <1>2, <1>3 DEF WalkType
<1>6. ArrivalRows' /\ NothingAhead' /\ DoneIsChecked'
  <2>1. walks'[r] \in WalkType /\ walks'[r].started = walks[r].started
    BY <1>3, <1>5 DEF WalkType
  <2>2. walks' \in [Roots -> WalkType] /\ \A t \in Roots : walks'[t].started = walks[t].started
    BY <1>3, <1>4, <2>1
  <2> QED
    BY <1>1, <2>2 DEF ArrivalInv, ArrivalRows, NothingAhead, DoneIsChecked
<1>7. ASSUME NEW g \in Files PROVE (Handled(g) => Handled(g)') /\ (changed_at[f] > 1 => Handled(f)')
  BY <1>1, <1>2 DEF Handled
<1>8. WalkCovers'
  <2>1. ASSUME NEW t \in Roots, t # r PROVE walks'[t] = walks[t]
    BY <1>3, <1>4, <2>1
  <2> SUFFICES ASSUME NEW t \in Roots, walks'[t] # NoWalk
               PROVE  /\ walks'[t].since = watermarks[t]
                      /\ walks'[t].read => \A g \in Files :
                           RootOf[g] = t /\ t \in Fixed /\ changed_at[g] > 1 /\ changed_at[g] < walks'[t].started
                             => g \in walks'[t].entries \/ Handled(g)'
    BY <1>1 DEF WalkCovers
  <2>2. CASE t = r
    BY <1>3, <1>5, <1>7, <2>2 DEF ArrivalInv, WalkCovers
  <2>3. CASE t # r
    BY <1>7, <2>1, <2>3 DEF ArrivalInv, WalkCovers
  <2> QED
    BY <2>2, <2>3
<1>9. HomeArrivalIsNotForgotten'
  BY <1>1, <1>2 DEF ArrivalInv, HomeArrivalIsNotForgotten, Accounted
<1> QED
  BY <1>6, <1>8, <1>9 DEF ArrivalInv

(* New definitions make every row pending.                                   *)
LEMMA DefinitionsChangedKeeps ==
    ASSUME ArrivalInv, DefinitionsChanged
    PROVE  ArrivalInv'
<1>1. /\ UNCHANGED <<clock, changed_at, mounted, events, walks, watermarks, batch, checked, passedOver>>
      /\ arrivals' = [f \in Files |-> IF arrivals[f] = NoRow THEN NoRow ELSE [arrivals[f] EXCEPT !.done = 0]]
  BY DEF DefinitionsChanged
<1>2. ASSUME NEW f \in Files
      PROVE  arrivals'[f] \in ArrivalRow /\ arrivals'[f].signature = arrivals[f].signature /\ arrivals'[f].done = 0
  <2>1. arrivals[f] \in ArrivalRow
    BY DEF ArrivalInv, ArrivalRows
  <2>2. CASE arrivals[f] = NoRow
    BY <1>1, <2>1, <2>2 DEF NoRow
  <2>3. CASE arrivals[f] # NoRow
    <3>1. arrivals'[f] = [signature |-> arrivals[f].signature, done |-> 0, priority |-> arrivals[f].priority]
      BY <1>1, <2>1, <2>3 DEF ArrivalRow
    <3> QED
      BY <2>1, <3>1 DEF ArrivalRow
  <2> QED
    BY <2>2, <2>3
<1>3. arrivals' \in [Files -> ArrivalRow]
  BY <1>1, <1>2
<1>4. ArrivalKept
  BY <1>1, <1>2 DEF ArrivalKept, Handled, DoneIsChecked
<1> QED
  BY <1>1, <1>2, <1>3, <1>4, QueueKeeps DEF ArrivalInv, ArrivalRows, NothingAhead

(* The watermark moves only to the start of a walk that left nothing older   *)
(* behind but what it passed over.                                           *)
LEMMA EndWalkKeeps ==
    ASSUME ArrivalInv, NEW r \in Roots, EndWalk(r)
    PROVE  ArrivalInv'
<1>1. /\ UNCHANGED <<clock, changed_at, mounted, events, arrivals, batch, checked, passedOver>>
      /\ walks' = [walks EXCEPT ![r] = NoWalk] /\ walks[r] # NoWalk
  BY DEF EndWalk
<1>2. \/ UNCHANGED watermarks
      \/ /\ walks[r].read /\ walks[r].entries = {}
         /\ watermarks' = [watermarks EXCEPT ![r] = walks[r].started]
  BY DEF EndWalk
<1>3. NoWalk \in WalkType /\ NoWalk.started = 0
  BY DEF NoWalk, WalkType
<1>4. ArrivalRows' /\ NothingAhead' /\ DoneIsChecked'
  BY <1>1, <1>2, <1>3 DEF ArrivalInv, ArrivalRows, NothingAhead, DoneIsChecked, WalkType
<1>5. ASSUME NEW t \in Roots, t # r PROVE walks'[t] = walks[t] /\ watermarks'[t] = watermarks[t]
  BY <1>1, <1>2, <1>5 DEF ArrivalInv, ArrivalRows
<1>6. walks'[r] = NoWalk
  BY <1>1 DEF ArrivalInv, ArrivalRows
<1>7. WalkCovers'
  BY <1>1, <1>5, <1>6 DEF ArrivalInv, WalkCovers, Handled
<1>8. HomeArrivalIsNotForgotten'
  <2> SUFFICES ASSUME NEW g \in Files, g \notin passedOver, RootOf[g] \in Fixed, changed_at[g] > 1 PROVE Accounted(g)'
    BY <1>1 DEF HomeArrivalIsNotForgotten
  <2>1. Accounted(g)
    BY DEF ArrivalInv, HomeArrivalIsNotForgotten
  <2>2. CASE watermarks'[RootOf[g]] = watermarks[RootOf[g]]
    BY <1>1, <2>1, <2>2 DEF Accounted
  <2>3. CASE RootOf[g] = r /\ walks[r].read /\ walks[r].entries = {} /\ watermarks'[r] = walks[r].started
    <3>1. changed_at[g] < walks[r].started => Handled(g)
      BY <1>1, <2>3 DEF ArrivalInv, WalkCovers
    <3>2. changed_at[g] \in Nat /\ walks[r].started \in Nat
      BY DEF ArrivalInv, ArrivalRows, WalkType
    <3> QED
      BY <1>1, <2>3, <3>1, <3>2 DEF Accounted, Handled
  <2> QED
    BY <1>2, <1>5, <2>2, <2>3, ArrivalConstants DEF ArrivalInv, ArrivalRows, Roots
<1> QED
  BY <1>4, <1>7, <1>8 DEF ArrivalInv

(* No arrival in a home directory is forgotten, for any number of files, any *)
(* queue and event limit, whatever is missed, refused, evicted or restarted, *)
(* but for what an error or a limit passed over (ArrivalQueue.observe, _walk,*)
(* _walk_step, ready).                                                       *)
THEOREM HomeIsCovered == ArrivalSpec => []HomeArrivalIsNotForgotten
<1>1. ArrivalInv /\ [ArrivalNext]_arrivalVars => ArrivalInv'
  <2> SUFFICES ASSUME ArrivalInv, [ArrivalNext]_arrivalVars PROVE ArrivalInv'
    OBVIOUS
  <2>1. CASE StartBatch \/ EndBatch \/ DefinitionsChanged
    BY <2>1, StartBatchKeeps, EndBatchKeeps, DefinitionsChangedKeeps
  <2>2. CASE PassFails \/ (\E f \in Files : ObserveEvent(f)) \/ \E r \in Roots : Mount(r)
    BY <2>2, EventsKeep
  <2>3. CASE \E f \in Files : Arrive(f) \/ Remove(f)
    BY <2>3, ArriveKeeps, RemoveKeeps
  <2>4. CASE ArrivalRestart \/ \E r \in Roots : StartWalk(r)
    BY <2>4, StartWalkKeeps
  <2>5. CASE \E r \in Roots : ReadDirectory(r) \/ WalkEntry(r) \/ WalkEntryFails(r) \/ EndWalk(r)
    BY <2>5, ReadDirectoryKeeps, WalkEntryKeeps, WalkEntryFailsKeeps, EndWalkKeeps
  <2>6. CASE UNCHANGED arrivalVars
    BY <2>6 DEF arrivalVars, ArrivalInv, ArrivalRows, NothingAhead, DoneIsChecked, WalkCovers,
                HomeArrivalIsNotForgotten, Accounted, Handled
  <2> QED
    BY <2>1, <2>2, <2>3, <2>4, <2>5, <2>6 DEF ArrivalNext
<1>2. ArrivalInv => HomeArrivalIsNotForgotten
  BY DEF ArrivalInv
<1> QED
  BY <1>1, <1>2, ArrivalStart, PTL DEF ArrivalSpec
=============================================================================
