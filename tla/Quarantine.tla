----------------------------- MODULE Quarantine -----------------------------
(***************************************************************************)
(* The life of one detection (file_security.py, clamav_service.py, the      *)
(* file part of telemetry.py and user_bus.py).  The root service may not    *)
(* write to a home, so moving a file to quarantine takes three parties: the *)
(* root service copies and verifies it (prepare), the session service       *)
(* removes the original (remove), the root service records the result       *)
(* (complete or fail).  Restoring goes the other way round.  Between any    *)
(* two of these steps a process can die, a D-Bus call can time out while    *)
(* its request stays queued, and the user can edit or remove files.         *)
(*                                                                         *)
(* A file is its content, a content is its hash, and a path holds NoFile    *)
(* when nothing is there.  The in-memory maps of FileSecurityManager are    *)
(* lost by a restart; the database, /var/lib and the home are not; /run is  *)
(* lost by a reboot.                                                        *)
(***************************************************************************)
EXTENDS Naturals, Sequences, FiniteSets

CONSTANTS
    Contents,        \* what a file can hold
    Threat,          \* the content that was detected
    NoFile,          \* no file at this path
    QuarantineIds,   \* the uuid names of objects in the vault
    NoId,            \* no quarantine_id
    MaxQueued        \* bound on the calls waiting for the root service

ASSUME QuarantineConstants ==
    /\ Threat \in Contents /\ NoFile \notin Contents /\ NoId \notin QuarantineIds
    /\ MaxQueued \in Nat

VARIABLES
    original,            \* the content at original_path
    detection,           \* the row of file_detections
    owned,               \* the row of its scan operation, which names the owner, exists
    vault,               \* <id>.object
    manifests,           \* the ids with an <id>.json
    pending_quarantine,  \* _pending_quarantines: id, in memory
    pending_restore,     \* _pending_restores: hash, in memory
    transfer,            \* /run/greyward-file-security/<uid>/<id>.transfer
    staging,             \* the restore destination in the home
    service,             \* what the root service is in the middle of
    mailbox,             \* D-Bus calls the root service has not taken yet
    session,             \* the session service's call: await a reply, remove, copy
    userTouched,         \* the user removed or changed the detected content
    deleteAsked          \* a permanent deletion was asked for and begun

quarantineVars ==
    <<original, detection, owned, vault, manifests, pending_quarantine, pending_restore,
      transfer, staging, service, mailbox, session, userTouched, deleteAsked>>

-----------------------------------------------------------------------------

DetectionStates ==
    {"DETECTED", "QUARANTINED", "RESTORED", "DELETED",
     "QUARANTINE_FAILED", "RESTORE_FAILED", "DELETE_FAILED"}

Calls == {"QuarantineDetection", "CompleteQuarantine", "FailQuarantine",
          "RestoreDetection", "CompleteRestore", "FailRestore", "DeleteDetection"}

QuarantineTypeOK ==
    /\ original \in Contents \cup {NoFile} /\ transfer \in Contents \cup {NoFile} /\ staging \in Contents \cup {NoFile}
    /\ detection \in [state : DetectionStates, hash : Contents, id : QuarantineIds \cup {NoId}]
    /\ vault \in [QuarantineIds -> Contents \cup {NoFile}]
    /\ manifests \subseteq QuarantineIds
    /\ pending_quarantine \in QuarantineIds \cup {NoId}
    /\ pending_restore \in Contents \cup {NoFile}
    /\ service \in [doing : {"nothing", "prepare", "delete"}, id : QuarantineIds \cup {NoId}]
    /\ mailbox \in Seq([call : Calls, awaited : BOOLEAN]) /\ Len(mailbox) <= MaxQueued
    /\ session \in [doing : {"nothing", "await", "remove", "unlink", "copy"}, hash : Contents \cup {NoFile}]
    /\ {owned, userTouched, deleteAsked} \subseteq BOOLEAN

Nothing == [doing |-> "nothing", id |-> NoId]
Idle == [doing |-> "nothing", hash |-> NoFile]

\* _run recorded the detection of a file that is still there.
QuarantineInit ==
    /\ original = Threat
    /\ detection = [state |-> "DETECTED", hash |-> Threat, id |-> NoId]
    /\ owned = TRUE
    /\ vault = [q \in QuarantineIds |-> NoFile]
    /\ manifests = {}
    /\ pending_quarantine = NoId /\ pending_restore = NoFile
    /\ transfer = NoFile /\ staging = NoFile
    /\ service = Nothing /\ mailbox = <<>> /\ session = Idle
    /\ userTouched = FALSE /\ deleteAsked = FALSE

-----------------------------------------------------------------------------
(* The session service and its calls.                                       *)

Send(call) ==
    /\ Len(mailbox) < MaxQueued
    /\ mailbox' = Append(mailbox, [call |-> call, awaited |-> TRUE])
    /\ session' = [doing |-> "await", hash |-> NoFile]

\* QuarantineDetection, RestoreDetection, DeleteDetection of the session
\* service: each begins with a call of the same name on the root service.
Ask(call) ==
    /\ call \in {"QuarantineDetection", "RestoreDetection", "DeleteDetection"}
    /\ session = Idle
    /\ Send(call)
    /\ UNCHANGED <<original, detection, owned, vault, manifests, pending_quarantine, pending_restore,
                   transfer, staging, service, userTouched, deleteAsked>>

\* FILE_SECURITY_DBUS_TIMEOUT passes, or the session service dies.  The
\* request stays in the queue of the root service.
GiveUp ==
    /\ session # Idle
    /\ session' = Idle
    /\ mailbox' = [i \in DOMAIN mailbox |-> [mailbox[i] EXCEPT !.awaited = FALSE]]
    /\ UNCHANGED <<original, detection, owned, vault, manifests, pending_quarantine, pending_restore,
                   transfer, staging, service, userTouched, deleteAsked>>

\* _remove_quarantine_source and _unlink_verified_source up to the last
\* comparison: open without following links, hash, compare the inode.
VerifySource ==
    /\ session.doing = "remove"
    /\ IF original = session.hash
       THEN session' = [session EXCEPT !.doing = "unlink"] /\ UNCHANGED mailbox
       ELSE Send("FailQuarantine")
    /\ UNCHANGED <<original, detection, owned, vault, manifests, pending_quarantine, pending_restore,
                   transfer, staging, service, userTouched, deleteAsked>>

\* source.unlink() by path, then CompleteQuarantine.
UnlinkSource ==
    /\ session.doing = "unlink"
    /\ IF original = NoFile THEN Send("FailQuarantine") ELSE Send("CompleteQuarantine")
    /\ original' = NoFile
    /\ UNCHANGED <<detection, owned, vault, manifests, pending_quarantine, pending_restore,
                   transfer, staging, service, userTouched, deleteAsked>>

\* _create_restore_copy: the transfer is copied to a temporary name, its hash
\* compared, and linked into place unless something is there already.
CreateRestoreCopy ==
    /\ session.doing = "copy"
    /\ IF transfer = session.hash /\ staging = NoFile
       THEN staging' = transfer /\ Send("CompleteRestore")
       ELSE Send("FailRestore") /\ UNCHANGED staging
    /\ UNCHANGED <<original, detection, owned, vault, manifests, pending_quarantine, pending_restore,
                   transfer, service, userTouched, deleteAsked>>

-----------------------------------------------------------------------------
(* The root service: one call at a time.                                    *)

Taking(call) == service = Nothing /\ mailbox # <<>> /\ Head(mailbox).call = call

\* The reply reaches the session service only when it still waits for it.
Answer(next) ==
    /\ mailbox' = Tail(mailbox)
    /\ session' = IF Head(mailbox).awaited THEN next ELSE session

\* The reply to a call that the service takes up again in a later step.
AnswerLater == UNCHANGED <<mailbox, session>>

\* _find_pending_quarantine: memory, then the record, then any manifest.
PendingIds ==
    IF pending_quarantine # NoId THEN {pending_quarantine}
    ELSE IF detection.id # NoId THEN {detection.id}
    ELSE IF manifests # {} THEN manifests ELSE {NoId}

\* Fault: the copy is not compared with the hash of the detection.
AnyCopy == original # NoFile

\* _safe_detected_file and _copy_verified(..., detection["file_hash"]).
VerifiedCopy == original = detection.hash

\* prepare_quarantine up to the copy: ownership, state and the source are
\* checked; the copy is flushed and renamed into the vault.
PrepareQuarantine ==
    /\ Taking("QuarantineDetection")
    /\ IF owned /\ detection.state # "QUARANTINED" /\ VerifiedCopy
       THEN \E q \in QuarantineIds :
              /\ vault[q] = NoFile /\ q \notin manifests
              /\ vault' = [vault EXCEPT ![q] = original]
              /\ service' = [doing |-> "prepare", id |-> q]
              /\ AnswerLater
       ELSE Answer(Idle) /\ UNCHANGED <<vault, service>>
    /\ UNCHANGED <<original, detection, owned, manifests, pending_quarantine, pending_restore,
                   transfer, staging, userTouched, deleteAsked>>

\* _write_manifest, the in-memory record and the reply QUARANTINE_PENDING.
PublishQuarantine ==
    /\ service.doing = "prepare"
    /\ manifests' = manifests \cup {service.id}
    /\ pending_quarantine' = service.id
    /\ service' = Nothing
    /\ Answer([doing |-> "remove", hash |-> vault[service.id]])
    /\ UNCHANGED <<original, detection, owned, vault, pending_restore, transfer, staging, userTouched, deleteAsked>>

\* fail_quarantine: whatever the state was; the in-memory record is kept.
QuarantineFailed(q) ==
    /\ detection' = [detection EXCEPT !.state = "QUARANTINE_FAILED",
                                      !.id = IF q # NoId THEN q ELSE @]
    /\ UNCHANGED pending_quarantine

\* complete_quarantine; an exception goes to fail_quarantine, which refuses
\* the caller of a detection whose scan operation is gone.
CompleteQuarantine ==
    /\ Taking("CompleteQuarantine")
    /\ IF ~owned \/ detection.state = "QUARANTINED"
       THEN UNCHANGED <<detection, pending_quarantine>>
       ELSE \E q \in PendingIds :
              IF original = NoFile /\ q # NoId /\ vault[q] # NoFile
              THEN /\ detection' = [detection EXCEPT !.state = "QUARANTINED", !.id = q]
                   /\ pending_quarantine' = NoId
              ELSE QuarantineFailed(q)
    /\ Answer(Idle)
    /\ UNCHANGED <<original, owned, vault, manifests, pending_restore, transfer, staging, service, userTouched, deleteAsked>>

FailQuarantine ==
    /\ Taking("FailQuarantine")
    /\ IF owned THEN \E q \in PendingIds : QuarantineFailed(q)
       ELSE UNCHANGED <<detection, pending_quarantine>>
    /\ Answer(Idle)
    /\ UNCHANGED <<original, owned, vault, manifests, pending_restore, transfer, staging, service, userTouched, deleteAsked>>

\* Fault: the object is moved to the transfer area instead of copied.
AfterStagingMoved(q) == [vault EXCEPT ![q] = NoFile]

\* _copy_verified(source, transfer): the object stays in the vault.
AfterStaging(q) == vault

\* prepare_restore, _restore_target: an object, a free destination and no
\* transfer staged already.
PrepareRestore ==
    /\ Taking("RestoreDetection")
    /\ IF /\ owned /\ detection.state \in {"QUARANTINED", "QUARANTINE_FAILED"}
          /\ detection.id # NoId /\ vault[detection.id] = detection.hash
          /\ staging = NoFile /\ transfer = NoFile
       THEN /\ transfer' = vault[detection.id]
            /\ vault' = AfterStaging(detection.id)
            /\ pending_restore' = detection.hash
            /\ Answer([doing |-> "copy", hash |-> detection.hash])
       ELSE Answer(Idle) /\ UNCHANGED <<transfer, vault, pending_restore>>
    /\ UNCHANGED <<original, detection, owned, manifests, pending_quarantine, staging, service, userTouched, deleteAsked>>

\* complete_restore; an exception goes to fail_restore.
CompleteRestore ==
    /\ Taking("CompleteRestore")
    /\ IF ~owned THEN UNCHANGED <<detection, pending_restore, transfer>>
       ELSE IF pending_restore # NoFile /\ staging = pending_restore
       THEN /\ transfer' = NoFile /\ pending_restore' = NoFile
            /\ detection' = [detection EXCEPT !.state = "RESTORED"]
       ELSE /\ detection' = [detection EXCEPT !.state = "RESTORE_FAILED"]
            /\ UNCHANGED <<pending_restore, transfer>>
    /\ Answer(Idle)
    /\ UNCHANGED <<original, owned, vault, manifests, pending_quarantine, staging, service, userTouched, deleteAsked>>

\* fail_restore: the transfer and the in-memory record are kept.
FailRestore ==
    /\ Taking("FailRestore")
    /\ detection' = IF owned THEN [detection EXCEPT !.state = "RESTORE_FAILED"] ELSE detection
    /\ Answer(Idle)
    /\ UNCHANGED <<original, owned, vault, manifests, pending_quarantine, pending_restore, transfer, staging, service, userTouched, deleteAsked>>

\* delete_detection: without an object, or when unlink fails, DELETE_FAILED;
\* else the object goes first, then the manifest and the record.
DeleteObject ==
    /\ Taking("DeleteDetection")
    /\ IF ~owned \/ detection.id = NoId
       THEN Answer(Idle) /\ UNCHANGED <<vault, service, detection, deleteAsked>>
       ELSE \/ /\ detection' = [detection EXCEPT !.state = "DELETE_FAILED"]
               /\ Answer(Idle) /\ UNCHANGED <<vault, service, deleteAsked>>
            \/ /\ vault[detection.id] # NoFile
               /\ vault' = [vault EXCEPT ![detection.id] = NoFile]
               /\ service' = [doing |-> "delete", id |-> detection.id]
               /\ deleteAsked' = TRUE
               /\ AnswerLater /\ UNCHANGED detection
    /\ UNCHANGED <<original, owned, manifests, pending_quarantine, pending_restore, transfer, staging, userTouched>>

DeleteRecord ==
    /\ service.doing = "delete"
    /\ manifests' = manifests \ {service.id}
    /\ detection' = [detection EXCEPT !.state = "DELETED"]
    /\ service' = Nothing
    /\ Answer(Idle)
    /\ UNCHANGED <<original, owned, vault, pending_quarantine, pending_restore, transfer, staging, userTouched, deleteAsked>>

-----------------------------------------------------------------------------
(* Failures, the retention of the store and the user.                       *)

\* The root service dies and is started again by the next call: an awaited
\* call ends in an error, a session past its reply goes on.
ServiceRestart ==
    /\ pending_quarantine' = NoId /\ pending_restore' = NoFile
    /\ service' = Nothing
    /\ mailbox' = <<>>
    /\ session' = IF session.doing = "await" THEN Idle ELSE session
    /\ UNCHANGED <<original, detection, owned, vault, manifests, transfer, staging, userTouched, deleteAsked>>

Reboot ==
    /\ pending_quarantine' = NoId /\ pending_restore' = NoFile
    /\ service' = Nothing /\ mailbox' = <<>> /\ session' = Idle
    /\ transfer' = NoFile
    /\ UNCHANGED <<original, detection, owned, vault, manifests, staging, userTouched, deleteAsked>>

\* prune, thirty days after the scan ended: its operation row is deleted
\* whatever became of its detections.
PruneOperation ==
    /\ owned /\ service = Nothing
    /\ owned' = FALSE
    /\ UNCHANGED <<original, detection, vault, manifests, pending_quarantine, pending_restore,
                   transfer, staging, service, mailbox, session, userTouched, deleteAsked>>

\* The user saves, replaces or removes the original.
UserChangesOriginal ==
    /\ \E c \in (Contents \cup {NoFile}) \ {original} : original' = c
    /\ userTouched' = (userTouched \/ original = Threat)
    /\ UNCHANGED <<detection, owned, vault, manifests, pending_quarantine, pending_restore,
                   transfer, staging, service, mailbox, session, deleteAsked>>

\* The user edits the restored copy or moves it away.
UserChangesStaging ==
    /\ staging # NoFile
    /\ \E c \in (Contents \cup {NoFile}) \ {staging} : staging' = c
    /\ UNCHANGED <<original, detection, owned, vault, manifests, pending_quarantine, pending_restore,
                   transfer, service, mailbox, session, userTouched, deleteAsked>>

SessionStep == GiveUp \/ VerifySource \/ UnlinkSource \/ CreateRestoreCopy \/ \E call \in Calls : Ask(call)
ServiceStep ==
    \/ PrepareQuarantine \/ PublishQuarantine \/ CompleteQuarantine \/ FailQuarantine
    \/ PrepareRestore \/ CompleteRestore \/ FailRestore \/ DeleteObject \/ DeleteRecord

QuarantineNext ==
    \/ SessionStep \/ ServiceStep \/ ServiceRestart \/ Reboot
    \/ PruneOperation \/ UserChangesOriginal \/ UserChangesStaging

QuarantineSpec == QuarantineInit /\ [][QuarantineNext]_quarantineVars

-----------------------------------------------------------------------------

(* Quarantine and restore never lose the detected content: unless the user   *)
(* changed it or asked for its deletion, it is at its original place or in   *)
(* the vault.  "The source is copied and hash-verified before removal" and   *)
(* "the quarantined copy remains until the user explicitly deletes it".      *)
DetectedContentKept ==
    ~userTouched /\ ~deleteAsked => original = Threat \/ \E q \in QuarantineIds : vault[q] = Threat

(* A detection reported as quarantined names an object of the vault that     *)
(* holds the detected content (complete_quarantine), whichever attempt       *)
(* completed it and after however many restarts, as long as no deletion      *)
(* began.                                                                    *)
QuarantinedIsHeld ==
    detection.state = "QUARANTINED" /\ ~deleteAsked =>
        detection.id # NoId /\ vault[detection.id] = detection.hash

(* The owner of a quarantined file can restore or delete it: prune keeps     *)
(* "active quarantine records until the object is explicitly handled".       *)
QuarantinedCanBeHandled == detection.state = "QUARANTINED" => owned
=============================================================================
