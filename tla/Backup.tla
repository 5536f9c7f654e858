-------------------------------- MODULE Backup --------------------------------
(***************************************************************************)
(* Personal backups (restic_backup.py): a helper process for each operation *)
(* works on the repository the configuration names, under a lock, and keeps *)
(* one record for each repository identity.  configure takes no lock.       *)
(***************************************************************************)
EXTENDS Naturals, FiniteSets

CONSTANTS
    Destinations,   \* directories on mounted media
    Repositories,   \* identities Restic gives to repositories
    NoRepository,
    Overlap         \* whether configure runs beside another operation: the
                    \* Security Center runs one command at a time, the helper
                    \* itself does not insist on it

ASSUME BackupConstants == NoRepository \notin Repositories /\ Overlap \in BOOLEAN

VARIABLES
    backup_config,   \* recovery-backup.json: the destination and repository_id
    disk,            \* the repository in each destination
    attached,        \* destinations whose mount identity is the recorded one
    record,          \* backup.json: for each repository what is said of it
    operation,       \* the helper that holds the lock
    setup            \* the helper that configures

backupVars == <<backup_config, disk, attached, record, operation, setup>>

-----------------------------------------------------------------------------

Kinds == {"BACKUP", "VERIFY", "RESTORE"}
MaybeRepository == Repositories \cup {NoRepository}
Unconfigured == [to |-> "nowhere", id |-> NoRepository]
NoRecord == [snapshot |-> NoRepository, checked |-> NoRepository, state |-> "NONE"]
NoOperation == [kind |-> "NONE", at |-> "end", id |-> NoRepository, state |-> [r \in Repositories |-> NoRecord]]
NoSetup == [at |-> "end", to |-> "nowhere", previous |-> Unconfigured]

BackupTypeOK ==
    /\ backup_config \in [to : Destinations \cup {"nowhere"}, id : MaybeRepository]
    /\ disk \in [Destinations -> MaybeRepository] /\ attached \subseteq Destinations
    /\ record \in [Repositories -> [snapshot : MaybeRepository, checked : MaybeRepository,
                                    state : {"NONE", "RUNNING", "COMPLETED", "FAILED"}]]
    /\ operation.kind \in Kinds \cup {"NONE"} /\ operation.at \in {"end", "identify", "begin", "run"}
    /\ setup.at \in {"end", "init", "identify", "record"}

BackupInit ==
    /\ backup_config = Unconfigured /\ disk = [d \in Destinations |-> NoRepository] /\ attached = Destinations
    /\ record = [r \in Repositories |-> NoRecord]
    /\ operation = NoOperation /\ setup = NoSetup

\* _validated_configuration, at every call of Restic: the mount is the
\* recorded one and the repository is there.
Present == IF backup_config = Unconfigured \/ backup_config.to \notin attached THEN NoRepository ELSE disk[backup_config.to]

-----------------------------------------------------------------------------
(* The media.                                                               *)

MediaChanges ==
    /\ \E d \in Destinations : attached' \in {attached \cup {d}, attached \ {d}} /\ attached' # attached
    /\ UNCHANGED <<backup_config, disk, record, operation, setup>>

\* Between operations a repository is made anew in the same place.
RepositoryReplaced ==
    /\ operation = NoOperation /\ setup = NoSetup
    /\ \E d \in Destinations, r \in Repositories :
         /\ \A e \in Destinations : disk[e] # r
         /\ disk[d] # NoRepository /\ disk' = [disk EXCEPT ![d] = r]
    /\ UNCHANGED <<backup_config, attached, record, operation, setup>>

-----------------------------------------------------------------------------
(* configure.                                                               *)

ConfigureBegins ==
    /\ setup = NoSetup /\ (Overlap \/ operation = NoOperation)
    /\ \E d \in attached :
         /\ setup' = [at |-> "init", to |-> d, previous |-> backup_config]
         /\ backup_config' = [to |-> d, id |-> NoRepository]
    /\ UNCHANGED <<disk, attached, record, operation>>

\* restic init, or a repository that is already there.
ConfigureInit ==
    /\ setup.at = "init" /\ backup_config.to \in attached
    /\ IF disk[backup_config.to] = NoRepository
       THEN \E r \in Repositories : (\A e \in Destinations : disk[e] # r) /\ disk' = [disk EXCEPT ![backup_config.to] = r]
       ELSE UNCHANGED disk
    /\ setup' = [setup EXCEPT !.at = "identify"]
    /\ UNCHANGED <<backup_config, attached, record, operation>>

ConfigureIdentifies ==
    /\ setup.at = "identify" /\ Present # NoRepository
    /\ backup_config' = [to |-> setup.to, id |-> Present]
    /\ setup' = [setup EXCEPT !.at = "record"]
    /\ UNCHANGED <<disk, attached, record, operation>>

\* A wrong passphrase or missing media: the previous configuration returns.
ConfigureFails ==
    /\ setup.at \in {"init", "identify"}
    /\ backup_config' = setup.previous /\ setup' = NoSetup
    /\ UNCHANGED <<disk, attached, record, operation>>

\* The record of the repository exists from now on.
ConfigureEnds ==
    /\ setup.at = "record" /\ setup' = NoSetup
    /\ UNCHANGED <<backup_config, disk, attached, record, operation>>

-----------------------------------------------------------------------------
(* backup, verify, restore, under the lock.                                 *)

OperationBegins ==
    /\ operation = NoOperation /\ backup_config # Unconfigured /\ (Overlap \/ setup = NoSetup)
    /\ \E kind \in Kinds : operation' = [NoOperation EXCEPT !.kind = kind, !.at = "identify"]
    /\ UNCHANGED <<backup_config, disk, attached, record, setup>>

\* Fault: the identity in the configuration is believed.
IdentityBelieved == IF backup_config.id # NoRepository THEN backup_config.id ELSE Present

\* repository_identity: Restic is asked each time.
Identity == Present

\* ensure_repository_identity; the record is marked RUNNING.
Identify ==
    LET running == [record EXCEPT ![Identity].state = "RUNNING"] IN
    /\ operation.at = "identify" /\ Identity # NoRepository
    /\ backup_config' = [backup_config EXCEPT !.id = Identity]
    /\ record' = running
    /\ operation' = [operation EXCEPT !.at = "run", !.id = Identity, !.state = running]
    /\ UNCHANGED <<disk, attached, setup>>

IdentifyFails ==
    /\ operation.at = "identify" /\ operation' = NoOperation
    /\ UNCHANGED <<backup_config, disk, attached, record, setup>>

\* What each operation leaves in the record, done or not, of the repository
\* now present.  A failed prune after a backup changes nothing here.
Outcome(done) == IF done THEN "COMPLETED" ELSE "FAILED"

AfterBackup(entry, done) ==
    [entry EXCEPT !.state = Outcome(done), !.snapshot = IF done THEN Present ELSE @]

AfterVerify(entry, done) ==
    [entry EXCEPT !.state = Outcome(done), !.checked = IF done THEN Present ELSE NoRepository]

AfterRestore(entry, done) == [entry EXCEPT !.state = Outcome(done)]

\* The whole of backup.json, as it was read, is written back.
FinishOperation(done) ==
    /\ operation.at = "run" /\ (done => Present # NoRepository)
    /\ record' = [operation.state EXCEPT ![operation.id] =
                    CASE operation.kind = "BACKUP" -> AfterBackup(@, done)
                      [] operation.kind = "VERIFY" -> AfterVerify(@, done)
                      [] operation.kind = "RESTORE" -> AfterRestore(@, done)]
    /\ operation' = NoOperation
    /\ UNCHANGED <<backup_config, disk, attached, setup>>

\* A helper is killed: the lock is free, the record still says RUNNING, a
\* configuration stays without an identity.
BackupHelperDies ==
    /\ \/ operation # NoOperation /\ operation' = NoOperation /\ UNCHANGED setup
       \/ setup # NoSetup /\ setup' = NoSetup /\ UNCHANGED operation
    /\ UNCHANGED <<backup_config, disk, attached, record>>

BackupNext ==
    \/ MediaChanges \/ RepositoryReplaced
    \/ ConfigureBegins \/ ConfigureInit \/ ConfigureIdentifies \/ ConfigureFails \/ ConfigureEnds
    \/ OperationBegins \/ Identify \/ IdentifyFails \/ (\E done \in BOOLEAN : FinishOperation(done)) \/ BackupHelperDies

BackupSpec == BackupInit /\ [][BackupNext]_backupVars

-----------------------------------------------------------------------------

(* The record of a repository speaks of that repository: the last backup was *)
(* written to it and the last check was of it, though media come and go,     *)
(* repositories are replaced and helpers die (backup, verify).               *)
RecordIsOfItsRepository ==
    \A r \in Repositories : record[r].snapshot \in {NoRepository, r} /\ record[r].checked \in {NoRepository, r}
=============================================================================
