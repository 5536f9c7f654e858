----------------------------- MODULE MCServices -----------------------------
(* The services beside the broker: updates, recovery points and backups,     *)
(* telemetry and devices, notifications, the sensor, the session's access to *)
(* the broker, startup files and the migration of the desktop's policy.      *)
(* Each keeps its state in files or tables of its own and hands the others   *)
(* nothing but inputs, so what one of them can do is told by its module      *)
(* alone.  part says which one a behaviour is about; the others stay as they *)
(* began.                                                                    *)
EXTENDS UpdateCenter, UpdateHistory, RecoveryPoints, Backup, Telemetry, DeviceHistory, DeviceApproval,
        LocalActivity, Notifications, SensorReader, SensorCoverage, SessionWorkflows,
        StartupChanges, ShellMigration

CONSTANTS w1, w2, r1, r2, s1, s2, h1, disk1, disk2, repo1, repo2, usb1, usb2, a1, f1, f2

MCWorkers == {w1, w2}
MCRefreshers == {r1, r2}
MCSnapshots == {s1, s2}
MCHelpers == {h1}
MCDestinations == {disk1, disk2}
MCRepositories == {repo1, repo2}
MCDevices == {usb1, usb2}
MCSyncers == {w1, w2}
MCActors == {a1}
MCStartupFiles == {f1, f2}
MCConditions == {"updates-security"}

VARIABLE part

maintenanceVars == <<updateVars, historyVars, recoveryVars, backupVars, migrationVars>>
recordVars == <<telemetryVars, deviceVars, approvalVars, local, startupVars>>
liveVars == <<noticeVars, sensorVars, coverageVars, sessionVars>>
servicesVars == <<part, maintenanceVars, recordVars, liveVars>>

ServicesInit ==
    /\ part \in {"updates", "history", "recovery", "backup", "shell",
                "telemetry", "devices", "approval", "local", "startup",
                "notices", "sensor", "coverage", "session"}
    /\ UpdateInit /\ HistoryInit /\ RecoveryInit /\ BackupInit /\ MigrationInit
    /\ TelemetryInit /\ DeviceInit /\ ApprovalInit /\ LocalInit /\ StartupInit
    /\ NoticeInit /\ SensorInit /\ CoverageInit /\ SessionInit
    \* The parts that stay as they began are given one of their beginnings.
    /\ part # "history" => provider = "DNF5"
    /\ part # "telemetry" => stored = {}

MaintenanceNext ==
    \/ /\ part = "updates" /\ UpdateNext
       /\ UNCHANGED <<historyVars, recoveryVars, backupVars, migrationVars>>
    \/ /\ part = "history" /\ HistoryNext
       /\ UNCHANGED <<updateVars, recoveryVars, backupVars, migrationVars>>
    \/ /\ part = "recovery" /\ RecoveryNext
       /\ UNCHANGED <<updateVars, historyVars, backupVars, migrationVars>>
    \/ /\ part = "backup" /\ BackupNext
       /\ UNCHANGED <<updateVars, historyVars, recoveryVars, migrationVars>>
    \/ /\ part = "shell" /\ MigrationNext
       /\ UNCHANGED <<updateVars, historyVars, recoveryVars, backupVars>>

RecordNext ==
    \/ /\ part = "telemetry" /\ TelemetryNext
       /\ UNCHANGED <<deviceVars, approvalVars, local, startupVars>>
    \/ /\ part = "devices" /\ DeviceNext
       /\ UNCHANGED <<telemetryVars, approvalVars, local, startupVars>>
    \/ /\ part = "approval" /\ ApprovalNext
       /\ UNCHANGED <<telemetryVars, deviceVars, local, startupVars>>
    \/ /\ part = "local" /\ LocalNext
       /\ UNCHANGED <<telemetryVars, deviceVars, approvalVars, startupVars>>
    \/ /\ part = "startup" /\ StartupNext
       /\ UNCHANGED <<telemetryVars, deviceVars, approvalVars, local>>

LiveNext ==
    \/ /\ part = "notices" /\ NoticeNext
       /\ UNCHANGED <<sensorVars, coverageVars, sessionVars>>
    \/ /\ part = "sensor" /\ SensorNext
       /\ UNCHANGED <<noticeVars, coverageVars, sessionVars>>
    \/ /\ part = "coverage" /\ CoverageNext
       /\ UNCHANGED <<noticeVars, sensorVars, sessionVars>>
    \/ /\ part = "session" /\ SessionNext
       /\ UNCHANGED <<noticeVars, sensorVars, coverageVars>>

ServicesNext ==
    /\ UNCHANGED part
    /\ \/ MaintenanceNext /\ UNCHANGED <<recordVars, liveVars>>
       \/ RecordNext /\ UNCHANGED <<maintenanceVars, liveVars>>
       \/ LiveNext /\ UNCHANGED <<maintenanceVars, recordVars>>

ServicesSpec == ServicesInit /\ [][ServicesNext]_servicesVars
=============================================================================
