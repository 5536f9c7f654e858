---------------------------- MODULE DeviceHistory ----------------------------
(***************************************************************************)
(* The history of external devices (the device tables of telemetry.py,       *)
(* device_overview of user_bus.py).  The threads of the session service list *)
(* what USBGuard has connected and reconcile the table with it, with one     *)
(* finding for each device.                                                  *)
(***************************************************************************)
EXTENDS FiniteSets

CONSTANTS
    Devices,        \* physical devices, each with an identity of its own
    Syncers         \* threads of the session service that reconcile the history

VARIABLES
    syncing,        \* each thread's sync_devices: its listing and what it selected
    devices,        \* table devices
    deviceFinding,  \* the finding of each device
    overtaken       \* history: rows taken out of use by a thread that had not selected them

deviceVars == <<syncing, devices, deviceFinding, overtaken>>

-----------------------------------------------------------------------------

NoRow == [known |-> FALSE, connected |-> FALSE, trusted |-> FALSE, reviewed |-> FALSE]
NoSync == [pc |-> "idle", seen |-> {}, trusted |-> {}, before |-> {}]

DeviceTypeOK ==
    /\ syncing \in [Syncers -> [pc : {"idle", "selected"}, seen : SUBSET Devices,
                                trusted : SUBSET Devices, before : SUBSET Devices]]
    /\ devices \in [Devices -> [known : BOOLEAN, connected : BOOLEAN, trusted : BOOLEAN, reviewed : BOOLEAN]]
    /\ deviceFinding \in [Devices -> {"NONE", "RESOLVED", "UNRESOLVED", "HISTORY_ONLY"}]
    /\ overtaken \subseteq Devices

DeviceInit ==
    /\ syncing = [t \in Syncers |-> NoSync] /\ overtaken = {}
    /\ devices = [d \in Devices |-> NoRow] /\ deviceFinding = [d \in Devices |-> "NONE"]

-----------------------------------------------------------------------------

\* device_finding.
FindingOf(row) ==
    IF row.trusted \/ row.reviewed THEN "RESOLVED" ELSE IF row.connected THEN "UNRESOLVED" ELSE "HISTORY_ONLY"

\* Fault: the finding of a device that was taken out is not derived again.
AffectedPresent(before, seen) == seen

\* The devices whose findings sync_devices derives again.
Affected(before, seen) == before \cup seen

\* device_overview and the first SELECT of sync_devices, which is outside of
\* its transaction: sqlite3 begins one at the first UPDATE.  The listing is of
\* any earlier moment (the service keeps one for two seconds), so it is any
\* set of devices; one that failed changes nothing.
SelectConnected(t) ==
    /\ syncing[t].pc = "idle"
    /\ \E seen \in SUBSET Devices : \E trusted \in SUBSET seen :
        syncing' = [syncing EXCEPT ![t] = [pc |-> "selected", seen |-> seen, trusted |-> trusted,
                                           before |-> {d \in Devices : devices[d].connected}]]
    /\ UNCHANGED <<devices, deviceFinding, overtaken>>

\* The transaction of sync_devices.
RowsAfter(sync) ==
    [d \in Devices |->
        IF d \in sync.seen
        THEN [devices[d] EXCEPT !.known = TRUE, !.connected = TRUE, !.trusted = d \in sync.trusted]
        ELSE [devices[d] EXCEPT !.connected = FALSE]]

SyncDevices(t) ==
    LET sync == syncing[t] IN
    /\ sync.pc = "selected"
    /\ devices' = RowsAfter(sync)
    /\ deviceFinding' = [d \in Devices |->
          IF d \in Affected(sync.before, sync.seen) THEN FindingOf(RowsAfter(sync)[d]) ELSE deviceFinding[d]]
    /\ overtaken' = {d \in Devices : d \notin sync.before \cup sync.seen /\ (devices[d].connected \/ d \in overtaken)}
    /\ syncing' = [syncing EXCEPT ![t] = NoSync]

\* The database stays locked for too long and the transaction is rolled back.
SyncFails(t) ==
    /\ syncing[t].pc = "selected" /\ syncing' = [syncing EXCEPT ![t] = NoSync]
    /\ UNCHANGED <<devices, deviceFinding, overtaken>>

SetDeviceReviewed(d) ==
    /\ devices[d].known
    /\ devices' = [devices EXCEPT ![d].reviewed = TRUE]
    /\ deviceFinding' = [deviceFinding EXCEPT ![d] = FindingOf([devices[d] EXCEPT !.reviewed = TRUE])]
    /\ overtaken' = overtaken \ {d}
    /\ UNCHANGED syncing

-----------------------------------------------------------------------------

DeviceNext ==
    \/ \E t \in Syncers : SelectConnected(t) \/ SyncDevices(t) \/ SyncFails(t)
    \/ \E d \in Devices : SetDeviceReviewed(d)

DeviceSpec == DeviceInit /\ [][DeviceNext]_deviceVars

-----------------------------------------------------------------------------

(* The findings a user sees follow the device table, whatever was plugged    *)
(* in, taken out, reviewed or trusted between two listings, although two     *)
(* threads synchronise it and select the connected devices before their      *)
(* transactions (device_overview, sync_devices, set_device_reviewed).  A row *)
(* that one thread put in and the other, which had selected before, took out *)
(* of use keeps the finding of a connected device until it is seen or        *)
(* reviewed again: no finding is wrong in any other way.                     *)
FindingsFollowDevices ==
    \A d \in Devices : devices[d].known =>
        deviceFinding[d] = FindingOf(IF d \in overtaken THEN [devices[d] EXCEPT !.connected = TRUE] ELSE devices[d])

(* Said of the code by test_aggregation.py: a device that is not connected   *)
(* is history and no active finding (sync_devices).                          *)
GoneDeviceIsHistory ==
    \A d \in Devices : devices[d].known /\ ~devices[d].connected => deviceFinding[d] # "UNRESOLVED"

=============================================================================
