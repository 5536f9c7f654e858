--------------------------- MODULE ServicesProofs ---------------------------
(***************************************************************************)
(* Proofs about the services beside the broker.  Each has its own state and  *)
(* its own specification, and each section below its own inductive           *)
(* invariant: device history, coverage of the sensor, backups, the evidence  *)
(* of updates, the session's leases and denials, startup files, and the      *)
(* reader of the sensor's export.                                            *)
(***************************************************************************)
EXTENDS UpdateHistory, Backup, DeviceHistory, SensorReader, SensorCoverage, SessionWorkflows,
        StartupChanges, FiniteSetTheorems, TLAPS

-----------------------------------------------------------------------------
(* Numbers.                                                                  *)

(* The smaller of two numbers is one of them.                                *)
LEMMA MinOfTwo ==
    ASSUME NEW a \in Int, NEW b \in Int
    PROVE  Min({a, b}) = IF a <= b THEN a ELSE b
PROOF
  <1> DEFINE m == IF a <= b THEN a ELSE b
  <1>1. m \in {a, b} /\ \A y \in {a, b} : m <= y
    OBVIOUS
  <1>2. \A x \in {a, b} : (\A y \in {a, b} : x <= y) => x = m
    OBVIOUS
  <1> QED BY <1>1, <1>2 DEF Min

(* The larger of two numbers is one of them.                                 *)
LEMMA MaxOfTwo ==
    ASSUME NEW a \in Int, NEW b \in Int
    PROVE  Max({a, b}) = IF a >= b THEN a ELSE b
PROOF
  <1> DEFINE m == IF a >= b THEN a ELSE b
  <1>1. m \in {a, b} /\ \A y \in {a, b} : m >= y
    OBVIOUS
  <1>2. \A x \in {a, b} : (\A y \in {a, b} : x >= y) => x = m
    OBVIOUS
  <1> QED BY <1>1, <1>2 DEF Max

-----------------------------------------------------------------------------
(* Sequences made of sets.                                                   *)

(* SetToSeq lists a finite set, every element once.                          *)
LEMMA SetToSeqLists ==
    ASSUME NEW S, IsFiniteSet(S)
    PROVE  /\ SetToSeq(S) \in Seq(S) /\ Len(SetToSeq(S)) = Cardinality(S) /\ Cardinality(S) \in Nat
           /\ \A x \in S : \E i \in 1 .. Cardinality(S) : SetToSeq(S)[i] = x
PROOF
  <1> DEFINE n == Cardinality(S)
             q == SetToSeq(S)
  <1>1. n \in Nat /\ ExistsBijection(1 .. n, S)
    BY FS_CardinalityType
  <1>2. \E f \in [1 .. n -> S] : IsInjective(f)
    BY <1>1 DEF ExistsBijection, Bijection, Injection
  <1>3. q \in [1 .. n -> S] /\ IsInjective(q)
    BY <1>2 DEF SetToSeq
  <1>4. q \in Injection(1 .. n, S)
    BY <1>3 DEF Injection
  <1>5. IsFiniteSet(1 .. n) /\ Cardinality(1 .. n) = n
    <2>1. 1 \in Int /\ n \in Int
      BY <1>1
    <2>2. Cardinality(1 .. n) = IF 1 > n THEN 0 ELSE n - 1 + 1
      BY <2>1, FS_Interval, Zenon
    <2>3. IsFiniteSet(1 .. n)
      BY <2>1, FS_Interval, Zenon
    <2> HIDE DEF n
    <2> QED BY <1>1, <2>2, <2>3
  <1>6. q \in Surjection(1 .. n, S)
    BY <1>4, <1>5, FS_Injection
  <1> HIDE DEF n, q
  <1>7. q \in Seq(S) /\ Len(q) = n
    BY <1>1, <1>3
  <1>8. \A x \in S : \E i \in 1 .. n : q[i] = x
    BY <1>6 DEF Surjection
  <1> QED BY <1>1, <1>7, <1>8 DEF n, q

-----------------------------------------------------------------------------
(* External devices (DeviceHistory).                                         *)

DeviceRows == [Devices -> [known : BOOLEAN, connected : BOOLEAN, trusted : BOOLEAN, reviewed : BOOLEAN]]

(* The findings are those of the table, except for rows that were overtaken. *)
DeviceInv ==
    /\ devices \in DeviceRows
    /\ deviceFinding = [d \in Devices |-> deviceFinding[d]]
    /\ FindingsFollowDevices

(* Reading the connected devices, and a transaction that is rolled back,     *)
(* leave the device table and its findings alone.                            *)
LEMMA DeviceFrames ==
    ASSUME NEW t \in Syncers, SelectConnected(t) \/ SyncFails(t)
    PROVE  UNCHANGED <<devices, deviceFinding, overtaken>>
PROOF
  BY DEF SelectConnected, SyncFails

(* sync_devices keeps the findings in step with the rows: a known device     *)
(* whose finding is not derived again was not listed, and is either as it    *)
(* was or overtaken now.                                                     *)
LEMMA SyncKeepsDeviceInv ==
    ASSUME DeviceInv, NEW t \in Syncers, SyncDevices(t)
    PROVE  DeviceInv'
PROOF
  <1> DEFINE sync == syncing[t]
             rows == RowsAfter(sync)
             Row == [known : BOOLEAN, connected : BOOLEAN, trusted : BOOLEAN, reviewed : BOOLEAN]
  <1>1. /\ devices' = rows
        /\ deviceFinding' = [d \in Devices |->
             IF d \in Affected(sync.before, sync.seen) THEN FindingOf(rows[d]) ELSE deviceFinding[d]]
        /\ overtaken' = {d \in Devices : d \notin sync.before \cup sync.seen /\ (devices[d].connected \/ d \in overtaken)}
    BY DEF SyncDevices
  <1>2. ASSUME NEW d \in Devices
        PROVE  /\ devices[d] \in Row
               /\ rows[d] = IF d \in sync.seen
                            THEN [devices[d] EXCEPT !.known = TRUE, !.connected = TRUE, !.trusted = d \in sync.trusted]
                            ELSE [devices[d] EXCEPT !.connected = FALSE]
    BY DEF DeviceInv, DeviceRows, RowsAfter
  <1>3. ASSUME NEW d \in Devices PROVE rows[d] \in Row
    <2>1. \A b \in BOOLEAN : [devices[d] EXCEPT !.known = TRUE, !.connected = TRUE, !.trusted = b] \in Row
      BY <1>2
    <2>2. (d \in sync.trusted) \in BOOLEAN
      OBVIOUS
    <2>3. [devices[d] EXCEPT !.connected = FALSE] \in Row
      BY <1>2
    <2>4. CASE d \in sync.seen
      BY <1>2, <2>1, <2>2, <2>4, Zenon
    <2>5. CASE d \notin sync.seen
      BY <1>2, <2>3, <2>5
    <2> QED BY <2>4, <2>5
  <1>4. rows \in DeviceRows
    BY <1>3 DEF DeviceRows, RowsAfter
  <1>5. ASSUME NEW d \in Devices, rows[d].known
        PROVE  deviceFinding'[d] = FindingOf(IF d \in overtaken' THEN [rows[d] EXCEPT !.connected = TRUE] ELSE rows[d])
    <2>1. CASE d \in sync.before \cup sync.seen
      <3>1. d \notin overtaken' /\ d \in Affected(sync.before, sync.seen)
        BY <1>1, <2>1 DEF Affected
      <3> HIDE DEF rows
      <3> QED BY <1>1, <3>1
    <2>2. CASE d \notin sync.before \cup sync.seen
      <3>1. /\ deviceFinding'[d] = deviceFinding[d]
            /\ rows[d] = [devices[d] EXCEPT !.connected = FALSE]
            /\ d \in overtaken' <=> devices[d].connected \/ d \in overtaken
        BY <1>1, <1>2, <2>2 DEF Affected
      <3>2. devices[d].known
        BY <1>2, <1>5, <3>1
      <3>3. deviceFinding[d] = FindingOf(IF d \in overtaken THEN [devices[d] EXCEPT !.connected = TRUE] ELSE devices[d])
        BY <3>2 DEF DeviceInv, FindingsFollowDevices
      <3>4. /\ devices[d].connected \/ d \in overtaken =>
                 [rows[d] EXCEPT !.connected = TRUE]
                   = IF d \in overtaken THEN [devices[d] EXCEPT !.connected = TRUE] ELSE devices[d]
            /\ ~devices[d].connected => rows[d] = devices[d]
        BY <1>2, <3>1
      <3> QED BY <3>1, <3>3, <3>4
    <2> QED BY <2>1, <2>2
  <1>6. FindingsFollowDevices'
    <2> HIDE DEF rows
    <2> QED BY <1>1, <1>5 DEF FindingsFollowDevices
  <1> HIDE DEF rows
  <1> QED BY <1>1, <1>4, <1>6 DEF DeviceInv

(* set_device_reviewed derives the finding of the row it changed.            *)
LEMMA ReviewKeepsDeviceInv ==
    ASSUME DeviceInv, NEW d \in Devices, SetDeviceReviewed(d)
    PROVE  DeviceInv'
PROOF
  <1> DEFINE row == [devices[d] EXCEPT !.reviewed = TRUE]
  <1>1. row \in [known : BOOLEAN, connected : BOOLEAN, trusted : BOOLEAN, reviewed : BOOLEAN]
    BY DEF DeviceInv, DeviceRows
  <1>2. /\ devices' = [devices EXCEPT ![d] = row]
        /\ overtaken' = overtaken \ {d}
    BY DEF SetDeviceReviewed
  <1>3. deviceFinding' = [e \in Devices |-> IF e = d THEN FindingOf(row) ELSE deviceFinding[e]]
    <2>1. deviceFinding' = [deviceFinding EXCEPT ![d] = FindingOf(row)]
      BY DEF SetDeviceReviewed
    <2> HIDE DEF row
    <2> QED BY <2>1 DEF DeviceInv
  <1> HIDE DEF row
  <1> QED
    BY <1>1, <1>2, <1>3 DEF DeviceInv, DeviceRows, FindingsFollowDevices

(* The findings a user sees follow the device table up to the rows one       *)
(* thread has taken out of use behind another's back, for any set of devices *)
(* and any number of threads (sync_devices, set_device_reviewed).            *)
THEOREM FindingsFollow ==
    DeviceSpec => []FindingsFollowDevices
PROOF
  <1>1. DeviceInit => DeviceInv
    BY DEF DeviceInit, DeviceInv, DeviceRows, FindingsFollowDevices, NoRow
  <1>2. DeviceInv /\ [DeviceNext]_deviceVars => DeviceInv'
    <2> SUFFICES ASSUME DeviceInv, [DeviceNext]_deviceVars PROVE DeviceInv'
      OBVIOUS
    <2>1. CASE UNCHANGED <<devices, deviceFinding, overtaken>>
      BY <2>1 DEF DeviceInv, FindingsFollowDevices
    <2>2. CASE DeviceNext
      BY <2>1, <2>2, DeviceFrames, SyncKeepsDeviceInv, ReviewKeepsDeviceInv DEF DeviceNext
    <2> QED BY <2>1, <2>2 DEF deviceVars
  <1>3. DeviceInv => FindingsFollowDevices
    BY DEF DeviceInv
  <1> QED BY <1>1, <1>2, <1>3, PTL DEF DeviceSpec

-----------------------------------------------------------------------------
(* Coverage of the behavioural sensor (SensorCoverage).                      *)

(* A health that says ACTIVE was written by a check that had a fresh answer  *)
(* of a probe and no recent gap; a gap since would have changed it.          *)
ActiveWasChecked ==
    health.state = "ACTIVE" =>
        /\ probes.verified_at # LongAgo
        /\ health.checked - probes.verified_at <= FRESH
        /\ health.checked - health.gap >= QUIET

(* What the reader remembers is of the past.                                 *)
CoverageInv ==
    /\ time \in Nat \ {0}
    /\ probes \in [pending : SUBSET Nat, verified_at : Nat, new : BOOLEAN, sent : Nat]
    /\ health \in [state : Health, healthy_probes : Nat, caught_up : BOOLEAN, checked : Nat, gap : Nat]
    /\ health.checked <= time
    /\ ActiveWasChecked

(* The check writes ACTIVE only over a verified probe and away from a gap.   *)
LEMMA CheckKeepsCoverageInv ==
    ASSUME CoverageInv, CheckCoverage
    PROVE  CoverageInv'
PROOF
  <1> USE CoverageConstants DEF CoverageInv
  <1>1. PICK active \in BOOLEAN, links \in BOOLEAN :
          LET healthy == IF Verified /\ health.caught_up /\ probes.new
                           THEN Min({2, health.healthy_probes + 1}) ELSE 0
              complete == Verified /\ links /\ health.caught_up /\ healthy = 2 /\ ~RecentGap
          IN health' = [health EXCEPT !.healthy_probes = healthy, !.checked = time,
                          !.state = IF ~active THEN "UNAVAILABLE" ELSE IF complete THEN "ACTIVE"
                                    ELSE IF probes.sent < 2 THEN "STARTING" ELSE "DEGRADED"]
    BY Zenon DEF CheckCoverage
  <1> DEFINE healthy == IF Verified /\ health.caught_up /\ probes.new
                          THEN Min({2, health.healthy_probes + 1}) ELSE 0
             complete == Verified /\ links /\ health.caught_up /\ healthy = 2 /\ ~RecentGap
             state == IF ~active THEN "UNAVAILABLE" ELSE IF complete THEN "ACTIVE"
                      ELSE IF probes.sent < 2 THEN "STARTING" ELSE "DEGRADED"
  <1>2. healthy \in Nat
    BY MinOfTwo
  <1>3. state \in Health /\ (state = "ACTIVE" => Verified /\ ~RecentGap)
    BY DEF Health
  <1>4. health' = [health EXCEPT !.healthy_probes = healthy, !.checked = time, !.state = state]
    BY <1>1
  <1> HIDE DEF healthy, complete, state
  <1>5. /\ health' \in [state : Health, healthy_probes : Nat, caught_up : BOOLEAN, checked : Nat, gap : Nat]
        /\ health'.checked = time /\ health'.gap = health.gap /\ health'.state = state
    BY <1>2, <1>3, <1>4
  <1>6. probes' = Issued(probes) /\ time' = time
    BY DEF CheckCoverage
  <1>7. probes' \in [pending : SUBSET Nat, verified_at : Nat, new : BOOLEAN, sent : Nat]
        /\ probes'.verified_at = probes.verified_at
    <2>1. Min({2, probes.sent + 1}) \in Nat
      BY MinOfTwo
    <2>2. {p \in probes.pending : time - p <= FRESH + 1} \cup {time} \in SUBSET Nat
      OBVIOUS
    <2> QED BY <1>6, <2>1, <2>2 DEF Issued
  <1>8. ActiveWasChecked'
    BY <1>3, <1>5, <1>6, <1>7 DEF ActiveWasChecked, Verified, RecentGap, LongAgo
  <1> QED BY <1>5, <1>6, <1>7, <1>8

(* Time passes, a probe is answered, a round ends or fails, a gap is         *)
(* recorded.                                                                 *)
LEMMA EventKeepsCoverageInv ==
    ASSUME CoverageInv, CheckDue \/ AnswerProbe \/ RoundEnds \/ RecordGap \/ RoundFails
    PROVE  CoverageInv'
PROOF
  <1> USE CoverageConstants DEF CoverageInv
  <1>1. CASE CheckDue
    BY <1>1 DEF CheckDue, ActiveWasChecked
  <1>2. CASE AnswerProbe
    <2>1. PICK p \in probes.pending :
            probes' = [probes EXCEPT !.pending = @ \ {p}, !.verified_at = time, !.new = TRUE]
      BY <1>2 DEF AnswerProbe
    <2>2. probes' \in [pending : SUBSET Nat, verified_at : Nat, new : BOOLEAN, sent : Nat] /\ probes'.verified_at = time
      BY <2>1
    <2>3. UNCHANGED <<time, health>>
      BY <1>2 DEF AnswerProbe
    <2> QED BY <2>2, <2>3 DEF ActiveWasChecked, LongAgo
  <1>3. CASE RoundEnds
    <2>1. PICK caught_up \in BOOLEAN : health' = [health EXCEPT !.caught_up = caught_up]
      BY <1>3 DEF RoundEnds
    <2> QED BY <1>3, <2>1 DEF RoundEnds, ActiveWasChecked
  <1>4. CASE RecordGap
    <2>1. /\ health' \in [state : Health, healthy_probes : Nat, caught_up : BOOLEAN, checked : Nat, gap : Nat]
          /\ health'.checked = time /\ health'.state # "ACTIVE"
      BY <1>4 DEF RecordGap, Health
    <2> QED BY <1>4, <2>1 DEF RecordGap, ActiveWasChecked
  <1>5. CASE RoundFails
    <2>1. /\ health' \in [state : Health, healthy_probes : Nat, caught_up : BOOLEAN, checked : Nat, gap : Nat]
          /\ health'.checked = time /\ health'.state # "ACTIVE"
      BY <1>5 DEF RoundFails, Health
    <2> QED BY <1>5, <2>1 DEF RoundFails, ActiveWasChecked
  <1> QED BY <1>1, <1>2, <1>3, <1>4, <1>5

(* Whoever is shown an active sensor sees one that answered a probe a short  *)
(* time ago, with no gap since, for every length of the freshness, the quiet *)
(* time and the heartbeat, also when the reader's thread hangs (snapshot,    *)
(* collect, ProbeTracker, record_gap).                                       *)
THEOREM ActiveIsRecent ==
    CoverageSpec => []ShownActiveIsRecent
PROOF
  <1> USE CoverageConstants
  <1>1. CoverageInit => CoverageInv
    BY DEF CoverageInit, CoverageInv, ActiveWasChecked, Health, LongAgo
  <1>2. CoverageInv /\ [CoverageNext]_coverageVars => CoverageInv'
    <2> SUFFICES ASSUME CoverageInv, [CoverageNext]_coverageVars PROVE CoverageInv'
      OBVIOUS
    <2>1. CASE UNCHANGED coverageVars
      BY <2>1 DEF coverageVars, CoverageInv, ActiveWasChecked
    <2> QED BY <2>1, CheckKeepsCoverageInv, EventKeepsCoverageInv DEF CoverageNext
  <1>3. CoverageInv => ShownActiveIsRecent
    BY DEF CoverageInv, ActiveWasChecked, ShownActiveIsRecent, ShownHealth
  <1> QED BY <1>1, <1>2, <1>3, PTL DEF CoverageSpec

-----------------------------------------------------------------------------
(* Personal backups (Backup).                                                *)

BackupRecords == [snapshot : MaybeRepository, checked : MaybeRepository, state : {"NONE", "RUNNING", "COMPLETED", "FAILED"}]
Configurations == [to : Destinations \cup {"nowhere"}, id : MaybeRepository]

(* What is said of each repository is said of no other.                      *)
OfTheirOwn(rows) ==
    /\ rows \in [Repositories -> BackupRecords]
    /\ \A r \in Repositories : rows[r].snapshot \in {NoRepository, r} /\ rows[r].checked \in {NoRepository, r}

(* An operation that runs has asked Restic, and the repository where the     *)
(* configuration points to is the one that answered, attached or not.        *)
RunIsOnItsRepository ==
    operation.at = "run" =>
        /\ operation.id \in Repositories
        /\ backup_config.to \in Destinations => disk[backup_config.to] = operation.id

(* The Security Center runs one command at a time: an operation has the      *)
(* configuration and the disk for itself.                                    *)
BackupInv ==
    /\ backup_config \in Configurations /\ disk \in [Destinations -> MaybeRepository] /\ attached \subseteq Destinations
    /\ operation \in [kind : Kinds \cup {"NONE"}, at : {"end", "identify", "run"}, id : MaybeRepository,
                      state : [Repositories -> BackupRecords]]
    /\ setup \in [at : {"end", "init", "identify", "record"}, to : Destinations \cup {"nowhere"}, previous : Configurations]
    /\ OfTheirOwn(record) /\ OfTheirOwn(operation.state)
    /\ operation = NoOperation \/ setup = NoSetup
    /\ operation.at # "end" => operation.kind \in Kinds
    /\ RunIsOnItsRepository

(* Nothing is recorded at first.                                             *)
LEMMA EmptyRecord ==
    /\ OfTheirOwn([r \in Repositories |-> NoRecord])
    /\ NoOperation \in [kind : Kinds \cup {"NONE"}, at : {"end", "identify", "run"}, id : MaybeRepository,
                        state : [Repositories -> BackupRecords]]
    /\ NoSetup \in [at : {"end", "init", "identify", "record"}, to : Destinations \cup {"nowhere"}, previous : Configurations]
    /\ OfTheirOwn(NoOperation.state) /\ NoOperation.at = "end"
PROOF
  BY DEF OfTheirOwn, BackupRecords, NoRecord, MaybeRepository, NoOperation, NoSetup, Unconfigured, Configurations

(* The repository that is present is where the configuration points to.      *)
LEMMA PresentIsOnDisk ==
    ASSUME BackupInv
    PROVE  /\ Present \in MaybeRepository
           /\ Present # NoRepository => backup_config.to \in Destinations /\ Present = disk[backup_config.to]
           /\ operation.at = "run" => Present \in {NoRepository, operation.id}
PROOF
  BY DEF BackupInv, Present, MaybeRepository, Configurations, RunIsOnItsRepository

(* The media and the configuration: while they change a repository or the    *)
(* configuration no operation runs.                                          *)
LEMMA SetupKeepsBackupInv ==
    ASSUME BackupInv, Overlap = FALSE,
           MediaChanges \/ RepositoryReplaced \/ ConfigureBegins \/ ConfigureInit \/ ConfigureIdentifies
           \/ ConfigureFails \/ ConfigureEnds
    PROVE  BackupInv'
PROOF
  <1> USE EmptyRecord, BackupConstants DEF BackupInv
  <1>1. CASE MediaChanges
    BY <1>1 DEF MediaChanges, RunIsOnItsRepository, OfTheirOwn
  <1>2. CASE RepositoryReplaced
    BY <1>2 DEF RepositoryReplaced, RunIsOnItsRepository, OfTheirOwn, MaybeRepository
  <1>3. CASE ConfigureBegins
    <2>1. operation = NoOperation /\ UNCHANGED <<disk, attached, record, operation>>
      BY <1>3 DEF ConfigureBegins
    <2>2. PICK d \in attached : /\ setup' = [at |-> "init", to |-> d, previous |-> backup_config]
                                /\ backup_config' = [to |-> d, id |-> NoRepository]
      BY <1>3 DEF ConfigureBegins
    <2>3. backup_config' \in Configurations
      BY <2>2 DEF Configurations, MaybeRepository
    <2>4. setup' \in [at : {"end", "init", "identify", "record"}, to : Destinations \cup {"nowhere"}, previous : Configurations]
      BY <2>2
    <2> QED BY <2>1, <2>3, <2>4 DEF RunIsOnItsRepository, OfTheirOwn
  <1>4. CASE ConfigureInit
    <2>1. operation = NoOperation /\ UNCHANGED <<backup_config, attached, record, operation>>
      BY <1>4 DEF ConfigureInit, NoSetup
    <2>2. disk' \in [Destinations -> MaybeRepository]
      BY <1>4 DEF ConfigureInit, MaybeRepository
    <2>3. setup' \in [at : {"end", "init", "identify", "record"}, to : Destinations \cup {"nowhere"}, previous : Configurations]
      BY <1>4 DEF ConfigureInit
    <2> QED BY <2>1, <2>2, <2>3 DEF RunIsOnItsRepository, OfTheirOwn
  <1>5. CASE ConfigureIdentifies
    <2>1. operation = NoOperation /\ UNCHANGED <<disk, attached, record, operation>>
      BY <1>5 DEF ConfigureIdentifies, NoSetup
    <2>2. backup_config' \in Configurations
      BY <1>5, PresentIsOnDisk DEF ConfigureIdentifies, Configurations
    <2>3. setup' \in [at : {"end", "init", "identify", "record"}, to : Destinations \cup {"nowhere"}, previous : Configurations]
      BY <1>5 DEF ConfigureIdentifies
    <2> QED BY <2>1, <2>2, <2>3 DEF RunIsOnItsRepository, OfTheirOwn
  <1>6. CASE ConfigureFails
    <2>1. operation = NoOperation /\ UNCHANGED <<disk, attached, record, operation>>
      BY <1>6 DEF ConfigureFails, NoSetup
    <2> QED BY <1>6, <2>1 DEF ConfigureFails, RunIsOnItsRepository, OfTheirOwn
  <1>7. CASE ConfigureEnds
    BY <1>7 DEF ConfigureEnds, RunIsOnItsRepository, OfTheirOwn
  <1> QED BY <1>1, <1>2, <1>3, <1>4, <1>5, <1>6, <1>7

(* An operation begins, identifies its repository, or ends without a word.   *)
LEMMA OperationKeepsBackupInv ==
    ASSUME BackupInv, Overlap = FALSE,
           OperationBegins \/ Identify \/ IdentifyFails \/ BackupHelperDies
    PROVE  BackupInv'
PROOF
  <1> USE EmptyRecord, BackupConstants DEF BackupInv
  <1>1. CASE OperationBegins
    <2>1. setup = NoSetup /\ UNCHANGED <<backup_config, disk, attached, record, setup>>
      BY <1>1 DEF OperationBegins
    <2>2. PICK kind \in Kinds : operation' = [NoOperation EXCEPT !.kind = kind, !.at = "identify"]
      BY <1>1 DEF OperationBegins
    <2>3. /\ operation' \in [kind : Kinds \cup {"NONE"}, at : {"end", "identify", "run"}, id : MaybeRepository,
                             state : [Repositories -> BackupRecords]]
          /\ operation'.at = "identify" /\ operation'.state = NoOperation.state /\ operation'.kind = kind
      BY <2>2
    <2> QED BY <2>1, <2>3 DEF RunIsOnItsRepository, OfTheirOwn
  <1>2. CASE Identify
    <2> DEFINE running == [record EXCEPT ![Present].state = "RUNNING"]
    <2>1. /\ operation.at = "identify" /\ Present # NoRepository
          /\ backup_config' = [backup_config EXCEPT !.id = Present]
          /\ record' = running
          /\ operation' = [operation EXCEPT !.at = "run", !.id = Present, !.state = running]
          /\ UNCHANGED <<disk, attached, setup>>
      BY <1>2 DEF Identify, Identity
    <2>2. Present \in Repositories /\ backup_config.to \in Destinations /\ disk[backup_config.to] = Present
      BY <2>1, PresentIsOnDisk DEF MaybeRepository
    <2>3. OfTheirOwn(running)
      BY <2>2 DEF OfTheirOwn, BackupRecords
    <2>4. running \in [Repositories -> BackupRecords]
      BY <2>3 DEF OfTheirOwn
    <2>5. setup = NoSetup /\ operation.kind \in Kinds
      BY <2>1 DEF NoOperation
    <2> HIDE DEF running
    <2>6. backup_config' \in Configurations /\ backup_config'.to = backup_config.to
      BY <2>1, <2>2 DEF Configurations, MaybeRepository
    <2>7. /\ operation' \in [kind : Kinds \cup {"NONE"}, at : {"end", "identify", "run"}, id : MaybeRepository,
                             state : [Repositories -> BackupRecords]]
          /\ operation'.id = Present /\ operation'.kind = operation.kind /\ operation'.state = running
      BY <2>1, <2>2, <2>4 DEF MaybeRepository
    <2>8. RunIsOnItsRepository'
      BY <2>1, <2>2, <2>5, <2>6, <2>7 DEF RunIsOnItsRepository
    <2> QED BY <2>1, <2>3, <2>5, <2>6, <2>7, <2>8 DEF OfTheirOwn
  <1>3. CASE IdentifyFails
    BY <1>3 DEF IdentifyFails, RunIsOnItsRepository, OfTheirOwn
  <1>4. CASE BackupHelperDies
    BY <1>4 DEF BackupHelperDies, RunIsOnItsRepository, OfTheirOwn
  <1> QED BY <1>1, <1>2, <1>3, <1>4

(* What an operation writes at its end speaks of the repository it ran on:   *)
(* the one that is present then, if any is.                                  *)
LEMMA FinishKeepsBackupInv ==
    ASSUME BackupInv, NEW done \in BOOLEAN, FinishOperation(done)
    PROVE  BackupInv'
PROOF
  <1> USE EmptyRecord, BackupConstants DEF BackupInv
  <1> DEFINE id == operation.id
             entry == operation.state[id]
             after == CASE operation.kind = "BACKUP" -> AfterBackup(entry, done)
                        [] operation.kind = "VERIFY" -> AfterVerify(entry, done)
                        [] operation.kind = "RESTORE" -> AfterRestore(entry, done)
  <1>1. operation.at = "run" /\ (done => Present # NoRepository)
    BY DEF FinishOperation
  <1>2. operation.kind \in Kinds /\ id \in Repositories /\ (done => Present = id)
    BY <1>1, PresentIsOnDisk DEF RunIsOnItsRepository
  <1>3. entry \in BackupRecords /\ entry.snapshot \in {NoRepository, id} /\ entry.checked \in {NoRepository, id}
    BY <1>2 DEF OfTheirOwn
  <1>4. after \in BackupRecords /\ after.snapshot \in {NoRepository, id} /\ after.checked \in {NoRepository, id}
    <2> HIDE DEF entry, id
    <2>1. Outcome(done) \in {"COMPLETED", "FAILED"}
      BY DEF Outcome
    <2>2. id \in MaybeRepository /\ NoRepository \in MaybeRepository
      BY <1>2 DEF MaybeRepository
    <2>3. CASE operation.kind = "BACKUP"
      <3> DEFINE of == IF done THEN Present ELSE entry.snapshot
      <3>1. after = [entry EXCEPT !.state = Outcome(done), !.snapshot = of]
        BY <2>3 DEF AfterBackup
      <3>2. of \in MaybeRepository /\ of \in {NoRepository, id}
        BY <1>2, <1>3, <2>2 DEF BackupRecords
      <3> HIDE DEF of, after
      <3> QED BY <1>3, <2>1, <3>1, <3>2 DEF BackupRecords
    <2>4. CASE operation.kind = "VERIFY"
      <3> DEFINE of == IF done THEN Present ELSE NoRepository
      <3>1. after = [entry EXCEPT !.state = Outcome(done), !.checked = of]
        BY <2>4 DEF AfterVerify
      <3>2. of \in MaybeRepository /\ of \in {NoRepository, id}
        BY <1>2, <1>3, <2>2 DEF BackupRecords
      <3> HIDE DEF of, after
      <3> QED BY <1>3, <2>1, <3>1, <3>2 DEF BackupRecords
    <2>5. CASE operation.kind = "RESTORE"
      <3>1. after = [entry EXCEPT !.state = Outcome(done)]
        BY <2>5 DEF AfterRestore
      <3> HIDE DEF after
      <3> QED BY <1>3, <2>1, <3>1 DEF BackupRecords
    <2> QED BY <1>2, <2>3, <2>4, <2>5 DEF Kinds
  <1>5. record' = [operation.state EXCEPT ![id] = after]
    BY DEF FinishOperation
  <1>6. operation' = NoOperation /\ UNCHANGED <<backup_config, disk, attached, setup>>
    BY DEF FinishOperation
  <1> HIDE DEF id, entry, after
  <1>7. OfTheirOwn(record')
    BY <1>2, <1>4, <1>5 DEF OfTheirOwn
  <1> QED BY <1>6, <1>7 DEF RunIsOnItsRepository, OfTheirOwn

(* The record of a repository speaks of that repository, for any media and   *)
(* any repositories, when commands do not overlap: as the Security Center    *)
(* runs them (backup, verify, restore, configure).                           *)
THEOREM RecordsAreTrue ==
    ASSUME Overlap = FALSE
    PROVE  BackupSpec => []RecordIsOfItsRepository
PROOF
  <1>1. BackupInit => BackupInv
    BY EmptyRecord DEF BackupInit, BackupInv, RunIsOnItsRepository, Configurations, Unconfigured, MaybeRepository
  <1>2. BackupInv /\ [BackupNext]_backupVars => BackupInv'
    <2> SUFFICES ASSUME BackupInv, [BackupNext]_backupVars PROVE BackupInv'
      OBVIOUS
    <2>1. CASE UNCHANGED backupVars
      BY <2>1 DEF backupVars, BackupInv, RunIsOnItsRepository, OfTheirOwn
    <2> QED BY <2>1, SetupKeepsBackupInv, OperationKeepsBackupInv, FinishKeepsBackupInv DEF BackupNext
  <1>3. BackupInv => RecordIsOfItsRepository
    BY DEF BackupInv, OfTheirOwn, RecordIsOfItsRepository
  <1> QED BY <1>1, <1>2, <1>3, PTL DEF BackupSpec

-----------------------------------------------------------------------------
(* The session's side of Application Security (SessionWorkflows).            *)

(* The fields of the broker.                                                 *)
RootShape(r) ==
    /\ DOMAIN r = {"life", "last", "next", "emitted", "collected", "truncated"}
    /\ {r.life, r.last, r.next, r.collected} \subseteq Nat /\ r.emitted \in Seq(Nat) /\ r.truncated \in BOOLEAN

(* The fields of the adapter, of an answer, of the history and of a lease.   *)
AdapterFields == {"pinned", "leases", "cursor", "foreign", "blocks"}

SessionShape ==
    /\ DOMAIN session = AdapterFields /\ DOMAIN kept = {"denials", "skipped", "refused", "outcomes"}
    /\ \A lease \in session.leases : DOMAIN lease = {"ref", "kind", "actor", "life", "age"}
    /\ session.pinned \in Nat /\ session.cursor \in Nat /\ session.foreign \in Nat
    /\ answer.life \in Nat /\ answer.cursor \in Nat

(* A broker that was pinned is one that lived, and the next one gets a new   *)
(* name: an adapter that has pinned a broker which is gone never takes a     *)
(* later one for it.  An adapter that has pinned none has nothing of one.    *)
PinnedInv ==
    /\ root.life \in {0, root.last} /\ root.last # 0
    /\ session.pinned <= root.last
    /\ session.pinned = 0 => session.leases = {} /\ session.cursor = session.foreign
    /\ LeasesAreOfTheirBroker

Accounted == kept.denials \cup kept.skipped \cup kept.refused

(* Every place up to one, from where the cursor is this broker's own, has an *)
(* event, and the event is in the set.                                       *)
PassedIn(place, events) ==
    \A s \in session.foreign + 1 .. place : s <= Len(root.emitted) /\ root.emitted[s] \in events

(* What the cursor has passed of the pinned broker is accounted for.         *)
CursorInv == root.life # 0 /\ session.pinned = root.life => PassedIn(session.cursor, Accounted)

(* An answer is of the pinned broker, or of one that has a successor; it     *)
(* holds what its cursor passes.                                             *)
AnswerInv ==
    answer.life # 0 =>
        /\ session.pinned = answer.life \/ answer.life < root.last
        /\ root.life = answer.life /\ session.pinned = answer.life =>
             PassedIn(answer.cursor, Accounted \cup answer.events \cup answer.skipped)

SessionInv ==
    /\ RootShape(root) /\ denials \in Nat /\ root.collected <= denials
    /\ SessionShape /\ PinnedInv /\ CursorInv /\ AnswerInv

(* A new broker: another name, nothing emitted yet.                          *)
LEMMA RebornShape ==
    ASSUME SessionInv
    PROVE  /\ RootShape(Reborn)
           /\ Reborn.life = root.last + 1 /\ Reborn.last = root.last + 1 /\ Reborn.collected = denials
PROOF
  BY DEF SessionInv, RootShape, Reborn

(* The broker: it dies and is born again under another name, denials come,   *)
(* and its log is rotated.                                                   *)
LEMMA RootKeepsSessionInv ==
    ASSUME SessionInv, RootDies \/ RootStarts \/ Deny \/ AuditRotates
    PROVE  SessionInv'
PROOF
  <1> USE DEF SessionInv, SessionShape, RootShape
  <1>1. UNCHANGED <<session, answer, kept>>
    BY DEF RootDies, RootStarts, Deny, AuditRotates
  <1>2. CASE RootDies
    <2>1. RootShape(root') /\ root'.life = 0 /\ root'.last = root.last /\ root'.collected = root.collected /\ UNCHANGED denials
      BY <1>2 DEF RootDies
    <2> QED BY <1>1, <2>1 DEF PinnedInv, LeasesAreOfTheirBroker, CursorInv, AnswerInv, PassedIn, Accounted
  <1>3. CASE RootStarts
    <2>1. RootShape(root') /\ root'.life = root.last + 1 /\ root'.last = root.last + 1 /\ root'.collected = denials
          /\ UNCHANGED denials
      BY <1>3, RebornShape DEF RootStarts
    <2> QED BY <1>1, <2>1 DEF PinnedInv, LeasesAreOfTheirBroker, CursorInv, AnswerInv, PassedIn, Accounted
  <1>4. CASE Deny
    BY <1>1, <1>4 DEF Deny, PinnedInv, LeasesAreOfTheirBroker, CursorInv, AnswerInv, PassedIn, Accounted
  <1>5. CASE AuditRotates
    <2>1. RootShape(root') /\ root'.life = root.life /\ root'.last = root.last /\ root'.collected = denials
          /\ root'.emitted = root.emitted /\ UNCHANGED denials
      BY <1>5 DEF AuditRotates
    <2> QED BY <1>1, <2>1 DEF PinnedInv, LeasesAreOfTheirBroker, CursorInv, AnswerInv, PassedIn, Accounted
  <1> QED BY <1>2, <1>3, <1>4, <1>5

(* A changed broker is forgotten, with its leases and its cursor.            *)
LEMMA ForgettingKeepsSessionInv ==
    ASSUME SessionInv, FindChanged \/ ChangeDuringCall \/ SessionRestarts
    PROVE  SessionInv'
PROOF
  <1> USE DEF SessionInv, SessionShape, RootShape, AdapterFields
  <1>1. UNCHANGED <<kept, denials>>
    BY DEF FindChanged, ChangeDuringCall, SessionRestarts
  <1>2. DOMAIN Forgotten = AdapterFields /\ Forgotten.pinned = 0 /\ Forgotten.leases = {}
        /\ Forgotten.cursor = 0 /\ Forgotten.foreign = 0
    BY DEF Forgotten
  <1>3. DOMAIN session' = AdapterFields /\ session'.pinned = 0 /\ session'.leases = {}
        /\ session'.cursor = 0 /\ session'.foreign = 0
    BY <1>2 DEF FindChanged, ChangeDuringCall, SessionRestarts, SessionStart
  <1>4. /\ RootShape(root') /\ root'.life \in {0, root'.last} /\ root'.last # 0
        /\ root'.collected <= denials
    <2>1. CASE UNCHANGED root
      BY <2>1 DEF PinnedInv
    <2>2. CASE root' = Reborn
      BY <2>2, RebornShape
    <2> QED BY <2>1, <2>2 DEF FindChanged, ChangeDuringCall, SessionRestarts
  <1>5. answer'.life \in Nat /\ answer'.cursor \in Nat /\ (answer'.life # 0 => answer'.life < root'.last)
    <2>1. CASE FindChanged
      <3>1. UNCHANGED <<root, answer>> /\ root.life # 0 /\ session.pinned # root.life
        BY <2>1 DEF FindChanged
      <3> QED BY <3>1 DEF PinnedInv, AnswerInv
    <2>2. CASE ChangeDuringCall
      <3>1. UNCHANGED answer /\ root'.last = root.last + 1
        BY <2>2, RebornShape DEF ChangeDuringCall
      <3> QED BY <3>1 DEF PinnedInv, AnswerInv
    <2>3. CASE SessionRestarts
      BY <2>3 DEF SessionRestarts, NotReading
    <2> QED BY <2>1, <2>2, <2>3
  <1>6. SessionShape' /\ PinnedInv' /\ CursorInv'
    BY <1>1, <1>3, <1>4, <1>5 DEF PinnedInv, LeasesAreOfTheirBroker, CursorInv
  <1>7. AnswerInv'
    BY <1>3, <1>5 DEF AnswerInv
  <1> QED BY <1>1, <1>4, <1>6, <1>7

(* A call of the pinned broker, or of the first one there is, that keeps the *)
(* cursor: it may leave a new lease of that broker.                          *)
LEMMA CallKeepsSessionInv ==
    ASSUME SessionInv, Reachable, UNCHANGED <<denials, answer>>, NEW leases, NEW next \in Nat,
           session' = [session EXCEPT !.pinned = root.life, !.leases = leases],
           \A lease \in leases :
              \/ lease \in session.leases
              \/ DOMAIN lease = {"ref", "kind", "actor", "life", "age"} /\ lease.life = root.life,
           root' = root \/ root' = [root EXCEPT !.next = next],
           DOMAIN kept' = DOMAIN kept, kept'.denials = kept.denials, kept'.skipped = kept.skipped,
           kept'.refused = kept.refused
    PROVE  SessionInv'
PROOF
  <1> USE DEF SessionInv, SessionShape, RootShape, AdapterFields
  <1>1. /\ DOMAIN session' = DOMAIN session
        /\ session'.pinned = root.life /\ session'.leases = leases /\ session'.cursor = session.cursor
        /\ session'.foreign = session.foreign
    OBVIOUS
  <1>2. /\ RootShape(root') /\ root'.life = root.life /\ root'.last = root.last /\ root'.collected = root.collected
        /\ root'.emitted = root.emitted
    <2>1. CASE root' = root
      BY <2>1
    <2>2. CASE root' = [root EXCEPT !.next = next]
      BY <2>2
    <2> QED BY <2>1, <2>2
  <1>3. SessionShape'
    BY <1>1
  <1>4. root.life # 0 /\ session.pinned \in {0, root.life}
    BY DEF Reachable
  <1>5. PinnedInv'
    BY <1>1, <1>2, <1>4 DEF PinnedInv, LeasesAreOfTheirBroker
  <1>6. Accounted' = Accounted /\ \A place, events : PassedIn(place, events) => PassedIn(place, events)'
    BY <1>1, <1>2 DEF Accounted, PassedIn
  <1>7. CursorInv'
    <2>1. CASE session.pinned = 0
      BY <1>1, <2>1 DEF CursorInv, PinnedInv, PassedIn
    <2>2. CASE session.pinned = root.life
      BY <1>1, <1>2, <1>4, <1>6, <2>2 DEF CursorInv
    <2> QED BY <1>4, <2>1, <2>2
  <1>8. AnswerInv'
    <2> SUFFICES ASSUME answer.life # 0
                 PROVE  /\ root.life = answer.life \/ answer.life < root.last
                        /\ root.life = answer.life => PassedIn(answer.cursor, Accounted \cup answer.events \cup answer.skipped)'
      BY <1>1, <1>2 DEF AnswerInv
    <2>1. session.pinned = answer.life \/ answer.life < root.last
      BY DEF AnswerInv
    <2>2. CASE session.pinned = answer.life
      BY <1>2, <1>4, <1>6, <2>2 DEF AnswerInv, PassedIn
    <2>3. CASE answer.life < root.last
      BY <1>4, <2>3 DEF PinnedInv
    <2> QED BY <2>1, <2>2, <2>3
  <1> QED BY <1>2, <1>3, <1>5, <1>7, <1>8

(* Reviews, launches, what is refused of them, and the administration calls. *)
LEMMA LeasingKeepsSessionInv ==
    ASSUME SessionInv,
           \/ RefuseAnswer
           \/ AdministrationCall
           \/ \E kind \in LeaseKinds : \E actor : Leased(kind, actor) /\ UNCHANGED kept
           \/ \E actor, ref : Started(actor, ref)
           \/ \E ref : Operate(ref)
    PROVE  SessionInv'
PROOF
  <1>0. /\ RootShape(root) /\ root.next \in Nat
        /\ DOMAIN session = AdapterFields /\ DOMAIN kept = {"denials", "skipped", "refused", "outcomes"}
    BY DEF SessionInv, SessionShape, RootShape
  <1>3. CASE RefuseAnswer
    <2>1. PICK next \in Nat : root' = root \/ root' = [root EXCEPT !.next = next]
      <3>1. Min({root.next + 1, MaxReference + 1}) \in Nat
        BY <1>0, MinOfTwo, SessionConstants
      <3>2. root' = root \/ root' = [root EXCEPT !.next = Min({root.next + 1, MaxReference + 1})]
        BY <1>3 DEF RefuseAnswer
      <3> QED BY <1>0, <3>1, <3>2
    <2>2. session' = [session EXCEPT !.pinned = root.life, !.leases = session.leases]
      BY <1>0, <1>3 DEF RefuseAnswer, AdapterFields
    <2> QED BY <1>0, <1>3, <2>1, <2>2, CallKeepsSessionInv DEF RefuseAnswer
  <1>4. ASSUME NEW kind \in LeaseKinds, NEW actor, Leased(kind, actor), UNCHANGED kept
        PROVE  SessionInv'
    <2> DEFINE lease == [ref |-> root.next, kind |-> kind, actor |-> actor, life |-> root.life, age |-> 0]
    <2>1. session' = [session EXCEPT !.pinned = root.life, !.leases = session.leases \cup {lease}]
      BY <1>4 DEF Leased
    <2>2. DOMAIN lease = {"ref", "kind", "actor", "life", "age"} /\ lease.life = root.life
      OBVIOUS
    <2>3. root.next + 1 \in Nat
      BY <1>0
    <2>4. root' = [root EXCEPT !.next = root.next + 1]
      BY <1>4 DEF Leased
    <2>5. Reachable /\ UNCHANGED <<denials, answer>>
      BY <1>4 DEF Leased
    <2> HIDE DEF lease
    <2> DEFINE leases == session.leases \cup {lease}
    <2>6. \A l \in leases : \/ l \in session.leases
                            \/ DOMAIN l = {"ref", "kind", "actor", "life", "age"} /\ l.life = root.life
      BY <2>2
    <2> HIDE DEF leases
    <2> QED BY <1>0, <1>4, <2>1, <2>3, <2>4, <2>5, <2>6, CallKeepsSessionInv DEF leases
  <1>5. ASSUME NEW actor, NEW ref, Started(actor, ref)
        PROVE  SessionInv'
    <2> DEFINE leases == session.leases \ LeaseOf("launch", actor, ref)
    <2>1. session' = [session EXCEPT !.pinned = root.life, !.leases = leases]
      BY <1>5 DEF Started
    <2>2. Reachable /\ UNCHANGED <<root, denials, answer, kept>>
      BY <1>5 DEF Started
    <2>3. \A l \in leases : l \in session.leases
      OBVIOUS
    <2> HIDE DEF leases
    <2> QED BY <1>0, <2>1, <2>2, <2>3, CallKeepsSessionInv
  <1>6. ASSUME NEW ref, Operate(ref)
        PROVE  SessionInv'
    <2>1. session' = [session EXCEPT !.pinned = root.life, !.leases = session.leases]
      BY <1>0, <1>6 DEF Operate, AdapterFields
    <2>2. DOMAIN kept' = DOMAIN kept /\ kept'.denials = kept.denials /\ kept'.skipped = kept.skipped
          /\ kept'.refused = kept.refused
      BY <1>0, <1>6 DEF Operate
    <2>3. Reachable /\ UNCHANGED <<root, denials, answer>>
      BY <1>6 DEF Operate
    <2> QED BY <1>0, <2>1, <2>2, <2>3, CallKeepsSessionInv
  <1>7. CASE AdministrationCall
    <2>1. session' = [session EXCEPT !.pinned = root.life, !.leases = session.leases]
      BY <1>0, <1>7 DEF AdministrationCall, AdapterFields
    <2> QED BY <1>0, <1>7, <2>1, CallKeepsSessionInv DEF AdministrationCall
  <1> QED BY <1>3, <1>4, <1>5, <1>6, <1>7

(* A lease ages or ends, and the counts of blocked access expire.            *)
LEMMA AgeingKeepsSessionInv ==
    ASSUME SessionInv, BlocksExpire \/ \E lease \in session.leases : LeaseAges(lease)
    PROVE  SessionInv'
PROOF
  <1> USE DEF SessionInv, SessionShape, RootShape, AdapterFields
  <1>1. CASE BlocksExpire
    <2>1. UNCHANGED <<root, denials, answer, kept>>
      BY <1>1 DEF BlocksExpire
    <2>2. /\ DOMAIN session' = DOMAIN session
          /\ session'.pinned = session.pinned /\ session'.leases = session.leases /\ session'.cursor = session.cursor
          /\ session'.foreign = session.foreign
      BY <1>1 DEF BlocksExpire
    <2> QED BY <2>1, <2>2 DEF PinnedInv, LeasesAreOfTheirBroker, CursorInv, AnswerInv, PassedIn, Accounted
  <1>2. ASSUME NEW lease \in session.leases, LeaseAges(lease)
        PROVE  SessionInv'
    <2> DEFINE old == [lease EXCEPT !.age = 1]
               left == (session.leases \ {lease}) \cup IF lease.kind = "change" /\ lease.age = 0 THEN {old} ELSE {}
    <2>1. UNCHANGED <<root, denials, answer, kept>>
      BY <1>2 DEF LeaseAges
    <2>2. session' = [session EXCEPT !.leases = left]
      BY <1>2 DEF LeaseAges
    <2>3. DOMAIN old = {"ref", "kind", "actor", "life", "age"} /\ old.life = lease.life
      OBVIOUS
    <2>4. \A l \in left : DOMAIN l = {"ref", "kind", "actor", "life", "age"} /\ l.life = session.pinned
      BY <2>3 DEF PinnedInv, LeasesAreOfTheirBroker
    <2>5. session.pinned # 0
      BY DEF PinnedInv
    <2> HIDE DEF left
    <2>6. /\ DOMAIN session' = DOMAIN session
          /\ session'.pinned = session.pinned /\ session'.leases = left /\ session'.cursor = session.cursor
          /\ session'.foreign = session.foreign
      BY <2>2
    <2> QED BY <2>1, <2>4, <2>5, <2>6 DEF PinnedInv, LeasesAreOfTheirBroker, CursorInv, AnswerInv, PassedIn, Accounted
  <1> QED BY <1>1, <1>2

(* AccessEvents.read: the cursor it answers with is within what was emitted, *)
(* nothing that it skips goes without the word truncated, and what lies      *)
(* between is in the answer.                                                 *)
LEMMA ReplyIsComplete ==
    ASSUME NEW r, r.emitted \in Seq(Nat), NEW cursor \in Nat
    PROVE  LET reply == EventReply(r, cursor) IN
             /\ reply.from \in Nat \ {0} /\ reply.to \in Int /\ reply.cursor \in Nat
             /\ cursor < reply.from /\ reply.cursor <= Len(r.emitted) /\ reply.to <= Len(r.emitted)
             /\ reply.from > cursor + 1 => reply.truncated
             /\ reply.from <= reply.to => reply.cursor = reply.to
             /\ reply.from > reply.to => reply.cursor <= cursor
PROOF
  <1> USE SessionConstants
  <1> DEFINE last == Len(r.emitted)
             front == Max({1, last - RETAIN + 1})
             first == Max({cursor + 1, front})
             end == Min({last, first + LIMIT - 1})
             next == IF first <= end THEN end ELSE Min({last, cursor})
             truncated == r.truncated \/ cursor > last \/ (last > 0 /\ cursor + 1 < front)
  <1>1. last \in Nat
    OBVIOUS
  <1> HIDE DEF last
  <1>2. front = IF 1 >= last - RETAIN + 1 THEN 1 ELSE last - RETAIN + 1
    <2> DEFINE b == last - RETAIN + 1
    <2>1. b \in Int /\ front = Max({1, b})
      BY <1>1
    <2> HIDE DEF b, front
    <2>2. front = IF 1 >= b THEN 1 ELSE b
      BY ONLY <2>1, MaxOfTwo
    <2> QED BY <2>2 DEF b
  <1>3. front \in Nat /\ (front > 1 => last > 0)
    BY <1>1, <1>2
  <1> HIDE DEF front
  <1>4. first = IF cursor + 1 >= front THEN cursor + 1 ELSE front
    <2> DEFINE a == cursor + 1
    <2>1. a \in Int /\ front \in Int /\ first = Max({a, front})
      BY <1>3
    <2> HIDE DEF a, first
    <2>2. first = IF a >= front THEN a ELSE front
      BY ONLY <2>1, MaxOfTwo
    <2> QED BY <2>2 DEF a
  <1>5. first \in Nat /\ first > cursor /\ (first > cursor + 1 => cursor + 1 < front /\ last > 0)
    BY <1>3, <1>4
  <1> HIDE DEF first
  <1>6. end = IF last <= first + LIMIT - 1 THEN last ELSE first + LIMIT - 1
    <2> DEFINE b == first + LIMIT - 1
    <2>1. b \in Int /\ last \in Int /\ end = Min({last, b})
      BY <1>1, <1>5
    <2> HIDE DEF b, end
    <2>2. end = IF last <= b THEN last ELSE b
      BY ONLY <2>1, MinOfTwo
    <2> QED BY <2>2 DEF b
  <1>7. end \in Int /\ end <= last
    BY <1>1, <1>5, <1>6
  <1> HIDE DEF end
  <1>9. Min({last, cursor}) = IF last <= cursor THEN last ELSE cursor
    BY <1>1, MinOfTwo, SMTT(30)
  <1>10. EventReply(r, cursor) = [from |-> first, to |-> end, cursor |-> next, truncated |-> truncated]
    BY DEF EventReply, last, front, first, end
  <1>11. next \in Nat /\ next <= last /\ (first <= end => next = end) /\ (first > end => next <= cursor)
    BY <1>1, <1>5, <1>7, <1>9
  <1>12. first > cursor + 1 => truncated
    BY <1>5
  <1> HIDE DEF next, truncated
  <1>13. /\ EventReply(r, cursor).from = first /\ EventReply(r, cursor).to = end
         /\ EventReply(r, cursor).cursor = next /\ EventReply(r, cursor).truncated = truncated
    BY <1>10
  <1> QED BY <1>5, <1>7, <1>11, <1>12, <1>13 DEF last

(* collect: what was emitted before keeps its number.                        *)
LEMMA CollectedShape ==
    ASSUME SessionInv
    PROVE  /\ RootShape(CollectedEvents) /\ CollectedEvents.collected = denials
           /\ CollectedEvents.life = root.life /\ CollectedEvents.last = root.last
           /\ Len(root.emitted) <= Len(CollectedEvents.emitted)
           /\ \A s \in 1 .. Len(root.emitted) : CollectedEvents.emitted[s] = root.emitted[s]
PROOF
  <1> DEFINE new == [i \in 1 .. denials - root.collected |-> root.collected + i]
  <1>1. denials - root.collected \in Nat /\ root.collected \in Nat /\ root.emitted \in Seq(Nat) /\ denials \in Nat
    BY DEF SessionInv, RootShape
  <1>2. new \in Seq(Nat)
    <2>1. new \in [1 .. denials - root.collected -> Nat]
      BY <1>1
    <2> HIDE DEF new
    <2> QED BY <1>1, <2>1
  <1>3. CollectedEvents = [root EXCEPT !.emitted = root.emitted \o new, !.collected = denials]
    BY DEF CollectedEvents
  <1> HIDE DEF new
  <1>4. root.emitted \o new \in Seq(Nat) /\ Len(root.emitted) <= Len(root.emitted \o new)
        /\ \A s \in 1 .. Len(root.emitted) : (root.emitted \o new)[s] = root.emitted[s]
    BY <1>1, <1>2
  <1> DEFINE all == root.emitted \o new
  <1>5. CollectedEvents = [root EXCEPT !.emitted = all, !.collected = denials]
    BY <1>3
  <1>6. all \in Seq(Nat)
    BY <1>4
  <1>7. RootShape(CollectedEvents) /\ CollectedEvents.collected = denials /\ CollectedEvents.emitted = all
        /\ CollectedEvents.life = root.life /\ CollectedEvents.last = root.last
    <2> HIDE DEF all
    <2> QED BY <1>1, <1>5, <1>6 DEF SessionInv, RootShape
  <1> QED BY <1>4, <1>7

(* ReadSecurityEvents: what the answer's cursor passes is in the answer, or  *)
(* is accounted for already.                                                 *)
LEMMA ReadingKeepsSessionInv ==
    ASSUME SessionInv, ReadSecurityEvents
    PROVE  SessionInv'
PROOF
  <1> DEFINE r == CollectedEvents
             cursor == session.cursor
             reply == EventReply(r, cursor)
             events == {r.emitted[s] : s \in reply.from .. reply.to}
             passed == {r.emitted[s] : s \in cursor + 1 .. Min({reply.from - 1, Len(r.emitted)})}
             skipped == IF reply.truncated THEN passed ELSE {}
  <1>1. /\ Reachable /\ UNCHANGED <<denials, kept, opening>> /\ root' = r
        /\ session' = [session EXCEPT !.pinned = root.life]
        /\ answer' = [life |-> root.life, cursor |-> reply.cursor, events |-> events, skipped |-> skipped]
    BY DEF ReadSecurityEvents
  <1>2. /\ answer'.life = root.life /\ answer'.cursor = reply.cursor /\ answer'.events = events /\ answer'.skipped = skipped
    <2> HIDE DEF events, skipped, reply
    <2> QED BY <1>1
  <1>3. root.life # 0 /\ session.pinned \in {0, root.life} /\ root.life = root.last
    BY <1>1 DEF Reachable, SessionInv, PinnedInv
  <1>4. /\ DOMAIN session' = DOMAIN session /\ session'.pinned = root.life /\ session'.leases = session.leases
        /\ session'.cursor = cursor /\ session'.foreign = session.foreign
    BY <1>1 DEF SessionInv, SessionShape, AdapterFields
  <1>5. /\ RootShape(r) /\ r.collected = denials /\ r.life = root.life /\ r.last = root.last
        /\ r.emitted \in Seq(Nat) /\ Len(root.emitted) \in Nat /\ Len(r.emitted) \in Nat
        /\ Len(root.emitted) <= Len(r.emitted)
        /\ \A s \in 1 .. Len(root.emitted) : r.emitted[s] = root.emitted[s]
    BY CollectedShape DEF RootShape, SessionInv
  <1>6. cursor \in Nat /\ session.foreign \in Nat /\ root.life \in Nat /\ denials \in Nat
    BY DEF SessionInv, SessionShape, RootShape
  <1> HIDE DEF r
  <1>7. ASSUME NEW s \in session.foreign + 1 .. cursor
        PROVE  s <= Len(r.emitted) /\ r.emitted[s] \in Accounted
    <2>1. session.pinned # 0
      BY <1>6 DEF SessionInv, PinnedInv
    <2>2. s <= Len(root.emitted) /\ root.emitted[s] \in Accounted
      BY <1>3, <2>1 DEF SessionInv, CursorInv, PassedIn
    <2>3. s \in 1 .. Len(root.emitted)
      BY <1>5, <1>6, <2>2
    <2> HIDE DEF cursor
    <2> QED BY <1>5, <1>6, <2>2, <2>3
  <1>8. /\ reply.from \in Nat \ {0} /\ reply.to \in Int /\ reply.cursor \in Nat
        /\ cursor < reply.from /\ reply.cursor <= Len(r.emitted) /\ reply.to <= Len(r.emitted)
        /\ reply.from > cursor + 1 => reply.truncated
        /\ reply.from <= reply.to => reply.cursor = reply.to
        /\ reply.from > reply.to => reply.cursor <= cursor
    BY <1>5, <1>6, ReplyIsComplete
  <1> HIDE DEF reply
  <1>9. Min({reply.from - 1, Len(r.emitted)}) = IF reply.from - 1 <= Len(r.emitted) THEN reply.from - 1 ELSE Len(r.emitted)
    <2>1. reply.from - 1 \in Int /\ Len(r.emitted) \in Int
      BY <1>5, <1>8
    <2> QED BY <2>1, MinOfTwo
  <1>10. ASSUME NEW s \in session.foreign + 1 .. reply.cursor
         PROVE  s <= Len(r.emitted) /\ r.emitted[s] \in Accounted \cup events \cup skipped
    <2>0. s \in Nat \ {0} /\ s <= reply.cursor /\ s > session.foreign
      BY <1>6, <1>8
    <2> HIDE DEF cursor
    <2>1. CASE s <= cursor
      <3>1. s \in session.foreign + 1 .. cursor
        BY <1>6, <2>0, <2>1
      <3> QED BY <1>7, <3>1
    <2>2. CASE s > cursor
      <3>1. reply.from <= reply.to /\ reply.cursor = reply.to
        BY <1>6, <1>8, <2>0, <2>2
      <3>2. CASE s >= reply.from
        <4>1. s \in reply.from .. reply.to
          BY <1>8, <2>0, <3>1, <3>2
        <4> QED BY <1>5, <1>8, <2>0, <3>1, <4>1
      <3>3. CASE s < reply.from
        <4>1. reply.truncated
          BY <1>6, <1>8, <2>0, <2>2, <3>3
        <4>2. s \in cursor + 1 .. Min({reply.from - 1, Len(r.emitted)})
          BY <1>5, <1>6, <1>8, <1>9, <2>0, <2>2, <3>3, SMTT(30)
        <4>3. r.emitted[s] \in passed
          BY <4>2
        <4>4. r.emitted[s] \in skipped
          BY <4>1, <4>3
        <4>5. s <= Len(r.emitted)
          BY <1>5, <1>8, <2>0
        <4> HIDE DEF events, passed, skipped
        <4> QED BY <4>4, <4>5
      <3> HIDE DEF events, passed, skipped
      <3> QED BY <1>8, <2>0, <3>2, <3>3
    <2> HIDE DEF events, passed, skipped
    <2> QED BY <1>6, <2>0, <2>1, <2>2
  <1> HIDE DEF events, passed, skipped
  <1>11. Accounted' = Accounted
    BY <1>1 DEF Accounted
  <1>12. CursorInv'
    BY <1>1, <1>4, <1>7, <1>11 DEF CursorInv, PassedIn
  <1>13. AnswerInv'
    BY <1>1, <1>2, <1>4, <1>10, <1>11 DEF AnswerInv, PassedIn
  <1>14. SessionShape'
    BY <1>1, <1>2, <1>4, <1>6, <1>8 DEF SessionInv, SessionShape
  <1>15. PinnedInv'
    BY <1>1, <1>3, <1>4, <1>5 DEF SessionInv, SessionShape, PinnedInv, LeasesAreOfTheirBroker, RootShape
  <1> QED BY <1>1, <1>5, <1>6, <1>12, <1>13, <1>14, <1>15 DEF SessionInv

(* reconcile_access_events: the cursor moves over what the answer holds; an  *)
(* answer of a broker that was forgotten moves it to a place of its own.     *)
LEMMA ReconcileKeepsSessionInv ==
    ASSUME SessionInv, ReconcileAccessEvents \/ ReconcileStops
    PROVE  SessionInv'
PROOF
  <1>0. /\ session.cursor \in Nat /\ session.foreign \in Nat /\ session.pinned \in Nat /\ answer.cursor \in Nat
        /\ DOMAIN session = AdapterFields /\ DOMAIN kept = {"denials", "skipped", "refused", "outcomes"}
    BY DEF SessionInv, SessionShape
  <1>1. UNCHANGED <<root, denials>> /\ answer' = NotReading /\ answer.life # 0
    BY DEF ReconcileAccessEvents, ReconcileStops, Locked
  <1>2. AnswerInv' /\ answer'.life \in Nat /\ answer'.cursor \in Nat
    BY <1>1 DEF AnswerInv, NotReading
  <1>3. CASE ReconcileAccessEvents
    <2>1. PICK stored \in SUBSET answer.events :
            /\ kept' = [kept EXCEPT !.denials = @ \cup stored, !.skipped = @ \cup answer.skipped,
                                    !.refused = @ \cup (answer.events \ stored)]
            /\ session' = [session EXCEPT
                 !.blocks = @ + Cardinality(stored \ kept.denials), !.cursor = answer.cursor,
                 !.foreign = IF session.pinned = answer.life THEN Min({@, answer.cursor}) ELSE answer.cursor]
      BY <1>3, Zenon DEF ReconcileAccessEvents
    <2> DEFINE foreign == IF session.pinned = answer.life THEN Min({session.foreign, answer.cursor}) ELSE answer.cursor
    <2>2. /\ DOMAIN session' = AdapterFields /\ session'.pinned = session.pinned /\ session'.leases = session.leases
          /\ session'.cursor = answer.cursor /\ session'.foreign = foreign
      BY <1>0, <2>1 DEF AdapterFields
    <2>3. /\ DOMAIN kept' = DOMAIN kept
          /\ Accounted' = Accounted \cup answer.events \cup answer.skipped
      BY <1>0, <2>1 DEF Accounted
    <2>4. Min({session.foreign, answer.cursor}) = IF session.foreign <= answer.cursor THEN session.foreign ELSE answer.cursor
      BY <1>0, MinOfTwo
    <2>5. foreign \in Nat
      BY <1>0, <2>4
    <2>6. CursorInv'
      <3> SUFFICES ASSUME root.life # 0, session.pinned = root.life, NEW s \in foreign + 1 .. answer.cursor
                   PROVE  s <= Len(root.emitted) /\ root.emitted[s] \in Accounted'
        BY <1>1, <2>2 DEF CursorInv, PassedIn
      <3>1. session.pinned = answer.life /\ s \in session.foreign + 1 .. answer.cursor
        BY <1>0, <2>4
      <3> QED BY <1>1, <2>3, <3>1 DEF SessionInv, AnswerInv, PassedIn
    <2>7. session.pinned = 0 => session'.cursor = session'.foreign
      BY <1>1, <2>2
    <2> HIDE DEF foreign
    <2>8. SessionShape' /\ PinnedInv'
      BY <1>0, <1>1, <1>2, <2>2, <2>3, <2>5, <2>7 DEF SessionInv, SessionShape, PinnedInv, LeasesAreOfTheirBroker
    <2> QED BY <1>1, <1>2, <2>6, <2>8 DEF SessionInv
  <1>4. CASE ReconcileStops
    <2>1. PICK stored \in SUBSET answer.events :
            /\ kept' = [kept EXCEPT !.denials = @ \cup stored]
            /\ session' = [session EXCEPT !.blocks = @ + Cardinality(stored \ kept.denials)]
      BY <1>4, Zenon DEF ReconcileStops
    <2>2. /\ DOMAIN session' = AdapterFields /\ session'.pinned = session.pinned /\ session'.leases = session.leases
          /\ session'.cursor = session.cursor /\ session'.foreign = session.foreign
      BY <1>0, <2>1 DEF AdapterFields
    <2>3. DOMAIN kept' = DOMAIN kept /\ Accounted \subseteq Accounted'
      BY <1>0, <2>1 DEF Accounted
    <2>4. CursorInv'
      BY <1>1, <2>2, <2>3 DEF SessionInv, CursorInv, PassedIn
    <2>5. SessionShape' /\ PinnedInv'
      BY <1>0, <1>1, <1>2, <2>2, <2>3 DEF SessionInv, SessionShape, PinnedInv, LeasesAreOfTheirBroker
    <2> QED BY <1>1, <1>2, <2>4, <2>5 DEF SessionInv
  <1> QED BY <1>3, <1>4

(* Every step of the session or of the broker keeps the invariant.           *)
LEMMA StepKeepsSessionInv ==
    ASSUME SessionInv, [SessionNext]_sessionVars
    PROVE  SessionInv'
PROOF
  <1>1. CASE UNCHANGED <<root, denials, session, answer, kept>>
    BY <1>1 DEF SessionInv, RootShape, SessionShape, PinnedInv, LeasesAreOfTheirBroker, CursorInv, AnswerInv, PassedIn, Accounted
  <1>2. ASSUME NEW actor \in Actors, PreviewChange(actor) \/ PrepareLaunch(actor) \/ SelectDocument(actor)
        PROVE  SessionInv'
    <2>1. CASE SelectDocument(actor)
      BY <1>1, <2>1 DEF SelectDocument
    <2>2. CASE PreviewChange(actor)
      BY <2>2, LeasingKeepsSessionInv DEF PreviewChange, LeaseKinds
    <2>3. CASE PrepareLaunch(actor)
      BY <2>3, LeasingKeepsSessionInv DEF PrepareLaunch, LeaseKinds
    <2> QED BY <1>2, <2>1, <2>2, <2>3
  <1>3. ASSUME NEW actor \in Actors, NEW ref \in References,
               ApplyPolicyChange(actor, ref) \/ ReadOrCancel(actor, ref) \/ StartLaunch(actor, ref)
        PROVE  SessionInv'
    BY <1>3, LeasingKeepsSessionInv DEF ApplyPolicyChange, ReadOrCancel, StartLaunch
  <1>4. CASE DocumentChanges \/ ResolveHandler \/ DocumentRefused
    BY <1>1, <1>4 DEF DocumentChanges, ResolveHandler, DocumentRefused
  <1>5. CASE PrepareDocument
    BY <1>5, LeasingKeepsSessionInv DEF PrepareDocument, LeaseKinds
  <1>6. CASE StartDocument
    BY <1>6, LeasingKeepsSessionInv DEF StartDocument
  <1>7. CASE UNCHANGED sessionVars
    BY <1>1, <1>7 DEF sessionVars
  <1> QED
    BY <1>2, <1>3, <1>4, <1>5, <1>6, <1>7, RootKeepsSessionInv, ForgettingKeepsSessionInv, LeasingKeepsSessionInv,
       AgeingKeepsSessionInv, ReadingKeepsSessionInv, ReconcileKeepsSessionInv DEF SessionNext

(* The session begins with the first broker, nothing pinned.                 *)
LEMMA SessionBegins == SessionInit => SessionInv
PROOF
  <1> SUFFICES ASSUME SessionInit PROVE SessionInv
    OBVIOUS
  <1>1. RootShape(root) /\ root.life = 1 /\ root.last = 1 /\ root.collected = 0 /\ denials = 0
    BY DEF SessionInit, RootShape
  <1>2. SessionShape /\ session.pinned = 0 /\ session.leases = {} /\ session.cursor = 0 /\ session.foreign = 0
        /\ answer.life = 0
    BY DEF SessionInit, SessionStart, NotReading, SessionShape, AdapterFields
  <1> QED BY <1>1, <1>2 DEF SessionInv, PinnedInv, CursorInv, AnswerInv, LeasesAreOfTheirBroker

(* Every denial the cursor has passed is in the session's history, or was in *)
(* a read that the broker called truncated, or was refused by the store, for *)
(* every size of the buffer and of a read, any number of brokers, sessions   *)
(* and denials; only an answer that comes to be stored after its broker was  *)
(* forgotten hides denials, those of the next broker up to its cursor        *)
(* (reconcile_access_events, _call; AccessEvents.read).                      *)
THEOREM DenialsAreNotLost ==
    SessionSpec => []DenialsAreKept
PROOF
  <1>1. SessionInv => DenialsAreKept
    <2> SUFFICES ASSUME SessionInv, root.life # 0, session.pinned = root.life PROVE DenialsAreKept
      BY DEF DenialsAreKept
    <2>1. session.cursor \in Nat /\ session.foreign \in Nat /\ Len(root.emitted) \in Nat
      BY DEF SessionInv, SessionShape, RootShape
    <2>2. Min({session.cursor, Len(root.emitted)}) =
            IF session.cursor <= Len(root.emitted) THEN session.cursor ELSE Len(root.emitted)
      BY <2>1, MinOfTwo
    <2>3. ASSUME NEW s \in session.foreign + 1 .. Min({session.cursor, Len(root.emitted)})
          PROVE  root.emitted[s] \in kept.denials \cup kept.skipped \cup kept.refused
      <3>1. s \in session.foreign + 1 .. session.cursor
        BY <2>1, <2>2
      <3> QED BY <3>1 DEF SessionInv, CursorInv, PassedIn, Accounted
    <2> QED BY <2>3 DEF DenialsAreKept
  <1> QED BY <1>1, SessionBegins, StepKeepsSessionInv, PTL DEF SessionSpec

(* A lease the adapter would pass on was made by the broker it has pinned:   *)
(* none is carried over to another broker (_call, reset_owner).              *)
THEOREM LeasesEndWithTheirBroker ==
    SessionSpec => []LeasesAreOfTheirBroker
PROOF
  <1>1. SessionInv => LeasesAreOfTheirBroker
    BY DEF SessionInv, PinnedInv
  <1> QED BY <1>1, SessionBegins, StepKeepsSessionInv, PTL DEF SessionSpec

-----------------------------------------------------------------------------
(* The evidence history of updates (UpdateHistory).                          *)

(* One version was installed when, or before, another one was.               *)
NoLater(from, to) == \E j, k \in DOMAIN installs : j <= k /\ from \in installs[j] /\ to \in installs[k]

(* Records of versions that were installed at some time.                     *)
WereInstalled(records) ==
    /\ records \in [RecordIds -> Seq(ItemVersions)]
    /\ \A i \in RecordIds, n \in Nat : n \in DOMAIN records[i] => \E j \in DOMAIN installs : records[i][n] \in installs[j]

Forward == {e \in [from : ItemVersions, to : ItemVersions] : NoLater(e.from, e.to)}

(* A snapshot's two sets of records: the earlier ones were read before the   *)
(* providers were asked.                                                     *)
InOrder(t) ==
    /\ DOMAIN t = {"pc", "before", "seen", "loaded"}
    /\ t.pc \in {"none", "collect", "history", "write", "records"}
    /\ WereInstalled(t.before) /\ WereInstalled(t.seen)
    /\ t.pc \in {"history", "write", "records"} =>
         \A i \in RecordIds, m, n \in Nat :
             m \in DOMAIN t.before[i] /\ n \in DOMAIN t.seen[i] => NoLater(t.before[i][m], t.seen[i][n])
    /\ t.loaded \in Seq(Forward)

HistoryInv ==
    /\ installs \in Seq(SUBSET ItemVersions) /\ installs # <<>>
    /\ WereInstalled(recorded)
    /\ evidence \in Seq(Forward)
    /\ \A s \in Snapshots : InOrder(taking[s])
    /\ DOMAIN taking = Snapshots

(* A file that is being written reads as itself or as nothing.               *)
LEMMA ReadIsFileOrNothing ==
    ASSUME NEW file, NEW pc, NEW nothing, NEW x \in Read(file, pc, nothing)
    PROVE  x = file \/ x = nothing
PROOF
  BY DEF Read

(* Nothing is recorded of anything at first.                                 *)
LEMMA NothingTaken == WereInstalled(NoRecords) /\ InOrder(NotTaken)
PROOF
  <1>1. <<>> \in Seq(ItemVersions) /\ <<>> \in Seq(Forward) /\ \A n \in Nat : n \notin DOMAIN <<>>
    OBVIOUS
  <1>2. WereInstalled(NoRecords)
    BY <1>1 DEF WereInstalled, NoRecords
  <1> QED BY <1>1, <1>2 DEF InOrder, NotTaken

(* What a provider answers is of versions that are installed now.            *)
LEMMA CollectedIsInstalled ==
    ASSUME HistoryInv, NEW found \in Collected
    PROVE  /\ found \in [RecordIds -> Seq(ItemVersions)]
           /\ \A i \in RecordIds, n \in Nat : n \in DOMAIN found[i] => found[i][n] \in Current
PROOF
  <1>1. Current \subseteq ItemVersions
    BY DEF HistoryInv, Current
  <1>2. \A v \in Current : <<v>> \in Seq(ItemVersions) /\ \A n \in Nat : n \in DOMAIN <<v>> => <<v>>[n] \in Current
    BY <1>1
  <1>3. \A list \in SetToSeqs(Current) : list \in Seq(ItemVersions) /\ \A n \in Nat : n \in DOMAIN list => list[n] \in Current
    <2>1. IsFiniteSet(ItemVersions)
      BY HistoryConstants, FS_Interval DEF ItemVersions
    <2>2. Cardinality(Current) \in Nat
      BY <1>1, <2>1, FS_Subset, FS_CardinalityType
    <2>3. \A list \in SetToSeqs(Current) : list \in [1 .. Cardinality(Current) -> Current]
      BY DEF SetToSeqs
    <2>4. \A list \in [1 .. Cardinality(Current) -> Current] :
            /\ list \in Seq(ItemVersions) /\ DOMAIN list = 1 .. Cardinality(Current)
            /\ \A n \in DOMAIN list : list[n] \in Current
      BY <1>1, <2>2
    <2> QED BY <2>3, <2>4
  <1>4. <<>> \in Seq(ItemVersions) /\ \A n \in Nat : n \notin DOMAIN <<>>
    OBVIOUS
  <1>5. PICK id \in RecordIds, list \in Seq(ItemVersions) :
          found = Under(id, list) /\ \A n \in Nat : n \in DOMAIN list => list[n] \in Current
    <2>1. NoRecords = Under("item", <<>>)
      BY DEF NoRecords, Under
    <2>2. \/ found = NoRecords
          \/ \E v \in Current : found \in {Under("item", <<v>>), Under("settled", <<v>>)}
          \/ \E list \in SetToSeqs(Current) : found = Under("item", list)
      BY DEF Collected, dnf5, rpm_ostree, flatpak, fwupd, freshclam, NoAnswer, OneUnder
    <2>3. "item" \in RecordIds /\ "settled" \in RecordIds
      BY DEF RecordIds
    <2> QED BY <1>2, <1>3, <1>4, <2>1, <2>2, <2>3
  <1>6. found \in [RecordIds -> Seq(ItemVersions)] /\ \A i \in RecordIds : found[i] \in {<<>>, list}
    BY <1>4, <1>5 DEF Under, NoRecords
  <1> QED BY <1>4, <1>5, <1>6

(* An entry is made of two versions, the second installed no earlier.        *)
LEMMA ChangesGoForward ==
    ASSUME NEW t, InOrder(t), t.pc = "history"
    PROVE  Changes(t.before, t.seen) \in Seq(Forward)
PROOF
  <1> DEFINE J == {j \in RecordIds : t.before[j] # <<>>}
             Of(i) == {[from |-> Last(t.before[i]), to |-> v] : v \in ToSet(t.seen[i]) \ {Last(t.before[i])}}
             E == UNION {Of(i) : i \in J}
             Pairs == [from : ItemVersions, to : ItemVersions]
  <1>1. E \subseteq Forward
    <2> SUFFICES ASSUME NEW i \in J, NEW v \in ToSet(t.seen[i]) PROVE [from |-> Last(t.before[i]), to |-> v] \in Forward
      OBVIOUS
    <2>1. i \in RecordIds /\ t.before[i] \in Seq(ItemVersions) /\ t.seen[i] \in Seq(ItemVersions) /\ t.before[i] # <<>>
      BY DEF InOrder, WereInstalled
    <2>2. PICK n \in Nat : n \in DOMAIN t.seen[i] /\ v = t.seen[i][n]
      BY <2>1 DEF ToSet
    <2> DEFINE m == Len(t.before[i])
    <2>3. m \in Nat /\ m \in DOMAIN t.before[i] /\ Last(t.before[i]) = t.before[i][m]
      BY <2>1 DEF Last
    <2>4. NoLater(t.before[i][m], t.seen[i][n])
      BY <2>1, <2>2, <2>3 DEF InOrder
    <2>5. t.before[i][m] \in ItemVersions /\ v \in ItemVersions
      BY <2>1, <2>2, <2>3
    <2> QED BY <2>2, <2>3, <2>4, <2>5 DEF Forward
  <1>2. E \in SUBSET Pairs
    BY <1>1 DEF Forward
  <1>3. IsFiniteSet(Pairs)
    <2>1. IsFiniteSet(ItemVersions)
      BY HistoryConstants, FS_Interval DEF ItemVersions
    <2>2. IsFiniteSet(ItemVersions \X ItemVersions)
      BY <2>1, FS_Product
    <2> DEFINE f == [p \in ItemVersions \X ItemVersions |-> [from |-> p[1], to |-> p[2]]]
    <2>3. f \in Surjection(ItemVersions \X ItemVersions, Pairs)
      <3>1. f \in [ItemVersions \X ItemVersions -> Pairs]
        OBVIOUS
      <3>2. ASSUME NEW e \in Pairs PROVE \E p \in ItemVersions \X ItemVersions : f[p] = e
        <4>1. <<e.from, e.to>> \in ItemVersions \X ItemVersions /\ f[<<e.from, e.to>>] = [from |-> e.from, to |-> e.to]
          BY <3>2
        <4>2. e = [from |-> e.from, to |-> e.to]
          BY <3>2
        <4> HIDE DEF f
        <4> QED BY <4>1, <4>2
      <3> HIDE DEF f
      <3> QED BY <3>1, <3>2 DEF Surjection
    <2> HIDE DEF f, Pairs
    <2> QED BY <2>2, <2>3, FS_Surjection
  <1>4. IsFiniteSet(E)
    <2> HIDE DEF E, Pairs
    <2> QED BY <1>2, <1>3, FS_Subset
  <1>5. Changes(t.before, t.seen) = SetToSeq(E)
    BY DEF Changes
  <1> HIDE DEF E
  <1>6. SetToSeq(E) \in Seq(E)
    BY <1>4, SetToSeqLists
  <1> QED BY <1>1, <1>5, <1>6

(* The newest entries are entries.                                           *)
LEMMA NewestAreEntries ==
    ASSUME NEW q \in Seq(Forward)
    PROVE  Newest(q) \in Seq(Forward)
PROOF
  <1>1. Len(q) \in Nat /\ MAX_HISTORY \in Nat \ {0}
    BY HistoryConstants
  <1>2. (IF Len(q) > MAX_HISTORY THEN Len(q) - MAX_HISTORY + 1 ELSE 1) \in 1 .. Len(q) + 1
    BY <1>1
  <1> QED BY <1>1, <1>2 DEF Newest

(* A snapshot: the other snapshots stay as they are.                         *)
LEMMA SnapshotKeepsHistoryInv ==
    ASSUME HistoryInv, NEW s \in Snapshots, NEW t, InOrder(t),
           taking' = [taking EXCEPT ![s] = t], UNCHANGED installs,
           WereInstalled(recorded'), evidence' \in Seq(Forward)
    PROVE  HistoryInv'
PROOF
  <1>1. \A r \in Snapshots : InOrder(taking'[r])
    BY DEF HistoryInv
  <1>2. Forward' = Forward /\ \A x, y : NoLater(x, y)' = NoLater(x, y)
    BY DEF Forward, NoLater
  <1>3. \A r \in Snapshots : InOrder(taking[r])'
    BY <1>1, <1>2 DEF InOrder, WereInstalled
  <1> QED BY <1>2, <1>3 DEF HistoryInv, WereInstalled

(* Each step of snapshot.                                                    *)
LEMMA TakingKeepsHistoryInv ==
    ASSUME HistoryInv, NEW s \in Snapshots,
           \/ LoadPreviousRecords(s) \/ CollectRecords(s) \/ LoadHistory(s)
           \/ WriteHistory(s) \/ WritePreviousRecords(s)
    PROVE  HistoryInv'
PROOF
  <1> DEFINE t == taking[s]
  <1>0. InOrder(t) /\ InOrder(NotTaken) /\ WereInstalled(NoRecords) /\ WereInstalled(recorded) /\ evidence \in Seq(Forward)
    BY NothingTaken DEF HistoryInv
  <1>1. CASE LoadPreviousRecords(s)
    <2>1. PICK before \in Read(recorded, "records", NoRecords) :
            taking' = [taking EXCEPT ![s] = [NotTaken EXCEPT !.pc = "collect", !.before = before]]
      BY <1>1 DEF LoadPreviousRecords
    <2>2. WereInstalled(before)
      BY <1>0, ReadIsFileOrNothing
    <2>3. InOrder([NotTaken EXCEPT !.pc = "collect", !.before = before])
      BY <1>0, <2>2 DEF InOrder, NotTaken
    <2> QED BY <1>0, <1>1, <2>1, <2>3, SnapshotKeepsHistoryInv DEF LoadPreviousRecords
  <1>2. CASE CollectRecords(s)
    <2>1. PICK found \in Collected : taking' = [taking EXCEPT ![s].pc = "history", ![s].seen = found]
      BY <1>2 DEF CollectRecords
    <2>2. /\ found \in [RecordIds -> Seq(ItemVersions)]
          /\ \A i \in RecordIds, n \in Nat : n \in DOMAIN found[i] => found[i][n] \in Current
      BY CollectedIsInstalled
    <2> DEFINE now == Len(installs)
    <2>0. now \in DOMAIN installs /\ Current = installs[now] /\ \A j \in DOMAIN installs : j <= now
      BY DEF HistoryInv, Current
    <2>5. WereInstalled(found)
      BY <2>0, <2>2 DEF WereInstalled
    <2> DEFINE u == [t EXCEPT !.pc = "history", !.seen = found]
    <2>3. taking' = [taking EXCEPT ![s] = u]
      BY <2>1
    <2>4. InOrder(u)
      <3>1. DOMAIN u = DOMAIN t /\ u.pc = "history" /\ u.seen = found /\ u.before = t.before /\ u.loaded = t.loaded
        BY <1>0 DEF InOrder
      <3>2. ASSUME NEW i \in RecordIds, NEW m \in Nat, NEW n \in Nat, m \in DOMAIN t.before[i], n \in DOMAIN found[i]
            PROVE  NoLater(t.before[i][m], found[i][n])
        <4>1. PICK j \in DOMAIN installs : t.before[i][m] \in installs[j]
          BY <1>0, <3>2 DEF InOrder, WereInstalled
        <4>2. found[i][n] \in installs[now]
          BY <2>0, <2>2, <3>2
        <4> HIDE DEF now
        <4> QED BY <2>0, <4>1, <4>2 DEF NoLater
      <3> HIDE DEF u, t
      <3> QED BY <1>0, <2>5, <3>1, <3>2 DEF InOrder
    <2> HIDE DEF u
    <2> QED BY <1>0, <1>2, <2>3, <2>4, SnapshotKeepsHistoryInv DEF CollectRecords
  <1>3. CASE LoadHistory(s)
    <2>1. PICK file \in Read(evidence, "write", <<>>) :
            taking' = [taking EXCEPT ![s].pc = "write", ![s].loaded = Newest(file \o Changes(Before(s), t.seen))]
      BY <1>3 DEF LoadHistory
    <2>2. file \in Seq(Forward)
      <3>1. <<>> \in Seq(Forward)
        OBVIOUS
      <3> QED BY <1>0, <3>1, ReadIsFileOrNothing
    <2>3. Changes(t.before, t.seen) \in Seq(Forward)
      BY <1>0, <1>3, ChangesGoForward DEF LoadHistory
    <2>4. file \o Changes(t.before, t.seen) \in Seq(Forward)
      BY <2>2, <2>3
    <2> DEFINE loaded == Newest(file \o Changes(t.before, t.seen))
               u == [t EXCEPT !.pc = "write", !.loaded = loaded]
    <2>5. loaded \in Seq(Forward)
      BY <2>4, NewestAreEntries
    <2>6. taking' = [taking EXCEPT ![s] = u]
      BY <2>1 DEF Before
    <2>7. InOrder(u)
      <3> HIDE DEF loaded
      <3>1. DOMAIN u = DOMAIN t /\ u.pc = "write" /\ u.seen = t.seen /\ u.before = t.before /\ u.loaded = loaded
        BY <1>0 DEF InOrder
      <3>2. t.pc = "history"
        BY <1>3 DEF LoadHistory
      <3> HIDE DEF u, t
      <3> QED BY <1>0, <2>5, <3>1, <3>2 DEF InOrder
    <2> HIDE DEF u
    <2> QED BY <1>0, <1>3, <2>6, <2>7, SnapshotKeepsHistoryInv DEF LoadHistory
  <1>4. CASE WriteHistory(s)
    <2> DEFINE u == [t EXCEPT !.pc = "records", !.loaded = <<>>]
    <2>1. taking' = [taking EXCEPT ![s] = u]
      BY <1>4 DEF WriteHistory
    <2>2. InOrder(u)
      <3>1. DOMAIN u = DOMAIN t /\ u.pc = "records" /\ u.seen = t.seen /\ u.before = t.before /\ u.loaded = <<>>
        BY <1>0 DEF InOrder
      <3>2. t.pc = "write" /\ <<>> \in Seq(Forward)
        BY <1>4 DEF WriteHistory
      <3> HIDE DEF u, t
      <3> QED BY <1>0, <3>1, <3>2 DEF InOrder
    <2>3. evidence' \in Seq(Forward)
      BY <1>0, <1>4 DEF WriteHistory, InOrder
    <2> HIDE DEF u
    <2> QED BY <1>0, <1>4, <2>1, <2>2, <2>3, SnapshotKeepsHistoryInv DEF WriteHistory
  <1>5. CASE WritePreviousRecords(s)
    <2>1. recorded' = recorded \/ recorded' = t.seen
      BY <1>5 DEF WritePreviousRecords
    <2>2. WereInstalled(recorded')
      BY <1>0, <2>1 DEF InOrder
    <2> QED BY <1>0, <1>5, <2>2, SnapshotKeepsHistoryInv DEF WritePreviousRecords
  <1> QED BY <1>1, <1>2, <1>3, <1>4, <1>5

(* What was installed is not forgotten; the process may end anywhere.        *)
LEMMA WorldKeepsHistoryInv ==
    ASSUME HistoryInv, VersionOffered \/ VersionInstalled \/ UpdateCenterDies
    PROVE  HistoryInv'
PROOF
  <1>1. CASE VersionOffered \/ VersionInstalled
    <2>1. /\ installs' \in Seq(SUBSET ItemVersions) /\ installs' # <<>>
          /\ DOMAIN installs \subseteq DOMAIN installs' /\ \A j \in DOMAIN installs : installs'[j] = installs[j]
      <3>1. CASE installs' = installs
        BY <3>1 DEF HistoryInv
      <3>2. CASE \E versions \in SUBSET ItemVersions : installs' = Append(installs, versions)
        BY <3>2 DEF HistoryInv
      <3> QED BY <1>1, <3>1, <3>2 DEF VersionOffered, VersionInstalled
    <2>2. UNCHANGED <<recorded, evidence, taking>>
      BY <1>1 DEF VersionOffered, VersionInstalled
    <2>3. \A x, y : NoLater(x, y) => NoLater(x, y)'
      BY <2>1 DEF NoLater
    <2>4. Forward \subseteq Forward'
      BY <2>3 DEF Forward
    <2>5. ASSUME NEW records, WereInstalled(records)
          PROVE  /\ records \in [RecordIds -> Seq(ItemVersions)]
                 /\ \A i \in RecordIds, n \in Nat : n \in DOMAIN records[i] => \E j \in DOMAIN installs' : records[i][n] \in installs'[j]
      BY <2>1, <2>5 DEF WereInstalled
    <2>6. \A q \in Seq(Forward) : q \in Seq(Forward')
      BY <2>4
    <2>7. ASSUME NEW s \in Snapshots PROVE InOrder(taking[s])'
      <3>1. InOrder(taking[s])
        BY DEF HistoryInv
      <3> QED BY <2>2, <2>3, <2>5, <2>6, <3>1 DEF InOrder, WereInstalled
    <2>8. WereInstalled(recorded)'
      BY <2>2, <2>5 DEF HistoryInv, WereInstalled
    <2>9. evidence' \in Seq(Forward')
      BY <2>2, <2>6 DEF HistoryInv
    <2> QED BY <2>1, <2>2, <2>7, <2>8, <2>9 DEF HistoryInv
  <1>2. CASE UpdateCenterDies
    <2>1. recorded' \in Read(recorded, "records", NoRecords) /\ evidence' \in Read(evidence, "write", <<>>)
          /\ UNCHANGED installs /\ taking' = [s \in Snapshots |-> NotTaken]
      BY <1>2 DEF UpdateCenterDies
    <2>2. WereInstalled(recorded')
      BY <2>1, ReadIsFileOrNothing, NothingTaken DEF HistoryInv
    <2>3. evidence' \in Seq(Forward)
      <3>1. <<>> \in Seq(Forward)
        OBVIOUS
      <3>2. evidence' = evidence \/ evidence' = <<>>
        BY <2>1, ReadIsFileOrNothing
      <3> QED BY <3>1, <3>2 DEF HistoryInv
    <2>4. \A s \in Snapshots : InOrder(taking'[s])
      BY <2>1, NothingTaken
    <2>5. Forward' = Forward /\ \A x, y : NoLater(x, y)' = NoLater(x, y)
      BY <2>1 DEF Forward, NoLater
    <2>6. \A s \in Snapshots : InOrder(taking[s])'
      BY <2>1, <2>4, <2>5 DEF InOrder, WereInstalled
    <2> QED BY <2>1, <2>2, <2>3, <2>5, <2>6 DEF HistoryInv, WereInstalled
  <1> QED BY <1>1, <1>2

(* For any number of snapshots that overlap, any length of the history and   *)
(* every provider: the history tells no version that was not installed, and  *)
(* none against the order of time (snapshot, update_history).                *)
THEOREM HistoryGoesForward ==
    HistorySpec => []EvidenceGoesForward
PROOF
  <1>1. HistoryInit => HistoryInv
    <2> SUFFICES ASSUME HistoryInit PROVE HistoryInv
      OBVIOUS
    <2>1. 1 \in ItemVersions
      BY HistoryConstants DEF ItemVersions
    <2>2. installs \in Seq(SUBSET ItemVersions) /\ installs # <<>>
      BY <2>1 DEF HistoryInit
    <2>3. <<>> \in Seq(Forward)
      OBVIOUS
    <2> QED BY <2>2, <2>3, NothingTaken DEF HistoryInit, HistoryInv
  <1>2. HistoryInv /\ [HistoryNext]_historyVars => HistoryInv'
    <2> SUFFICES ASSUME HistoryInv, [HistoryNext]_historyVars PROVE HistoryInv'
      OBVIOUS
    <2>1. CASE UNCHANGED historyVars
      BY <2>1 DEF historyVars, HistoryInv, WereInstalled, InOrder, Forward, NoLater
    <2> QED BY <2>1, TakingKeepsHistoryInv, WorldKeepsHistoryInv DEF HistoryNext
  <1>3. HistoryInv => EvidenceGoesForward
    BY DEF HistoryInv, EvidenceGoesForward, Forward, NoLater
  <1> QED BY <1>1, <1>2, <1>3, PTL DEF HistorySpec

-----------------------------------------------------------------------------
(* Startup files (StartupChanges).                                           *)

Change == [id : StartupFiles, content : Nat, observed_at : Nat]
Snapshot == [state : {"missing", "empty", "torn", "whole"}, entries : [StartupFiles -> Nat], recent_changes : Seq(Change)]
ScanState == [at : {"idle", "load", "open", "write", "replace", "recent"}, time : Nat, current : Snapshot,
              file : {"none", "temporary", "baseline", "gone"}]

(* Whatever differs from the files as they were at first was presented, was  *)
(* dropped, or is among the recent changes that are kept with the entries.   *)
Remembered(b) ==
    \A f \in StartupFiles :
        b.entries[f] # 0 =>
            \E c \in presented \cup dropped \cup Range(b.recent_changes) : c.id = f /\ c.content = b.entries[f]

(* That holds for the baseline, for the temporary file of either scan, and   *)
(* for what a scan has compared and not yet written.                         *)
StartupInv ==
    /\ contents \in [StartupFiles -> Nat] /\ written \in Nat /\ scans \in Nat
    /\ baseline \in Snapshot /\ temporary \in Snapshot
    /\ scan \in [Summaries -> ScanState]
    /\ Remembered(baseline) /\ Remembered(temporary)
    /\ \A s \in Summaries : scan[s].at \in {"open", "write", "replace"} => Remembered(scan[s].current)

(* The files as they were at first are remembered without a change, and so   *)
(* is a file that cannot be read.                                            *)
LEMMA NothingIsRemembered ==
    /\ Missing \in Snapshot /\ Emptied \in Snapshot /\ Torn \in Snapshot
    /\ Remembered(Missing) /\ Remembered(Emptied) /\ Remembered(Torn)
    /\ NoScan \in ScanState /\ NoScan.at = "idle"
PROOF
  <1>1. <<>> \in Seq(Change)
    OBVIOUS
  <1>2. Missing \in Snapshot /\ Emptied \in Snapshot /\ Torn \in Snapshot
    BY <1>1 DEF Missing, Emptied, Torn, Snapshot
  <1>3. Remembered(Missing) /\ Remembered(Emptied) /\ Remembered(Torn)
    BY DEF Missing, Emptied, Torn, Remembered
  <1> QED BY <1>2, <1>3 DEF NoScan, ScanState

(* The scans of this step have moved or not; what is remembered stays so.    *)
LEMMA StillRemembered ==
    ASSUME StartupInv, presented \subseteq presented', dropped \subseteq dropped',
           contents' \in [StartupFiles -> Nat], written' \in Nat, scans' \in Nat,
           baseline' \in Snapshot, temporary' \in Snapshot, scan' \in [Summaries -> ScanState],
           baseline' \in {baseline, temporary} \/ Remembered(baseline)',
           temporary' \in {temporary, Missing, Emptied} \/ Remembered(temporary)',
           \A s \in Summaries : scan'[s].at \in {"open", "write", "replace"} =>
                \/ scan[s].at \in {"open", "write", "replace"} /\ scan'[s].current = scan[s].current
                \/ Remembered(scan[s].current)'
    PROVE  StartupInv'
PROOF
  <1>1. ASSUME NEW b, Remembered(b), NEW c, c = b
        PROVE  \A f \in StartupFiles : c.entries[f] # 0 =>
                 \E x \in presented' \cup dropped' \cup Range(c.recent_changes) : x.id = f /\ x.content = c.entries[f]
    BY <1>1 DEF Remembered
  <1>2. Remembered(baseline)'
    <2>1. Remembered(baseline) /\ Remembered(temporary)
      BY DEF StartupInv
    <2> QED BY <1>1, <2>1 DEF Remembered
  <1>3. Remembered(temporary)'
    <2>1. Remembered(temporary) /\ Remembered(Missing) /\ Remembered(Emptied)
      BY NothingIsRemembered DEF StartupInv
    <2> QED BY <1>1, <2>1 DEF Remembered
  <1>4. ASSUME NEW s \in Summaries, scan'[s].at \in {"open", "write", "replace"}
        PROVE  Remembered(scan[s].current)'
    <2>1. CASE scan[s].at \in {"open", "write", "replace"} /\ scan'[s].current = scan[s].current
      <3>1. Remembered(scan[s].current)
        BY <2>1 DEF StartupInv
      <3> QED BY <1>1, <2>1, <3>1 DEF Remembered
    <2> QED BY <1>4, <2>1
  <1> QED BY <1>2, <1>3, <1>4 DEF StartupInv

(* diff and recent_changes, with room for them: every changed file has its   *)
(* event, and the changes that were kept stay; in any case they are changes. *)
LEMMA RecentChangesAreAll ==
    ASSUME NEW previous \in Snapshot, NEW current \in Snapshot, NEW now \in Nat, NEW younger \in Seq(Change)
    PROVE  LET q == RecentChanges(younger, Diff(previous, current, now))
               changed == ChangedFiles(previous, current)
           IN /\ q \in Seq(Change)
              /\ ~TooMany(younger, changed) => Range(younger) \cup EventsOf(changed, current, now) \subseteq Range(q)
PROOF
  <1> DEFINE changed == ChangedFiles(previous, current)
             Event(f) == [id |-> f, content |-> current.entries[f], observed_at |-> now]
             E == EventsOf(changed, current, now)
             g == [f \in changed |-> Event(f)]
             events == SetToSeq(E)
             n == IF Len(events) < MAX_EVENTS THEN Len(events) ELSE MAX_EVENTS
             changes == Diff(previous, current, now)
             all == younger \o changes
  <1>1. IsFiniteSet(changed) /\ MAX_EVENTS \in Nat
    <2>1. changed \in SUBSET StartupFiles
      BY DEF ChangedFiles
    <2> HIDE DEF changed
    <2> QED BY <2>1, FS_Subset, StartupConstants
  <1>2. g \in Surjection(changed, E)
    BY DEF Surjection, EventsOf
  <1>3. IsFiniteSet(E) /\ Cardinality(E) <= Cardinality(changed) /\ Cardinality(changed) \in Nat
    <2> HIDE DEF changed, E, g
    <2> QED BY <1>1, <1>2, FS_Surjection, FS_CardinalityType
  <1>4. E \subseteq Change
    BY DEF Snapshot, ChangedFiles, EventsOf, Change
  <1> HIDE DEF E
  <1>5. /\ events \in Seq(E) /\ Len(events) = Cardinality(E) /\ Cardinality(E) \in Nat
        /\ \A x \in E : \E i \in 1 .. Cardinality(E) : events[i] = x
    BY <1>3, SetToSeqLists
  <1> HIDE DEF events
  <1>6. events \in Seq(Change)
    BY <1>4, <1>5
  <1>7. changes = SubSeq(events, 1, n)
    BY DEF Diff, events, E
  <1>8. changes \in Seq(Change)
    <2>1. n \in Nat /\ n <= Len(events)
      BY <1>1, <1>5
    <2> HIDE DEF n
    <2> QED BY <1>6, <1>7, <2>1
  <1> HIDE DEF changes
  <1>9. all \in Seq(Change) /\ Len(all) = Len(younger) + Len(changes)
    BY <1>8
  <1>10. LastChanges(all) \in Seq(Change)
    <2> HIDE DEF all
    <2>1. ASSUME Len(all) > MAX_EVENTS
          PROVE  SubSeq(all, Len(all) - MAX_EVENTS + 1, Len(all)) \in Seq(Change)
      <3> DEFINE m == Len(all) - MAX_EVENTS + 1
      <3>1. m \in Nat \ {0} /\ m <= Len(all) + 1 /\ Len(all) \in Nat
        BY <1>1, <1>9, <2>1
      <3> HIDE DEF m
      <3> QED BY <1>9, <3>1 DEF m
    <2> QED BY <1>1, <1>9, <2>1 DEF LastChanges
  <1>11. ASSUME ~TooMany(younger, changed)
         PROVE  Range(younger) \cup E \subseteq Range(LastChanges(all))
    <2> HIDE DEF changed
    <2>1. Len(younger) + Cardinality(changed) <= MAX_EVENTS /\ Len(younger) \in Nat
      BY <1>1, <1>3, <1>11 DEF TooMany
    <2>2. n = Len(events) /\ Len(events) <= Cardinality(changed)
      BY <1>1, <1>3, <1>5, <2>1
    <2>3. changes = events
      <3>1. changes = SubSeq(events, 1, Len(events))
        BY <1>7, <2>2
      <3> QED BY <1>6, <3>1
    <2>4. LastChanges(all) = all
      BY <1>1, <1>3, <1>5, <1>9, <2>1, <2>2, <2>3 DEF LastChanges
    <2>5. Range(younger) \subseteq Range(all) /\ Range(events) \subseteq Range(all)
      <3>1. \A i \in 1 .. Len(younger) : i \in 1 .. Len(all) /\ all[i] = younger[i]
        BY <1>8
      <3>2. \A i \in 1 .. Len(changes) : Len(younger) + i \in 1 .. Len(all) /\ all[Len(younger) + i] = changes[i]
        BY <1>8
      <3>3. DOMAIN younger = 1 .. Len(younger) /\ DOMAIN changes = 1 .. Len(changes) /\ DOMAIN all = 1 .. Len(all)
        BY <1>8, <1>9
      <3> HIDE DEF all
      <3> QED BY <2>3, <3>1, <3>2, <3>3 DEF Range
    <2>6. E \subseteq Range(events)
      BY <1>5, <1>6 DEF Range
    <2> HIDE DEF all
    <2> QED BY <2>4, <2>5, <2>6
  <1> QED BY <1>10, <1>11 DEF RecentChanges, changes, E

(* The comparison with the baseline: a file that did not change since is     *)
(* remembered by the baseline, one that did by its event, and what is not    *)
(* kept of them is dropped.                                                  *)
LEMMA LoadKeepsStartupInv ==
    ASSUME StartupInv, NEW s \in Summaries, LoadBaseline(s)
    PROVE  StartupInv'
PROOF
  <1> DEFINE current == scan[s].current
             when == scan[s].time
             changed == ChangedFiles(baseline, current)
             p == baseline.recent_changes
             Q(old) == RecentChanges(Younger(baseline, old), Diff(baseline, current, when))
  <1>1. /\ scan[s] \in ScanState /\ current \in Snapshot /\ when \in Nat
        /\ baseline \in Snapshot /\ p \in Seq(Change)
    BY DEF StartupInv, ScanState, Snapshot
  <1>2. PICK old \in 0 .. Len(p) :
          /\ scan' = [scan EXCEPT ![s].at = "open", ![s].current.recent_changes = Q(old)]
          /\ dropped' = dropped \cup Range(SubSeq(p, 1, old))
               \cup IF TooMany(Younger(baseline, old), changed)
                      THEN Range(Younger(baseline, old)) \cup EventsOf(changed, current, when) ELSE {}
    BY DEF LoadBaseline
  <1>3. UNCHANGED <<contents, written, baseline, temporary, scans, presented>>
    BY DEF LoadBaseline
  <1> DEFINE younger == Younger(baseline, old)
             q == Q(old)
             now == [current EXCEPT !.recent_changes = q]
             row == [scan[s] EXCEPT !.at = "open", !.current = now]
  <1>4. younger \in Seq(Change)
    <2>1. old \in Nat /\ old + 1 \in Nat \ {0} /\ old + 1 <= Len(p) + 1 /\ Len(p) \in Nat
      BY <1>1
    <2> QED BY <1>1, <2>1 DEF Younger
  <1>5. Range(p) \subseteq Range(SubSeq(p, 1, old)) \cup Range(younger)
    <2>1. old \in Nat /\ old <= Len(p) /\ Len(p) \in Nat /\ DOMAIN p = 1 .. Len(p)
      BY <1>1
    <2>2. ASSUME NEW i \in 1 .. Len(p), i <= old PROVE p[i] \in Range(SubSeq(p, 1, old))
      <3>1. Len(SubSeq(p, 1, old)) = old /\ SubSeq(p, 1, old) \in Seq(Change) /\ SubSeq(p, 1, old)[i] = p[i]
        BY <1>1, <2>1, <2>2
      <3>2. i \in DOMAIN SubSeq(p, 1, old)
        BY <2>1, <2>2, <3>1
      <3> QED BY <3>1, <3>2 DEF Range
    <2>3. ASSUME NEW i \in 1 .. Len(p), i > old PROVE p[i] \in Range(younger)
      <3> DEFINE k == SubSeq(p, old + 1, Len(p))
      <3>1. Len(k) = Len(p) - old /\ i - old \in 1 .. Len(k) /\ k[i - old] = p[i]
        BY <1>1, <2>1, <2>3
      <3>2. younger = k /\ DOMAIN younger = 1 .. Len(younger)
        BY <1>4 DEF Younger
      <3> HIDE DEF k, younger
      <3> QED BY <3>1, <3>2 DEF Range
    <2>4. \A x \in Range(p) : \E i \in 1 .. Len(p) : x = p[i]
      BY <2>1 DEF Range
    <2> HIDE DEF younger
    <2> QED BY <2>1, <2>2, <2>3, <2>4
  <1> HIDE DEF younger
  <1>6. /\ q \in Seq(Change)
        /\ ~TooMany(younger, changed) => Range(younger) \cup EventsOf(changed, current, when) \subseteq Range(q)
    <2> HIDE DEF current, when
    <2>1. LET z == RecentChanges(younger, Diff(baseline, current, when))
              c == ChangedFiles(baseline, current)
          IN /\ z \in Seq(Change)
             /\ ~TooMany(younger, c) => Range(younger) \cup EventsOf(c, current, when) \subseteq Range(z)
      BY <1>1, <1>4, RecentChangesAreAll, Zenon
    <2> QED BY <2>1 DEF younger
  <1>7. Range(p) \cup EventsOf(changed, current, when) \subseteq dropped' \cup Range(q)
    <2>1. dropped' = dropped \cup Range(SubSeq(p, 1, old))
               \cup IF TooMany(younger, changed) THEN Range(younger) \cup EventsOf(changed, current, when) ELSE {}
      BY <1>2 DEF younger
    <2> HIDE DEF changed, current, when, q, p
    <2> QED BY <1>5, <1>6, <2>1
  <1>8. scan' = [scan EXCEPT ![s] = row]
    BY <1>2 DEF younger
  <1>9. dropped \subseteq dropped'
    BY <1>2
  <1> HIDE DEF q, Q
  <1>10. now \in Snapshot /\ now.entries = current.entries /\ now.recent_changes = q
    BY <1>1, <1>6 DEF Snapshot
  <1>11. ASSUME NEW f \in StartupFiles, current.entries[f] # 0
         PROVE  \E c \in presented' \cup dropped' \cup Range(q) : c.id = f /\ c.content = current.entries[f]
    <2>1. CASE baseline.entries[f] = current.entries[f]
      <3>1. PICK c \in presented \cup dropped \cup Range(p) : c.id = f /\ c.content = baseline.entries[f]
        BY <1>11, <2>1 DEF StartupInv, Remembered
      <3> HIDE DEF p, current, when, changed
      <3>2. c \in presented' \cup dropped' \cup Range(q)
        BY <1>3, <1>7, <1>9, <3>1
      <3> QED BY <2>1, <3>1, <3>2
    <2>2. CASE baseline.entries[f] # current.entries[f]
      <3> DEFINE c == [id |-> f, content |-> current.entries[f], observed_at |-> when]
      <3>1. c \in EventsOf(changed, current, when)
        BY <2>2 DEF EventsOf, ChangedFiles
      <3>2. c.id = f /\ c.content = current.entries[f]
        OBVIOUS
      <3> HIDE DEF c, p, current, when, changed
      <3> QED BY <1>7, <3>1, <3>2
    <2> QED BY <2>1, <2>2
  <1> HIDE DEF now
  <1>12. row \in ScanState /\ row.current = now
    BY <1>1, <1>10 DEF ScanState, current
  <1> HIDE DEF row
  <1>13. scan' \in [Summaries -> ScanState] /\ scan'[s] = row /\ \A t \in Summaries : t # s => scan'[t] = scan[t]
    BY <1>8, <1>12 DEF StartupInv
  <1>14. Remembered(scan[s].current)'
    BY <1>10, <1>11, <1>12, <1>13 DEF Remembered
  <1> QED BY <1>3, <1>9, <1>13, <1>14, StillRemembered DEF StartupInv

(* Without a baseline all that differs from the beginning is dropped.        *)
LEMMA NothingKeepsStartupInv ==
    ASSUME StartupInv, NEW s \in Summaries, LoadNothing(s)
    PROVE  StartupInv'
PROOF
  <1> DEFINE row == [scan[s] EXCEPT !.at = "open"]
  <1>1. /\ scan' = [scan EXCEPT ![s] = row]
        /\ dropped' = dropped \cup EventsOf(StartupFiles, scan[s].current, scan[s].time)
        /\ UNCHANGED <<contents, written, baseline, temporary, scans, presented>>
    BY DEF LoadNothing
  <1>2. scan \in [Summaries -> ScanState] /\ row \in ScanState /\ row.current = scan[s].current
    BY DEF StartupInv, ScanState
  <1> HIDE DEF row
  <1>3. scan' \in [Summaries -> ScanState] /\ scan'[s] = row /\ \A t \in Summaries : t # s => scan'[t] = scan[t]
    BY <1>1, <1>2
  <1>4. ASSUME NEW f \in StartupFiles
        PROVE  \E c \in dropped' : c.id = f /\ c.content = scan[s].current.entries[f]
    <2> DEFINE c == [id |-> f, content |-> scan[s].current.entries[f], observed_at |-> scan[s].time]
    <2>1. c \in EventsOf(StartupFiles, scan[s].current, scan[s].time) /\ c.id = f /\ c.content = scan[s].current.entries[f]
      BY DEF EventsOf
    <2> HIDE DEF c
    <2> QED BY <1>1, <2>1
  <1>5. Remembered(scan[s].current)'
    BY <1>2, <1>3, <1>4 DEF Remembered
  <1> QED BY <1>1, <1>3, <1>5, StillRemembered DEF StartupInv

(* The other steps of a scan: what they move was remembered where it was.    *)
LEMMA ScanKeepsStartupInv ==
    ASSUME StartupInv, NEW s \in Summaries,
           Inspect(s) \/ OpenTemporary(s) \/ WriteTemporary(s) \/ WriteFails(s) \/ ReplaceBaseline(s) \/ PresentChanges(s)
    PROVE  StartupInv'
PROOF
  <1>0. /\ scan \in [Summaries -> ScanState] /\ scan[s] \in ScanState /\ scan[s].current \in Snapshot
        /\ contents \in [StartupFiles -> Nat] /\ written \in Nat /\ scans \in Nat
        /\ baseline \in Snapshot /\ temporary \in Snapshot
    BY DEF StartupInv, ScanState
  <1> USE NothingIsRemembered
  <1>1. CASE Inspect(s)
    <2> DEFINE found == [Missing EXCEPT !.state = "whole", !.entries = contents]
               row == [at |-> "load", time |-> scans', file |-> "none", current |-> found]
    <2>1. found \in Snapshot
      BY <1>0 DEF Snapshot
    <2>2. scans' \in Nat /\ UNCHANGED <<contents, written, baseline, temporary, presented, dropped>>
      BY <1>0, <1>1 DEF Inspect
    <2>3. scan' = [scan EXCEPT ![s] = row]
      BY <1>1 DEF Inspect
    <2> HIDE DEF found
    <2>4. row \in ScanState /\ row.at = "load"
      BY <2>1, <2>2 DEF ScanState
    <2> HIDE DEF row
    <2> QED BY <1>0, <2>2, <2>3, <2>4, StillRemembered
  <1>2. CASE OpenTemporary(s)
    <2> DEFINE row == [scan[s] EXCEPT !.at = "write", !.file = "temporary"]
    <2>1. scan[s].at = "open" /\ scan' = [scan EXCEPT ![s] = row] /\ temporary' = Emptied
          /\ UNCHANGED <<contents, written, baseline, scans, presented, dropped>>
      BY <1>2 DEF OpenTemporary
    <2>2. row \in ScanState /\ row.current = scan[s].current
      BY <1>0 DEF ScanState
    <2> HIDE DEF row
    <2> QED BY <1>0, <2>1, <2>2, StillRemembered
  <1>3. CASE WriteTemporary(s)
    <2> DEFINE row == [scan[s] EXCEPT !.at = "replace", !.file = "none"]
    <2>1. scan[s].at = "write" /\ scan' = [scan EXCEPT ![s] = row]
          /\ temporary' \in {temporary, scan[s].current, Torn} /\ baseline' \in {baseline, scan[s].current, Torn}
          /\ UNCHANGED <<contents, written, scans, presented, dropped>>
      BY <1>3 DEF WriteTemporary, WrittenOver
    <2>2. row \in ScanState /\ row.current = scan[s].current
      BY <1>0 DEF ScanState
    <2> HIDE DEF row
    <2>3. Remembered(scan[s].current) /\ Remembered(Torn) /\ Remembered(baseline) /\ Remembered(temporary)
      BY <2>1 DEF StartupInv
    <2>4. Remembered(baseline)' /\ Remembered(temporary)'
      BY <2>1, <2>3 DEF Remembered
    <2> QED BY <1>0, <2>1, <2>2, <2>4, StillRemembered
  <1>4. CASE WriteFails(s)
    <2>1. scan' = [scan EXCEPT ![s] = NoScan] /\ UNCHANGED <<contents, written, baseline, temporary, scans, presented, dropped>>
      BY <1>4 DEF WriteFails
    <2> QED BY <1>0, <2>1, StillRemembered
  <1>5. CASE ReplaceBaseline(s)
    <2>1. UNCHANGED <<contents, written, scans, presented, dropped>> /\ baseline' \in {baseline, temporary}
          /\ temporary' \in {temporary, Missing}
      BY <1>5 DEF ReplaceBaseline
    <2>2. CASE temporary.state = "missing"
      <3>1. scan' = [scan EXCEPT ![s] = NoScan]
        BY <1>5, <2>2 DEF ReplaceBaseline
      <3> QED BY <1>0, <2>1, <3>1, StillRemembered
    <2>3. CASE temporary.state # "missing"
      <3> DEFINE done == [NoScan EXCEPT !.at = "recent"]
                 Other(t) == [scan[t] EXCEPT !.file = AfterRename(@)]
      <3>1. scan' = [t \in Summaries |-> IF t = s THEN done ELSE Other(t)]
        BY <1>5, <2>3 DEF ReplaceBaseline
      <3>2. done \in ScanState /\ done.at = "recent"
        BY DEF ScanState
      <3>3. ASSUME NEW t \in Summaries
            PROVE  Other(t) \in ScanState /\ Other(t).at = scan[t].at /\ Other(t).current = scan[t].current
        <4>1. scan[t] \in ScanState
          BY <1>0
        <4>2. AfterRename(scan[t].file) \in {"none", "temporary", "baseline", "gone"}
          BY <4>1 DEF AfterRename, ScanState
        <4> QED BY <4>1, <4>2 DEF ScanState
      <3> HIDE DEF done, Other
      <3>4. scan' \in [Summaries -> ScanState]
        BY <3>1, <3>2, <3>3
      <3>5. \A t \in Summaries : scan'[t].at \in {"open", "write", "replace"} =>
              scan[t].at \in {"open", "write", "replace"} /\ scan'[t].current = scan[t].current
        BY <3>1, <3>2, <3>3
      <3> QED BY <1>0, <2>1, <3>4, <3>5, StillRemembered
    <2> QED BY <2>2, <2>3
  <1>6. CASE PresentChanges(s)
    <2>1. scan' = [scan EXCEPT ![s] = NoScan] /\ presented \subseteq presented'
          /\ UNCHANGED <<contents, written, baseline, temporary, scans, dropped>>
      BY <1>6 DEF PresentChanges
    <2> QED BY <1>0, <2>1, StillRemembered
  <1> QED BY <1>1, <1>2, <1>3, <1>4, <1>5, <1>6

(* The user writes a file, the session ends.                                 *)
LEMMA EventKeepsStartupInv ==
    ASSUME StartupInv, SessionEnds \/ \E f \in StartupFiles : WriteStartupFile(f)
    PROVE  StartupInv'
PROOF
  <1>0. /\ scan \in [Summaries -> ScanState] /\ contents \in [StartupFiles -> Nat] /\ written \in Nat /\ scans \in Nat
        /\ baseline \in Snapshot /\ temporary \in Snapshot
    BY DEF StartupInv
  <1>1. ASSUME NEW f \in StartupFiles, WriteStartupFile(f)
        PROVE  StartupInv'
    <2>1. contents' \in [StartupFiles -> Nat] /\ written' \in Nat
          /\ UNCHANGED <<baseline, temporary, scan, scans, presented, dropped>>
      BY <1>0, <1>1 DEF WriteStartupFile
    <2> QED BY <1>0, <2>1, StillRemembered
  <1>2. CASE SessionEnds
    <2>1. scan' = [s \in Summaries |-> NoScan]
          /\ UNCHANGED <<contents, written, baseline, temporary, scans, presented, dropped>>
      BY <1>2 DEF SessionEnds
    <2> QED BY <1>0, <2>1, NothingIsRemembered, StillRemembered
  <1> QED BY <1>1, <1>2

(* A change that the baseline has taken in was presented, is among its       *)
(* recent changes or was dropped by a scan, for any files and any number of  *)
(* scans that overlap over one temporary file (scan, diff,                   *)
(* augment_persistence).                                                     *)
THEOREM ChangesAreRemembered ==
    StartupSpec => []ChangeIsNotForgotten
PROOF
  <1>1. StartupInit => StartupInv
    <2> SUFFICES ASSUME StartupInit PROVE StartupInv
      OBVIOUS
    <2>1. baseline \in Snapshot /\ Remembered(baseline)
      BY NothingIsRemembered DEF StartupInit, Snapshot, Remembered, Missing
    <2> QED BY <2>1, NothingIsRemembered DEF StartupInit, StartupInv
  <1>2. StartupInv /\ [StartupNext]_startupVars => StartupInv'
    <2> SUFFICES ASSUME StartupInv, [StartupNext]_startupVars PROVE StartupInv'
      OBVIOUS
    <2>1. CASE UNCHANGED startupVars
      BY <2>1 DEF startupVars, StartupInv, Remembered
    <2> QED BY <2>1, LoadKeepsStartupInv, NothingKeepsStartupInv, ScanKeepsStartupInv, EventKeepsStartupInv DEF StartupNext
  <1>3. StartupInv => ChangeIsNotForgotten
    BY DEF StartupInv, Remembered, ChangeIsNotForgotten
  <1> QED BY <1>1, <1>2, <1>3, PTL DEF StartupSpec

-----------------------------------------------------------------------------
(* The reader of the sensor's export (SensorReader).                         *)

Places == [file : SensorFiles, offset : Nat]

(* The fields of the files, the database, the thread and the history.        *)
BaseShape(t) ==
    /\ DOMAIN t = {"evidence", "attached", "cursor", "gap"}
    /\ t.cursor \in Places

ReaderShape(t) ==
    /\ DOMAIN t = {"phase", "at", "processed", "eof", "partial", "target", "raw", "fresh"}
    /\ t.at \in Places /\ t.eof \in BOOLEAN

SensorShape ==
    /\ DOMAIN export = {"lines", "current", "half", "next"}
    /\ export.lines \in [SensorFiles -> Seq(Nat)] /\ export.current \in SensorFiles /\ export.next \in Nat
    /\ BaseShape(base) /\ BaseShape(draft)
    /\ ReaderShape(reader) /\ DOMAIN seen = {"skipped", "ignored", "left", "regrown"}

(* A record is accounted for by the evidence, by a gap, or it is one of the  *)
(* losses that are named.                                                    *)
Named == seen.skipped \cup seen.ignored \cup seen.left \cup seen.regrown
AccountedBy(t) == t.evidence \cup t.gap \cup Named

(* The open transaction adds evidence to what is committed; a gap and the    *)
(* cursor are committed at once.                                             *)
DraftInv ==
    /\ base.evidence \subseteq draft.evidence /\ draft.gap = base.gap /\ draft.cursor = base.cursor

AtEnd == reader.phase \in {"save", "follow", "successor", "next"} /\ reader.eof
IsReading == reader.phase \in {"read", "save", "follow", "successor", "next"}

(* No position is in a file that does not exist yet, and the thread looks    *)
(* for a successor only of a file it has read to its end.                    *)
PositionInv ==
    /\ base.cursor.file <= export.current /\ reader.at.file <= export.current
    /\ reader.phase \in {"down", "open", "opened"} => reader.at.offset = 0
    /\ reader.phase \in {"successor", "next"} => reader.eof /\ reader.at.file < export.current
    /\ reader.phase = "next" => reader.target \in SensorFiles /\ reader.target <= export.current

(* What the thread has passed is accounted for in its transaction; when it   *)
(* has found the end of its file so is all of the file, but for what came    *)
(* since; and so is all before the file it goes to.                          *)
PassedInv ==
    /\ IsReading => Behind(reader.at) \subseteq AccountedBy(draft)
    /\ AtEnd => ToSet(Lines(reader.at.file)) \subseteq AccountedBy(draft) \cup reader.fresh
    /\ reader.phase = "next" => Behind(StartOf(reader.target)) \subseteq AccountedBy(draft) \cup reader.fresh

SensorInv == SensorShape /\ DraftInv /\ PositionInv /\ PassedInv /\ LossIsReported

(* The records before a position, in any state of the files.                 *)
BehindIn(lines, p) == (UNION {ToSet(lines[f]) : f \in 1 .. p.file - 1})
                      \cup {lines[p.file][i] : i \in 1 .. Min({p.offset, Len(lines[p.file])})}

(* The position is before the one of line i in file f.                       *)
IsPast(p, f, i) == f < p.file \/ (f = p.file /\ i <= p.offset)

(* Which lines are before a position.                                        *)
LEMMA BehindMembers ==
    ASSUME NEW lines \in [SensorFiles -> Seq(Nat)], NEW p \in Places, NEW x
    PROVE  x \in BehindIn(lines, p) <=>
             \E f \in SensorFiles : \E i \in 1 .. Len(lines[f]) : x = lines[f][i] /\ IsPast(p, f, i)
PROOF
  <1> DEFINE n == Len(lines[p.file])
             m == Min({p.offset, n})
             whole == UNION {ToSet(lines[f]) : f \in 1 .. p.file - 1}
             part == {lines[p.file][i] : i \in 1 .. m}
  <1>0. BehindIn(lines, p) = whole \cup part
    BY Zenon DEF BehindIn
  <1>1. p.file \in SensorFiles /\ p.file \in Nat /\ p.offset \in Nat /\ MaxFile \in Nat /\ SensorFiles = 1 .. MaxFile
    BY SensorConstants DEF Places, SensorFiles
  <1>2. \A f \in SensorFiles : Len(lines[f]) \in Nat /\ DOMAIN lines[f] = 1 .. Len(lines[f])
    OBVIOUS
  <1>3. \A f \in 1 .. p.file - 1 : f \in SensorFiles
    BY <1>1
  <1>4. m = IF p.offset <= n THEN p.offset ELSE n
    <2>1. p.offset \in Int /\ n \in Int
      BY <1>1, <1>2
    <2> HIDE DEF n
    <2> QED BY <2>1, MinOfTwo
  <1> HIDE DEF m
  <1>5. \A i : i \in 1 .. m <=> i \in 1 .. n /\ i <= p.offset
    BY <1>1, <1>2, <1>4
  <1>6. ASSUME x \in BehindIn(lines, p)
        PROVE  \E f \in SensorFiles : \E i \in 1 .. Len(lines[f]) : x = lines[f][i] /\ IsPast(p, f, i)
    <2>1. CASE \E f \in 1 .. p.file - 1 : x \in ToSet(lines[f])
      <3>1. PICK f \in 1 .. p.file - 1 : x \in ToSet(lines[f])
        BY <2>1
      <3>2. f \in SensorFiles /\ f < p.file
        BY <1>1, <1>3
      <3>3. PICK i \in 1 .. Len(lines[f]) : x = lines[f][i]
        BY <1>2, <3>1, <3>2 DEF ToSet
      <3> QED BY <3>2, <3>3 DEF IsPast
    <2>2. CASE \E i \in 1 .. m : x = lines[p.file][i]
      <3>1. PICK i \in 1 .. m : x = lines[p.file][i]
        BY <2>2
      <3>2. i \in 1 .. n /\ i <= p.offset
        BY <1>5
      <3> QED BY <1>1, <3>1, <3>2 DEF IsPast
    <2>3. x \in whole => \E f \in 1 .. p.file - 1 : x \in ToSet(lines[f])
      OBVIOUS
    <2>4. x \in part => \E i \in 1 .. m : x = lines[p.file][i]
      OBVIOUS
    <2> HIDE DEF whole, part
    <2>5. x \in whole \/ x \in part
      BY <1>0, <1>6
    <2> QED BY <2>1, <2>2, <2>3, <2>4, <2>5, Zenon
  <1>7. ASSUME NEW f \in SensorFiles, NEW i \in 1 .. Len(lines[f]), x = lines[f][i], IsPast(p, f, i)
        PROVE  x \in BehindIn(lines, p)
    <2>1. CASE f < p.file
      <3>1. f \in 1 .. p.file - 1
        BY <1>1, <2>1
      <3>2. x \in ToSet(lines[f])
        BY <1>2, <1>7 DEF ToSet
      <3>3. x \in whole
        BY <3>1, <3>2
      <3> HIDE DEF whole, part
      <3> QED BY <1>0, <3>3
    <2>2. CASE f = p.file /\ i <= p.offset
      <3>1. i \in 1 .. m
        BY <1>5, <2>2
      <3>2. x = lines[p.file][i]
        BY <1>7, <2>2
      <3>3. x \in part
        BY <3>1, <3>2
      <3> HIDE DEF whole, part
      <3> QED BY <1>0, <3>3
    <2> QED BY <1>7, <2>1, <2>2 DEF IsPast
  <1> QED BY <1>6, <1>7

(* A line that is read is the only one the position passes.                  *)
LEMMA BehindNext ==
    ASSUME NEW lines \in [SensorFiles -> Seq(Nat)], NEW p \in Places, NEW q \in Places,
           q.file = p.file, q.offset = p.offset + 1, q.offset <= Len(lines[p.file])
    PROVE  BehindIn(lines, q) \subseteq BehindIn(lines, p) \cup {lines[p.file][q.offset]}
PROOF
  <1> SUFFICES ASSUME NEW x \in BehindIn(lines, q) PROVE x \in BehindIn(lines, p) \cup {lines[p.file][q.offset]}
    OBVIOUS
  <1>1. PICK f \in SensorFiles : \E i \in 1 .. Len(lines[f]) : x = lines[f][i] /\ IsPast(q, f, i)
    BY BehindMembers
  <1>2. PICK i \in 1 .. Len(lines[f]) : x = lines[f][i] /\ IsPast(q, f, i)
    BY <1>1
  <1>3. p.offset \in Nat /\ i \in Nat
    BY DEF Places
  <1>4. IsPast(p, f, i) \/ (f = p.file /\ i = q.offset)
    BY <1>2, <1>3 DEF IsPast
  <1> QED BY <1>2, <1>4, BehindMembers

(* A position at the start of a file has passed no more than the one in it.  *)
LEMMA BehindStart ==
    ASSUME NEW lines \in [SensorFiles -> Seq(Nat)], NEW p \in Places, NEW q \in Places,
           q.file = p.file, q.offset = 0
    PROVE  BehindIn(lines, q) \subseteq BehindIn(lines, p)
PROOF
  <1> SUFFICES ASSUME NEW x \in BehindIn(lines, q) PROVE x \in BehindIn(lines, p)
    OBVIOUS
  <1>1. PICK f \in SensorFiles : \E i \in 1 .. Len(lines[f]) : x = lines[f][i] /\ IsPast(q, f, i)
    BY BehindMembers
  <1>2. PICK i \in 1 .. Len(lines[f]) : x = lines[f][i] /\ IsPast(q, f, i)
    BY <1>1
  <1>3. p.offset \in Nat /\ i \in Nat
    BY DEF Places
  <1>4. IsPast(p, f, i)
    BY <1>2, <1>3 DEF IsPast
  <1> QED BY <1>2, <1>4, BehindMembers

(* The start of the next file has passed the file before it, all of it.      *)
LEMMA BehindSuccessor ==
    ASSUME NEW lines \in [SensorFiles -> Seq(Nat)], NEW p \in Places, NEW q \in Places,
           q.file = p.file + 1, q.offset = 0
    PROVE  BehindIn(lines, q) \subseteq BehindIn(lines, p) \cup ToSet(lines[p.file])
PROOF
  <1> SUFFICES ASSUME NEW x \in BehindIn(lines, q) PROVE x \in BehindIn(lines, p) \cup ToSet(lines[p.file])
    OBVIOUS
  <1>1. PICK f \in SensorFiles : \E i \in 1 .. Len(lines[f]) : x = lines[f][i] /\ IsPast(q, f, i)
    BY BehindMembers
  <1>2. PICK i \in 1 .. Len(lines[f]) : x = lines[f][i] /\ IsPast(q, f, i)
    BY <1>1
  <1>3. p.file \in Nat /\ f \in Nat /\ i \in Nat /\ i > 0
    BY SensorConstants DEF Places, SensorFiles
  <1>4. f < p.file \/ f = p.file
    BY <1>2, <1>3 DEF IsPast
  <1>5. CASE f < p.file
    BY <1>2, <1>5, BehindMembers DEF IsPast
  <1>6. CASE f = p.file
    BY <1>2, <1>6 DEF ToSet
  <1> QED BY <1>4, <1>5, <1>6

(* The end of a file has passed all of it.                                   *)
LEMMA BehindEnd ==
    ASSUME NEW lines \in [SensorFiles -> Seq(Nat)], NEW p \in Places, p.offset >= Len(lines[p.file])
    PROVE  ToSet(lines[p.file]) \subseteq BehindIn(lines, p)
PROOF
  <1> SUFFICES ASSUME NEW x \in ToSet(lines[p.file]) PROVE x \in BehindIn(lines, p)
    OBVIOUS
  <1>1. p.file \in SensorFiles /\ p.offset \in Nat /\ Len(lines[p.file]) \in Nat
    BY DEF Places
  <1>2. PICK i \in 1 .. Len(lines[p.file]) : x = lines[p.file][i]
    BY <1>1 DEF ToSet
  <1>3. IsPast(p, p.file, i)
    BY <1>1 DEF IsPast
  <1> QED BY <1>1, <1>2, <1>3, BehindMembers

(* A record that is appended is before a position only when that is past the *)
(* end of the file.                                                          *)
LEMMA BehindAppend ==
    ASSUME NEW lines \in [SensorFiles -> Seq(Nat)], NEW p \in Places, NEW current \in SensorFiles, NEW r \in Nat,
           p.file <= current
    PROVE  LET longer == [lines EXCEPT ![current] = Append(@, r)] IN
             /\ BehindIn(longer, p) \subseteq BehindIn(lines, p) \cup {r}
             /\ ~(p.file = current /\ p.offset > Len(lines[current])) => BehindIn(longer, p) \subseteq BehindIn(lines, p)
PROOF
  <1> DEFINE longer == [lines EXCEPT ![current] = Append(lines[current], r)]
  <1>1. lines[current] \in Seq(Nat) /\ Len(lines[current]) \in Nat
    OBVIOUS
  <1>2. /\ Append(lines[current], r) \in Seq(Nat) /\ Len(Append(lines[current], r)) = Len(lines[current]) + 1
        /\ Append(lines[current], r)[Len(lines[current]) + 1] = r
        /\ \A i \in 1 .. Len(lines[current]) : Append(lines[current], r)[i] = lines[current][i]
    BY <1>1
  <1>3. longer \in [SensorFiles -> Seq(Nat)]
    BY <1>2
  <1>4. longer[current] = Append(lines[current], r) /\ \A f \in SensorFiles : f # current => longer[f] = lines[f]
    OBVIOUS
  <1> HIDE DEF longer
  <1>5. ASSUME NEW x \in BehindIn(longer, p)
        PROVE  x \in BehindIn(lines, p) \/ (x = r /\ p.file = current /\ p.offset > Len(lines[current]))
    <2>1. PICK f \in SensorFiles : \E i \in 1 .. Len(longer[f]) : x = longer[f][i] /\ IsPast(p, f, i)
      BY <1>3, BehindMembers
    <2>2. PICK i \in 1 .. Len(longer[f]) : x = longer[f][i] /\ IsPast(p, f, i)
      BY <2>1
    <2>3. p.file \in Nat /\ current \in Nat /\ f \in Nat /\ p.offset \in Nat /\ i \in Nat /\ i > 0
      BY SensorConstants DEF Places, SensorFiles
    <2>4. CASE f # current
      <3>1. i \in 1 .. Len(lines[f]) /\ x = lines[f][i]
        BY <1>4, <2>2, <2>4
      <3> QED BY <2>2, <3>1, BehindMembers
    <2>5. CASE f = current /\ i <= Len(lines[current])
      <3>1. i \in 1 .. Len(lines[f]) /\ x = lines[f][i]
        BY <1>1, <1>2, <1>4, <2>2, <2>3, <2>5, SMTT(30)
      <3> QED BY <2>2, <3>1, BehindMembers
    <2>6. CASE f = current /\ i > Len(lines[current])
      <3>1. i <= Len(lines[current]) + 1
        BY <1>1, <1>2, <1>4, <2>6
      <3>2. i = Len(lines[current]) + 1
        BY <1>1, <2>3, <2>6, <3>1
      <3>3. x = r
        BY <1>2, <1>4, <2>2, <2>6, <3>2
      <3>4. p.file = current /\ i <= p.offset
        BY <2>2, <2>3, <2>6 DEF IsPast
      <3> QED BY <1>1, <2>3, <3>2, <3>3, <3>4
    <2> QED BY <1>1, <2>3, <2>4, <2>5, <2>6
  <1> QED BY <1>5 DEF longer

(* A file that is cut takes nothing new behind a position.                   *)
LEMMA BehindCut ==
    ASSUME NEW lines \in [SensorFiles -> Seq(Nat)], NEW p \in Places, NEW current \in SensorFiles
    PROVE  BehindIn([lines EXCEPT ![current] = <<>>], p) \subseteq BehindIn(lines, p)
PROOF
  <1> DEFINE cut == [lines EXCEPT ![current] = <<>>]
  <1>1. cut \in [SensorFiles -> Seq(Nat)] /\ Len(cut[current]) = 0
        /\ \A f \in SensorFiles : f # current => cut[f] = lines[f]
    <2>1. <<>> \in Seq(Nat) /\ Len(<<>>) = 0
      OBVIOUS
    <2> QED BY <2>1
  <1> HIDE DEF cut
  <1>2. ASSUME NEW x \in BehindIn(cut, p) PROVE x \in BehindIn(lines, p)
    <2>1. PICK f \in SensorFiles : \E i \in 1 .. Len(cut[f]) : x = cut[f][i] /\ IsPast(p, f, i)
      BY <1>1, BehindMembers
    <2>2. f # current
      BY <1>1, <2>1
    <2> QED BY <1>1, <2>1, <2>2, BehindMembers
  <1> QED BY <1>2 DEF cut

(* The records behind a position, in this state and in the next one.         *)
LEMMA BehindIsIn ==
    /\ \A p : Behind(p) = BehindIn(export.lines, p)
    /\ \A p : Behind(p)' = BehindIn(export'.lines, p)
PROOF
  BY DEF Behind, BehindIn, Lines

(* Every reader begins at a place.                                           *)
LEMMA NoPositionIsAPlace == NoPosition \in Places
PROOF
  BY SensorConstants DEF NoPosition, Places, SensorFiles

(* The start of a file is a place.                                           *)
LEMMA StartIsAPlace ==
    ASSUME NEW f \in SensorFiles
    PROVE  StartOf(f) \in Places /\ StartOf(f).file = f /\ StartOf(f).offset = 0
PROOF
  BY DEF StartOf, Places

(* What every step begins with.                                              *)
LEMMA SensorFacts ==
    ASSUME SensorInv
    PROVE  /\ export.lines \in [SensorFiles -> Seq(Nat)] /\ export.current \in SensorFiles
           /\ SensorFiles \subseteq Nat /\ SensorFiles = 1 .. MaxFile /\ MaxFile \in Nat
           /\ \A f \in SensorFiles : Len(export.lines[f]) \in Nat
           /\ BaseShape(base) /\ BaseShape(draft) /\ ReaderShape(reader)
           /\ DOMAIN export = {"lines", "current", "half", "next"} /\ export.next \in Nat
           /\ DOMAIN seen = {"skipped", "ignored", "left", "regrown"}
           /\ base.cursor \in Places /\ base.cursor = draft.cursor /\ reader.at \in Places
           /\ base.cursor.file \in SensorFiles /\ reader.at.file \in SensorFiles
           /\ base.cursor.offset \in Nat /\ reader.at.offset \in Nat
           /\ AccountedBy(base) \subseteq AccountedBy(draft)
           /\ BehindIn(export.lines, base.cursor) \subseteq AccountedBy(base)
           /\ IsReading => BehindIn(export.lines, reader.at) \subseteq AccountedBy(draft)
           /\ AtEnd => ToSet(export.lines[reader.at.file]) \subseteq AccountedBy(draft) \cup reader.fresh
           /\ reader.phase = "next" => BehindIn(export.lines, StartOf(reader.target)) \subseteq AccountedBy(draft) \cup reader.fresh
           /\ PositionInv
PROOF
  <1>1. /\ Behind(base.cursor) = BehindIn(export.lines, base.cursor) /\ Behind(reader.at) = BehindIn(export.lines, reader.at)
        /\ Behind(StartOf(reader.target)) = BehindIn(export.lines, StartOf(reader.target))
    BY DEF Behind, BehindIn, Lines
  <1>2. SensorFiles \subseteq Nat /\ SensorFiles = 1 .. MaxFile /\ MaxFile \in Nat
    BY SensorConstants DEF SensorFiles
  <1>3. /\ export.lines \in [SensorFiles -> Seq(Nat)] /\ export.current \in SensorFiles
        /\ BaseShape(base) /\ BaseShape(draft) /\ ReaderShape(reader)
        /\ DOMAIN export = {"lines", "current", "half", "next"} /\ export.next \in Nat
        /\ DOMAIN seen = {"skipped", "ignored", "left", "regrown"}
    BY DEF SensorInv, SensorShape
  <1>4. /\ base.cursor \in Places /\ base.cursor = draft.cursor /\ reader.at \in Places
        /\ base.cursor.file \in SensorFiles /\ reader.at.file \in SensorFiles
        /\ base.cursor.offset \in Nat /\ reader.at.offset \in Nat
    BY <1>3 DEF BaseShape, ReaderShape, SensorInv, DraftInv, Places
  <1>5. AccountedBy(base) \subseteq AccountedBy(draft)
    BY DEF SensorInv, DraftInv, AccountedBy
  <1>6. BehindIn(export.lines, base.cursor) \subseteq AccountedBy(base)
    BY <1>1 DEF SensorInv, LossIsReported, Reported, AccountedBy, Named
  <1>7. /\ IsReading => BehindIn(export.lines, reader.at) \subseteq AccountedBy(draft)
        /\ AtEnd => ToSet(export.lines[reader.at.file]) \subseteq AccountedBy(draft) \cup reader.fresh
        /\ reader.phase = "next" => BehindIn(export.lines, StartOf(reader.target)) \subseteq AccountedBy(draft) \cup reader.fresh
    BY <1>1 DEF SensorInv, PassedInv, Lines
  <1> QED BY <1>2, <1>3, <1>4, <1>5, <1>6, <1>7 DEF SensorInv

(* The invariant of the next state, from its parts.                          *)
LEMMA SensorParts ==
    ASSUME SensorShape', DraftInv', PositionInv',
           BehindIn(export'.lines, base'.cursor) \subseteq AccountedBy(base)',
           IsReading' => BehindIn(export'.lines, reader'.at) \subseteq AccountedBy(draft)',
           AtEnd' => ToSet(export'.lines[reader'.at.file]) \subseteq AccountedBy(draft)' \cup reader'.fresh,
           reader'.phase = "next" =>
               BehindIn(export'.lines, StartOf(reader'.target)) \subseteq AccountedBy(draft)' \cup reader'.fresh
    PROVE  SensorInv'
PROOF
  <1>1. /\ Behind(base.cursor)' = BehindIn(export'.lines, base'.cursor) /\ Behind(reader.at)' = BehindIn(export'.lines, reader'.at)
        /\ Behind(StartOf(reader.target))' = BehindIn(export'.lines, StartOf(reader'.target))
    BY DEF Behind, BehindIn, Lines, StartOf
  <1>2. ToSet(Lines(reader.at.file))' = ToSet(export'.lines[reader'.at.file])
    BY DEF Lines, ToSet
  <1>3. LossIsReported'
    BY <1>1 DEF LossIsReported, Reported, AccountedBy, Named
  <1>4. PassedInv'
    BY <1>1, <1>2 DEF PassedInv
  <1> QED BY <1>3, <1>4 DEF SensorInv

(* A step of the sensor: what comes to lie behind a position came into a     *)
(* file that was cut, and what comes into the thread's file is fresh.        *)
LEMMA SensorSide ==
    ASSUME SensorInv, SensorShape', UNCHANGED <<base, draft>>,
           reader'.phase = reader.phase, reader'.at = reader.at, reader'.eof = reader.eof,
           reader'.target = reader.target, reader.fresh \subseteq reader'.fresh,
           Named \subseteq Named', seen'.regrown \subseteq Named',
           export.current <= export'.current,
           BehindIn(export'.lines, base.cursor) \subseteq BehindIn(export.lines, base.cursor) \cup seen'.regrown,
           BehindIn(export'.lines, reader.at) \subseteq BehindIn(export.lines, reader.at) \cup seen'.regrown,
           \A f \in SensorFiles : f <= export.current => BehindIn(export'.lines, StartOf(f)) \subseteq BehindIn(export.lines, StartOf(f)),
           AtEnd => ToSet(export'.lines[reader.at.file]) \subseteq ToSet(export.lines[reader.at.file]) \cup reader'.fresh
    PROVE  SensorInv'
PROOF
  <1> USE SensorFacts
  <1>1. AccountedBy(base) \cup seen'.regrown \subseteq AccountedBy(base)' /\ AccountedBy(draft) \cup seen'.regrown \subseteq AccountedBy(draft)'
    BY DEF AccountedBy
  <1>2. DraftInv'
    BY DEF SensorInv, DraftInv
  <1>3. export'.current \in Nat /\ export.current \in Nat
    BY DEF SensorShape
  <1>4. PositionInv'
    BY <1>3 DEF PositionInv
  <1>5. BehindIn(export'.lines, base'.cursor) \subseteq AccountedBy(base)'
    BY <1>1
  <1>6. IsReading' => BehindIn(export'.lines, reader'.at) \subseteq AccountedBy(draft)'
    BY <1>1 DEF IsReading
  <1>7. AtEnd' => ToSet(export'.lines[reader'.at.file]) \subseteq AccountedBy(draft)' \cup reader'.fresh
    BY <1>1 DEF AtEnd
  <1>8. reader'.phase = "next" =>
            BehindIn(export'.lines, StartOf(reader'.target)) \subseteq AccountedBy(draft)' \cup reader'.fresh
    BY <1>1 DEF PositionInv
  <1> QED BY <1>2, <1>4, <1>5, <1>6, <1>7, <1>8, SensorParts

(* The sensor appends, rotates and truncates.                                *)
LEMMA SensorKeepsSensorInv ==
    ASSUME SensorInv, SensorAppends \/ SensorAppendsPart \/ SensorRotates \/ SensorTruncates
    PROVE  SensorInv'
PROOF
  <1> USE SensorFacts
  <1>0. UNCHANGED <<base, draft>>
    BY DEF SensorAppends, SensorAppendsPart, SensorRotates, SensorTruncates
  <1>1. export.current \in Nat /\ \A f \in SensorFiles : f \in Nat
    OBVIOUS
  <1>2. CASE SensorAppends
    <2> DEFINE n == export.next
               c == export.current
               line == Append(export.lines[c], n)
               longer == [export.lines EXCEPT ![c] = line]
               fresh == IF reader.eof /\ reader.at.file = c THEN reader.fresh \cup {n} ELSE reader.fresh
               regrown == IF PastEnd(base.cursor) \/ PastEnd(reader.at) THEN seen.regrown \cup {n} ELSE seen.regrown
    <2>1. /\ export' = [export EXCEPT !.lines[c] = line, !.next = n + 1, !.half = FALSE]
          /\ reader' = [reader EXCEPT !.fresh = fresh]
          /\ seen' = [seen EXCEPT !.regrown = regrown]
      BY <1>2 DEF SensorAppends
    <2>2. line \in Seq(Nat) /\ Len(line) = Len(export.lines[c]) + 1 /\ Len(export.lines[c]) \in Nat
      OBVIOUS
    <2> HIDE DEF fresh, regrown, line
    <2>3. DOMAIN export' = DOMAIN export /\ export'.lines = longer /\ export'.current = c /\ export'.next = n + 1
      BY <2>1
    <2>4. /\ reader'.phase = reader.phase /\ reader'.at = reader.at /\ reader'.eof = reader.eof
          /\ reader'.target = reader.target /\ reader'.fresh = fresh /\ ReaderShape(reader')
      BY <2>1 DEF ReaderShape
    <2>5. /\ DOMAIN seen' = DOMAIN seen /\ seen'.skipped = seen.skipped /\ seen'.ignored = seen.ignored
          /\ seen'.left = seen.left /\ seen'.regrown = regrown
      BY <2>1
    <2>6. longer \in [SensorFiles -> Seq(Nat)] /\ longer[c] = line /\ \A f \in SensorFiles : f # c => longer[f] = export.lines[f]
      BY <2>2
    <2>7. SensorShape'
      <3> HIDE DEF longer
      <3> QED BY <1>0, <2>3, <2>4, <2>5, <2>6 DEF SensorShape
    <2>8. Named \subseteq Named' /\ seen'.regrown \subseteq Named' /\ reader.fresh \subseteq reader'.fresh
      BY <2>4, <2>5 DEF Named, fresh, regrown
    <2>9. ASSUME NEW p \in Places, p.file <= c
          PROVE  /\ BehindIn(longer, p) \subseteq BehindIn(export.lines, p) \cup {n}
                 /\ ~PastEnd(p) => BehindIn(longer, p) \subseteq BehindIn(export.lines, p)
      BY <2>9, BehindAppend DEF line, PastEnd, Lines
    <2>10. /\ BehindIn(longer, base.cursor) \subseteq BehindIn(export.lines, base.cursor) \cup regrown
           /\ BehindIn(longer, reader.at) \subseteq BehindIn(export.lines, reader.at) \cup regrown
      <3>1. base.cursor.file <= c /\ reader.at.file <= c
        BY DEF PositionInv
      <3> HIDE DEF longer
      <3> QED BY <2>9, <3>1 DEF regrown
    <2>11. ASSUME NEW f \in SensorFiles, f <= c
           PROVE  BehindIn(longer, StartOf(f)) \subseteq BehindIn(export.lines, StartOf(f))
      <3>1. StartOf(f) \in Places /\ StartOf(f).file <= c /\ ~PastEnd(StartOf(f))
        BY <2>11, StartIsAPlace DEF PastEnd, Lines
      <3> HIDE DEF longer
      <3> QED BY <2>9, <3>1
    <2>12. AtEnd => ToSet(longer[reader.at.file]) \subseteq ToSet(export.lines[reader.at.file]) \cup fresh
      <3> SUFFICES ASSUME AtEnd, NEW x \in ToSet(longer[reader.at.file])
                   PROVE  x \in ToSet(export.lines[reader.at.file]) \cup fresh
        OBVIOUS
      <3>1. CASE reader.at.file # c
        BY <2>6, <3>1
      <3>2. CASE reader.at.file = c
        <4>0. n \in fresh
          BY <3>2 DEF AtEnd, fresh
        <4>1. PICK i \in 1 .. Len(line) : x = line[i]
          BY <2>2, <2>6, <3>2 DEF ToSet
        <4>2. CASE i <= Len(export.lines[c])
          <5>1. line[i] = export.lines[c][i] /\ i \in DOMAIN export.lines[c]
            BY <2>2, <4>2 DEF line
          <5> QED BY <3>2, <4>1, <5>1 DEF ToSet
        <4>3. CASE i = Len(export.lines[c]) + 1
          <5>1. line[i] = n
            BY <2>2, <4>3 DEF line
          <5> QED BY <4>0, <4>1, <5>1
        <4> QED BY <2>2, <4>2, <4>3
      <3> QED BY <3>1, <3>2
    <2> HIDE DEF longer
    <2> QED BY <1>0, <1>1, <2>3, <2>4, <2>5, <2>7, <2>8, <2>10, <2>11, <2>12, SensorSide
  <1>3. CASE SensorAppendsPart
    <2>1. DOMAIN export' = DOMAIN export /\ export'.lines = export.lines /\ export'.current = export.current
          /\ export'.next = export.next /\ UNCHANGED <<reader, seen>>
      BY <1>3 DEF SensorAppendsPart
    <2>2. SensorShape'
      BY <1>0, <2>1 DEF SensorShape
    <2>3. Named' = Named /\ seen.regrown \subseteq Named
      BY <2>1 DEF Named
    <2> QED BY <1>0, <1>1, <2>1, <2>2, <2>3, SensorSide
  <1>4. CASE SensorRotates
    <2>1. DOMAIN export' = DOMAIN export /\ export'.lines = export.lines /\ export'.current = export.current + 1
          /\ export'.next = export.next /\ UNCHANGED <<reader, seen>> /\ export.current < MaxFile
      BY <1>4 DEF SensorRotates
    <2>2. export'.current \in SensorFiles /\ export.current <= export'.current
      BY <2>1
    <2>3. SensorShape'
      BY <1>0, <2>1, <2>2 DEF SensorShape
    <2>4. Named' = Named /\ seen.regrown \subseteq Named
      BY <2>1 DEF Named
    <2> QED BY <1>0, <2>1, <2>2, <2>3, <2>4, SensorSide
  <1>5. CASE SensorTruncates
    <2> DEFINE c == export.current
               cut == [export.lines EXCEPT ![c] = <<>>]
    <2>1. export' = [export EXCEPT !.lines[c] = <<>>, !.half = FALSE] /\ UNCHANGED <<reader, seen>>
      BY <1>5 DEF SensorTruncates
    <2>2. DOMAIN export' = DOMAIN export /\ export'.lines = cut /\ export'.current = c /\ export'.next = export.next
      BY <2>1
    <2>3. cut \in [SensorFiles -> Seq(Nat)] /\ cut[c] = <<>> /\ \A f \in SensorFiles : f # c => cut[f] = export.lines[f]
      <3>1. <<>> \in Seq(Nat)
        OBVIOUS
      <3> QED BY <3>1
    <2>4. \A p \in Places : BehindIn(cut, p) \subseteq BehindIn(export.lines, p)
      BY BehindCut
    <2>5. \A f \in SensorFiles : BehindIn(cut, StartOf(f)) \subseteq BehindIn(export.lines, StartOf(f))
      BY <2>4, StartIsAPlace
    <2> HIDE DEF cut
    <2>6. SensorShape'
      BY <1>0, <2>1, <2>2, <2>3 DEF SensorShape
    <2>7. Named' = Named /\ seen.regrown \subseteq Named
      BY <2>1 DEF Named
    <2>8. ToSet(cut[reader.at.file]) \subseteq ToSet(export.lines[reader.at.file])
      <3>1. ToSet(<<>>) = {}
        BY DEF ToSet
      <3> QED BY <2>3, <3>1
    <2>9. /\ BehindIn(cut, base.cursor) \subseteq BehindIn(export.lines, base.cursor) \cup seen'.regrown
          /\ BehindIn(cut, reader.at) \subseteq BehindIn(export.lines, reader.at) \cup seen'.regrown
      BY <1>0, <2>4
    <2>10. export.current <= export'.current
      BY <1>0, <2>2
    <2> HIDE DEF c
    <2> QED BY <1>0, <1>1, <2>1, <2>2, <2>5, <2>6, <2>7, <2>8, <2>9, <2>10, SensorSide
  <1> QED BY <1>2, <1>3, <1>4, <1>5

(* A gap stands for all that is behind the position and has no evidence.     *)
LEMMA GappedAccounts ==
    ASSUME NEW t, BaseShape(t), NEW p
    PROVE  /\ BaseShape(Gapped(t, p)) /\ Gapped(t, p).cursor = t.cursor /\ Gapped(t, p).evidence = t.evidence
           /\ t.gap \subseteq Gapped(t, p).gap
           /\ BehindIn(export.lines, p) \subseteq Gapped(t, p).evidence \cup Gapped(t, p).gap
PROOF
  <1>1. Gapped(t, p) = [t EXCEPT !.gap = t.gap \cup (BehindIn(export.lines, p) \ t.evidence)]
    BY BehindIsIn DEF Gapped
  <1> DEFINE behind == BehindIn(export.lines, p)
  <1> HIDE DEF behind
  <1>2. BaseShape(Gapped(t, p)) /\ Gapped(t, p).cursor = t.cursor /\ Gapped(t, p).evidence = t.evidence
        /\ Gapped(t, p).gap = t.gap \cup (behind \ t.evidence)
    BY <1>1 DEF BaseShape, behind
  <1> QED BY <1>2 DEF behind

(* A step of the reader to one of the states between two batches.            *)
LEMMA ReaderSide ==
    ASSUME SensorInv, UNCHANGED export, BaseShape(base'), BaseShape(draft'), DOMAIN seen' = DOMAIN seen, DraftInv',
           base'.cursor.file <= export.current, BehindIn(export.lines, base'.cursor) \subseteq AccountedBy(base)',
           NEW phase \in {"down", "open", "opened", "read"}, NEW p \in Places, reader' = At(phase, p),
           p.file <= export.current, phase # "read" => p.offset = 0,
           phase = "read" => BehindIn(export.lines, p) \subseteq AccountedBy(draft)'
    PROVE  SensorInv'
PROOF
  <1> USE SensorFacts
  <1>1. /\ DOMAIN reader' = {"phase", "at", "processed", "eof", "partial", "target", "raw", "fresh"}
        /\ reader'.phase = phase /\ reader'.at = p /\ reader'.eof = FALSE
    BY DEF At
  <1>2. SensorShape'
    BY <1>1 DEF SensorShape, ReaderShape
  <1>3. PositionInv' /\ ~AtEnd' /\ reader'.phase # "next" /\ (IsReading' <=> phase = "read")
    BY <1>1 DEF PositionInv, AtEnd, IsReading
  <1> QED BY <1>1, <1>2, <1>3, SensorParts

(* A step of the reader within a batch's end: the position stays.            *)
LEMMA ReaderStays ==
    ASSUME SensorInv, UNCHANGED export, BaseShape(base'), BaseShape(draft'), DOMAIN seen' = DOMAIN seen, DraftInv',
           base'.cursor.file <= export.current, BehindIn(export.lines, base'.cursor) \subseteq AccountedBy(base)',
           ReaderShape(reader'), reader'.at = reader.at, reader'.phase \in {"save", "follow", "successor", "next"},
           IsReading, AccountedBy(draft) \subseteq AccountedBy(draft)',
           reader'.eof => ToSet(export.lines[reader.at.file]) \subseteq AccountedBy(draft)' \cup reader'.fresh,
           reader'.phase \in {"successor", "next"} => reader'.eof /\ reader.at.file < export.current,
           reader'.phase = "next" =>
               /\ reader'.target \in SensorFiles /\ reader'.target <= export.current
               /\ BehindIn(export.lines, StartOf(reader'.target)) \subseteq AccountedBy(draft)' \cup reader'.fresh
    PROVE  SensorInv'
PROOF
  <1> USE SensorFacts
  <1>1. SensorShape'
    BY DEF SensorShape
  <1>2. PositionInv'
    BY DEF PositionInv
  <1>3. BehindIn(export'.lines, reader'.at) \subseteq AccountedBy(draft)'
    OBVIOUS
  <1>4. AtEnd' => ToSet(export'.lines[reader'.at.file]) \subseteq AccountedBy(draft)' \cup reader'.fresh
    BY DEF AtEnd
  <1> QED BY <1>1, <1>2, <1>3, <1>4, SensorParts

(* The thread starts, stops, opens the export or fails: the cursor stays.    *)
LEMMA IdleKeepsSensorInv ==
    ASSUME SensorInv, ProviderStarts \/ ProviderDies \/ OpenExport \/ ReadFails \/ OpenSuccessorFails
    PROVE  SensorInv'
PROOF
  <1> USE SensorFacts
  <1>1. UNCHANGED <<export, seen>>
    BY DEF ProviderStarts, ProviderDies, OpenExport, ReadFails, OpenSuccessorFails
  <1>2. \E phase \in {"down", "open", "opened"}, p \in Places :
            reader' = At(phase, p) /\ p.file <= export.current /\ p.offset = 0
    <2>1. NoPosition \in Places /\ NoPosition.file <= export.current /\ NoPosition.offset = 0
      BY NoPositionIsAPlace DEF NoPosition
    <2>2. CASE OpenExport
      <3> DEFINE q == [file |-> export.current, offset |-> 0]
      <3>1. q \in Places /\ q.file <= export.current /\ q.offset = 0
        BY DEF Places
      <3>2. reader' = At("opened", q)
        BY <2>2 DEF OpenExport
      <3> HIDE DEF q
      <3> QED BY <3>1, <3>2
    <2>3. CASE ~OpenExport
      <3>1. reader' = At("open", NoPosition) \/ reader' = At("down", NoPosition)
        BY <2>3 DEF ProviderStarts, ProviderDies, ReadFails, OpenSuccessorFails
      <3> QED BY <2>1, <3>1
    <2> QED BY <2>2, <2>3
  <1>3. BaseShape(base') /\ base'.cursor = base.cursor /\ base'.evidence = base.evidence /\ base'.gap = base.gap
    BY DEF ProviderStarts, ProviderDies, OpenExport, ReadFails, OpenSuccessorFails, BaseShape
  <1>4. draft' = draft \/ draft' = base
    BY DEF ProviderStarts, ProviderDies, OpenExport, ReadFails, IngestFails, OpenSuccessorFails
  <1>5. BaseShape(draft') /\ DraftInv'
    BY <1>3, <1>4 DEF SensorInv, DraftInv
  <1>6. base'.cursor.file <= export.current /\ BehindIn(export.lines, base'.cursor) \subseteq AccountedBy(base)'
    BY <1>1, <1>3 DEF AccountedBy, Named, PositionInv
  <1> QED BY <1>1, <1>2, <1>3, <1>5, <1>6, ReaderSide

(* What is pending is committed without the cursor.                          *)
LEMMA HealthKeepsSensorInv ==
    ASSUME SensorInv, HealthCheck
    PROVE  SensorInv'
PROOF
  <1> USE SensorFacts
  <1>1. base' = draft /\ UNCHANGED <<export, draft, reader, seen>>
    BY DEF HealthCheck
  <1>2. /\ AccountedBy(base)' = AccountedBy(draft) /\ AccountedBy(draft)' = AccountedBy(draft)
    BY <1>1 DEF AccountedBy, Named
  <1>3. SensorShape' /\ DraftInv' /\ PositionInv'
    BY <1>1 DEF SensorInv, SensorShape, DraftInv, PositionInv
  <1>4. (IsReading' <=> IsReading) /\ (AtEnd' <=> AtEnd)
    BY <1>1 DEF IsReading, AtEnd
  <1> QED BY <1>1, <1>2, <1>3, <1>4, SensorParts

(* The first time in a boot the reader starts at the end of the export.      *)
LEMMA AttachKeepsSensorInv ==
    ASSUME SensorInv, Attach
    PROVE  SensorInv'
PROOF
  <1> USE SensorFacts
  <1> DEFINE end == [file |-> reader.at.file, offset |-> Len(export.lines[reader.at.file])]
  <1>1. /\ draft' = [draft EXCEPT !.attached = TRUE, !.cursor = end] /\ base' = draft' /\ reader' = At("read", end)
        /\ seen' = [seen EXCEPT !.skipped = @ \cup Behind(end)] /\ UNCHANGED export
    BY DEF Attach, Lines, Reading
  <1>2. end \in Places /\ end.file <= export.current
    BY DEF Places, PositionInv
  <1> HIDE DEF end
  <1>3. DOMAIN seen' = DOMAIN seen /\ BehindIn(export.lines, end) \subseteq seen'.skipped
    BY <1>1, BehindIsIn
  <1>4. BaseShape(draft') /\ draft'.cursor = end
    BY <1>1, <1>2 DEF BaseShape
  <1>5. DraftInv'
    BY <1>1 DEF DraftInv
  <1>6. BehindIn(export.lines, end) \subseteq AccountedBy(draft)' /\ BehindIn(export.lines, end) \subseteq AccountedBy(base)'
    BY <1>3 DEF AccountedBy, Named
  <1> QED BY <1>1, <1>2, <1>3, <1>4, <1>5, <1>6, ReaderSide

(* The reader goes back to its cursor; where that is gone, it records a gap. *)
LEMMA OpenKeepsSensorInv ==
    ASSUME SensorInv, OpenAtCursor
    PROVE  SensorInv'
PROOF
  <1> USE SensorFacts
  <1> DEFINE c == draft.cursor
             there == c.file = reader.at.file \/ c.file \in RetainedFiles
             whole == there /\ c.offset <= Len(export.lines[c.file])
             p == IF whole THEN c ELSE [file |-> IF there THEN c.file ELSE reader.at.file, offset |-> 0]
  <1>1. /\ reader' = At("read", p) /\ UNCHANGED <<export, seen>>
        /\ IF whole THEN UNCHANGED <<draft, base>> ELSE draft' = Gapped(draft, p) /\ base' = draft'
    BY DEF OpenAtCursor, Lines, Reading
  <1>2. p \in Places /\ p.file <= export.current
    <2>1. c \in Places /\ c.file \in SensorFiles /\ c.file <= export.current /\ reader.at.file <= export.current
      BY DEF PositionInv
    <2>2. CASE whole
      BY <2>1, <2>2
    <2>3. CASE ~whole
      <3>1. p = [file |-> IF there THEN c.file ELSE reader.at.file, offset |-> 0]
        BY <2>3
      <3>2. p.offset = 0 /\ p.file \in SensorFiles /\ p \in Places /\ p.file <= export.current
        BY <2>1, <3>1 DEF Places
      <3> HIDE DEF p
      <3> QED BY <3>2
    <2> QED BY <2>2, <2>3
  <1>3. whole => p = c
    OBVIOUS
  <1> HIDE DEF p
  <1>4. /\ BaseShape(draft') /\ BaseShape(base') /\ base'.cursor = c /\ DraftInv'
        /\ BehindIn(export.lines, base'.cursor) \subseteq AccountedBy(base)'
        /\ BehindIn(export.lines, p) \subseteq AccountedBy(draft)'
    <2>1. CASE whole
      BY <1>1, <1>3, <2>1 DEF DraftInv, AccountedBy, Named, SensorInv
    <2>2. CASE ~whole
      <3>1. draft' = Gapped(draft, p) /\ base' = draft'
        BY <1>1, <2>2
      <3> QED BY <1>1, <3>1, GappedAccounts DEF DraftInv, AccountedBy, Named
    <2> QED BY <2>1, <2>2
  <1>5. base'.cursor.file <= export.current
    BY <1>4 DEF PositionInv
  <1> QED BY <1>1, <1>2, <1>4, <1>5, ReaderSide

(* A line is ingested, refused with a gap, or declined: each accounts for it. *)
LEMMA ReadKeepsSensorInv ==
    ASSUME SensorInv, ReadLine
    PROVE  SensorInv'
PROOF
  <1> USE SensorFacts
  <1> DEFINE at == reader.at
             next == [at EXCEPT !.offset = @ + 1]
             r == export.lines[at.file][next.offset]
  <1>1. /\ reader.phase = "read" /\ at.offset < Len(export.lines[at.file]) /\ reader' = [reader EXCEPT !.at = next, !.processed = @ + 1]
        /\ UNCHANGED export
    BY DEF ReadLine, HasLine, NextPosition, Lines
  <1>2. \/ Ingest(r) /\ UNCHANGED <<base, seen>>
        \/ draft' = Gapped(draft, next) /\ base' = draft' /\ UNCHANGED seen
        \/ seen' = [seen EXCEPT !.ignored = @ \cup {r}] /\ UNCHANGED <<base, draft>>
    BY DEF ReadLine, NextPosition, Lines
  <1>3. next \in Places /\ next.file = at.file /\ next.offset = at.offset + 1 /\ at.file \in SensorFiles /\ at.offset \in Nat
    <2>1. at \in Places
      OBVIOUS
    <2> HIDE DEF at, r
    <2> QED BY ONLY <2>1 DEF Places
  <1> HIDE DEF next
  <1>4. next.offset <= Len(export.lines[at.file])
    BY <1>1, <1>3
  <1>5. BehindIn(export.lines, next) \subseteq BehindIn(export.lines, at) \cup {r}
    BY <1>3, <1>4, BehindNext
  <1>6. reader'.at = next /\ reader'.phase = "read" /\ ReaderShape(reader')
    BY <1>1, <1>3 DEF ReaderShape
  <1> HIDE DEF r, at
  <1>7. BehindIn(export.lines, at) \subseteq AccountedBy(draft)
    BY <1>1 DEF IsReading, at
  <1>8. /\ BaseShape(draft') /\ BaseShape(base') /\ DraftInv' /\ base'.cursor = base.cursor /\ DOMAIN seen' = DOMAIN seen
        /\ AccountedBy(base) \subseteq AccountedBy(base)'
        /\ BehindIn(export.lines, next) \subseteq AccountedBy(draft)'
    <2>1. CASE draft' = Gapped(draft, next) /\ base' = draft' /\ UNCHANGED seen
      <3>1. DraftInv' /\ AccountedBy(draft) \subseteq AccountedBy(draft)' /\ AccountedBy(base)' = AccountedBy(draft)'
        BY <2>1, GappedAccounts DEF DraftInv, AccountedBy, Named
      <3> QED BY <2>1, <3>1, GappedAccounts DEF AccountedBy
    <2>2. CASE Ingest(r) /\ UNCHANGED <<base, seen>>
      <3>1. /\ BaseShape(draft') /\ draft'.cursor = draft.cursor /\ draft'.gap = draft.gap
            /\ draft.evidence \subseteq draft'.evidence /\ r \in draft'.evidence
        BY <2>2 DEF Ingest, BaseShape
      <3>2. DraftInv' /\ AccountedBy(base) \subseteq AccountedBy(base)'
        BY <2>2, <3>1 DEF SensorInv, DraftInv, AccountedBy, Named
      <3>3. AccountedBy(draft) \cup {r} \subseteq AccountedBy(draft)'
        BY <2>2, <3>1 DEF AccountedBy, Named
      <3> QED BY <1>5, <1>7, <2>2, <3>1, <3>2, <3>3
    <2>3. CASE seen' = [seen EXCEPT !.ignored = @ \cup {r}] /\ UNCHANGED <<base, draft>>
      <3>1. DOMAIN seen' = DOMAIN seen /\ Named \cup {r} \subseteq Named'
        BY <2>3 DEF Named
      <3>2. DraftInv' /\ AccountedBy(base) \subseteq AccountedBy(base)' /\ AccountedBy(draft) \cup {r} \subseteq AccountedBy(draft)'
        BY <2>3, <3>1 DEF SensorInv, DraftInv, AccountedBy
      <3> QED BY <1>5, <1>7, <2>3, <3>1, <3>2
    <2> QED BY <1>2, <2>1, <2>2, <2>3
  <1>9. PositionInv'
    BY <1>1, <1>3, <1>6, <1>8 DEF PositionInv, at
  <1>10. SensorShape' /\ ~AtEnd'
    BY <1>1, <1>6, <1>8 DEF SensorShape, AtEnd
  <1> QED BY <1>1, <1>6, <1>8, <1>9, <1>10, SensorParts

(* A batch ends, and the thread knows whether at the end of its file.        *)
LEMMA BatchKeepsSensorInv ==
    ASSUME SensorInv, BatchEnds
    PROVE  SensorInv'
PROOF
  <1> USE SensorFacts
  <1> DEFINE at == reader.at
             partial == reader.processed < BATCH /\ HalfLine(at.file)
             eof == reader.processed < BATCH
  <1>1. /\ reader.phase = "read" /\ (reader.processed = BATCH \/ ~(at.offset < Len(export.lines[at.file])))
        /\ reader' = [reader EXCEPT !.phase = "save", !.eof = eof, !.partial = partial]
        /\ UNCHANGED <<export, base, draft, seen>>
    BY DEF BatchEnds, HasLine, Lines
  <1> HIDE DEF partial
  <1>2. /\ reader'.at = at /\ reader'.phase = "save" /\ (reader'.eof = (reader.processed < BATCH))
        /\ DOMAIN reader' = DOMAIN reader
    <2> HIDE DEF eof
    <2>1. reader'.eof = eof /\ DOMAIN reader' = DOMAIN reader /\ reader'.at = at /\ reader'.phase = "save"
      BY <1>1 DEF ReaderShape
    <2> QED BY <2>1 DEF eof
  <1>3. ReaderShape(reader')
    BY <1>2 DEF ReaderShape
  <1>4. reader'.eof => ~(at.offset < Len(export.lines[at.file]))
    <2>1. BATCH \in Nat
      BY SensorConstants
    <2>2. reader.processed = BATCH => ~(reader.processed < BATCH)
      BY ONLY <2>1
    <2> QED BY ONLY <1>1, <1>2, <2>2
  <1>5. AccountedBy(base)' = AccountedBy(base) /\ AccountedBy(draft)' = AccountedBy(draft) /\ DraftInv' /\ IsReading
    BY <1>1 DEF AccountedBy, Named, SensorInv, DraftInv, IsReading
  <1>6. reader'.eof => ToSet(export.lines[at.file]) \subseteq AccountedBy(draft)
    <2>1. at.offset \in Nat /\ Len(export.lines[at.file]) \in Nat
      OBVIOUS
    <2>2. reader'.eof => at.offset >= Len(export.lines[at.file])
      BY ONLY <1>4, <2>1
    <2>3. at.offset >= Len(export.lines[at.file]) => ToSet(export.lines[at.file]) \subseteq BehindIn(export.lines, at)
      BY BehindEnd
    <2> QED BY <1>5, <2>2, <2>3
  <1>7. base'.cursor.file <= export.current
    BY <1>1 DEF PositionInv
  <1> HIDE DEF at
  <1> QED BY <1>1, <1>2, <1>3, <1>5, <1>6, <1>7, ReaderStays DEF at

(* The cursor is saved with the evidence of what is before it.               *)
LEMMA SaveKeepsSensorInv ==
    ASSUME SensorInv, SaveCursor
    PROVE  SensorInv'
PROOF
  <1> USE SensorFacts
  <1>1. /\ reader.phase = "save" /\ reader' = [reader EXCEPT !.phase = "follow"] /\ UNCHANGED <<export, seen>>
        /\ (draft' = Saved /\ base' = draft') \/ UNCHANGED <<draft, base>>
    BY DEF SaveCursor
  <1>2. /\ ReaderShape(reader') /\ reader'.at = reader.at /\ reader'.fresh = reader.fresh
        /\ reader'.eof = reader.eof /\ reader'.phase = "follow"
    BY <1>1 DEF ReaderShape
  <1>3. IsReading /\ (reader.eof => ToSet(export.lines[reader.at.file]) \subseteq AccountedBy(draft) \cup reader.fresh)
    BY <1>1 DEF IsReading, AtEnd
  <1>4. /\ BaseShape(draft') /\ BaseShape(base') /\ DraftInv' /\ AccountedBy(draft)' = AccountedBy(draft)
        /\ BehindIn(export.lines, base'.cursor) \subseteq AccountedBy(base)'
        /\ base'.cursor = base.cursor \/ base'.cursor = reader.at
    <2>1. CASE UNCHANGED <<draft, base>>
      BY <1>1, <2>1 DEF AccountedBy, Named, SensorInv, DraftInv
    <2>2. CASE draft' = Saved /\ base' = draft'
      <3>1. BaseShape(draft') /\ draft'.cursor = reader.at /\ draft'.evidence = draft.evidence /\ draft'.gap = draft.gap
        BY <2>2 DEF Saved, BaseShape
      <3> QED BY <1>1, <1>3, <2>2, <3>1 DEF AccountedBy, Named, DraftInv
    <2> QED BY <1>1, <2>1, <2>2
  <1>5. base'.cursor.file <= export.current
    BY <1>4 DEF PositionInv
  <1> QED BY <1>1, <1>2, <1>3, <1>4, <1>5, ReaderStays

(* The thread looks at the export: it goes on, begins again in a file that   *)
(* was cut, or leaves a file that was rotated away.                          *)
LEMMA StatKeepsSensorInv ==
    ASSUME SensorInv, StatExport
    PROVE  SensorInv'
PROOF
  <1> USE SensorFacts
  <1> DEFINE at == reader.at
             rotated == at.file # export.current /\ reader.eof
             after == StartOf(at.file + 1)
             start == StartOf(at.file)
  <1>1. reader.phase = "follow" /\ UNCHANGED <<export, seen>> /\ IsReading
    BY DEF StatExport, IsReading
  <1>2. \/ /\ rotated /\ reader' = [reader EXCEPT !.phase = "successor"]
           /\ (draft' = Gapped(draft, after) /\ base' = draft') \/ UNCHANGED <<draft, base>>
        \/ /\ base' = draft' /\ reader' = At("open", NoPosition)
           /\ draft' = [Gapped(draft, at) EXCEPT !.cursor = start]
        \/ reader' = At("read", at) /\ UNCHANGED <<draft, base>>
    BY DEF StatExport, Reading
  <1>3. at \in Places /\ at.file \in SensorFiles /\ at.file <= export.current
    BY DEF PositionInv
  <1>4. CASE rotated /\ reader' = [reader EXCEPT !.phase = "successor"]
             /\ ((draft' = Gapped(draft, after) /\ base' = draft') \/ UNCHANGED <<draft, base>>)
    <2>1. at.file < export.current /\ reader.eof
      BY <1>3, <1>4
    <2>2. /\ ReaderShape(reader') /\ reader'.at = at /\ reader'.fresh = reader.fresh
          /\ reader'.eof = reader.eof /\ reader'.phase = "successor"
      BY <1>4 DEF ReaderShape
    <2>3. ToSet(export.lines[at.file]) \subseteq AccountedBy(draft) \cup reader.fresh
      BY <1>1, <2>1 DEF AtEnd
    <2>4. /\ BaseShape(draft') /\ BaseShape(base') /\ DraftInv' /\ AccountedBy(draft) \subseteq AccountedBy(draft)'
          /\ AccountedBy(base) \subseteq AccountedBy(base)' /\ base'.cursor = base.cursor
      <3>1. CASE UNCHANGED <<draft, base>>
        BY <1>1, <3>1 DEF AccountedBy, Named, SensorInv, DraftInv
      <3>2. CASE draft' = Gapped(draft, after) /\ base' = draft'
        BY <1>1, <3>2, GappedAccounts DEF AccountedBy, Named, DraftInv
      <3> QED BY <1>4, <3>1, <3>2
    <2>5. base'.cursor.file <= export.current /\ BehindIn(export.lines, base'.cursor) \subseteq AccountedBy(base)'
      BY <2>4 DEF PositionInv
    <2>6. ToSet(export.lines[at.file]) \subseteq AccountedBy(draft)' \cup reader'.fresh
      BY <2>2, <2>3, <2>4
    <2> QED BY <1>1, <2>1, <2>2, <2>4, <2>5, <2>6, ReaderStays
  <1>5. CASE base' = draft' /\ reader' = At("open", NoPosition) /\ draft' = [Gapped(draft, at) EXCEPT !.cursor = start]
    <2>1. start \in Places /\ start.file = at.file /\ start.offset = 0
      BY <1>3, StartIsAPlace
    <2> HIDE DEF start
    <2>2. NoPosition \in Places /\ NoPosition.file <= export.current /\ NoPosition.offset = 0
      BY NoPositionIsAPlace DEF NoPosition
    <2>3. /\ BaseShape(Gapped(draft, at))
          /\ BehindIn(export.lines, at) \subseteq Gapped(draft, at).evidence \cup Gapped(draft, at).gap
      BY GappedAccounts
    <2>4. BaseShape(draft') /\ draft'.cursor = start /\ draft'.evidence = Gapped(draft, at).evidence
          /\ draft'.gap = Gapped(draft, at).gap
      BY <1>5, <2>1, <2>3 DEF BaseShape
    <2>5. BehindIn(export.lines, start) \subseteq BehindIn(export.lines, at)
      BY <1>3, <2>1, BehindStart
    <2>6. DraftInv'
      BY <1>5 DEF DraftInv
    <2>7. BehindIn(export.lines, start) \subseteq AccountedBy(base)'
      BY <1>5, <2>3, <2>4, <2>5 DEF AccountedBy
    <2> QED BY <1>1, <1>3, <1>5, <2>1, <2>2, <2>4, <2>6, <2>7, ReaderSide
  <1>6. CASE reader' = At("read", at) /\ UNCHANGED <<draft, base>>
    <2>1. DraftInv' /\ AccountedBy(base)' = AccountedBy(base) /\ AccountedBy(draft)' = AccountedBy(draft)
      BY <1>1, <1>6 DEF SensorInv, DraftInv, AccountedBy, Named
    <2>2. base'.cursor.file <= export.current
      BY <1>6 DEF PositionInv
    <2> HIDE DEF at
    <2> QED BY <1>1, <1>3, <1>6, <2>1, <2>2, ReaderSide DEF at
  <1> QED BY <1>2, <1>4, <1>5, <1>6

(* The file that follows has before it what was read to its end, or a gap.   *)
LEMMA FindKeepsSensorInv ==
    ASSUME SensorInv, FindSuccessor
    PROVE  SensorInv'
PROOF
  <1> USE SensorFacts
  <1>1. PICK found \in {Successor, 0} :
          LET target == IF found = 0 THEN export.current ELSE found IN
            /\ reader' = [reader EXCEPT !.phase = "next", !.target = target, !.raw = target = export.current]
            /\ IF found = 0 THEN draft' = Gapped(draft, StartOf(target)) /\ base' = draft'
               ELSE UNCHANGED <<draft, base>>
    BY DEF FindSuccessor
  <1> DEFINE target == IF found = 0 THEN export.current ELSE found
             raw == target = export.current
  <1>2. reader.phase = "successor" /\ UNCHANGED <<export, seen>>
    BY DEF FindSuccessor
  <1>3. IsReading /\ reader.eof /\ reader.at.file < export.current
        /\ ToSet(export.lines[reader.at.file]) \subseteq AccountedBy(draft) \cup reader.fresh
    BY <1>2 DEF IsReading, AtEnd, PositionInv
  <1>4. found # 0 => found = reader.at.file + 1 /\ target = reader.at.file + 1
    BY DEF Successor
  <1>5. target \in SensorFiles /\ target <= export.current
    <2>1. reader.at.file + 1 \in SensorFiles /\ reader.at.file + 1 <= export.current
      BY <1>3
    <2> QED BY <1>4, <2>1
  <1>6. /\ found = 0 => draft' = Gapped(draft, StartOf(target)) /\ base' = draft'
        /\ found # 0 => UNCHANGED <<draft, base>>
    BY <1>1
  <1>7. reader' = [reader EXCEPT !.phase = "next", !.target = target, !.raw = raw]
    BY <1>1
  <1> HIDE DEF target, raw
  <1>8. /\ ReaderShape(reader') /\ reader'.at = reader.at /\ reader'.fresh = reader.fresh
        /\ reader'.eof = reader.eof /\ reader'.phase = "next" /\ reader'.target = target
    BY <1>7 DEF ReaderShape
  <1>9. /\ BaseShape(draft') /\ BaseShape(base') /\ DraftInv' /\ AccountedBy(draft) \subseteq AccountedBy(draft)'
        /\ AccountedBy(base) \subseteq AccountedBy(base)' /\ base'.cursor = base.cursor
        /\ BehindIn(export.lines, StartOf(target)) \subseteq AccountedBy(draft)' \cup reader.fresh
    <2>1. CASE found = 0
      <3>1. draft' = Gapped(draft, StartOf(target)) /\ base' = draft'
        BY <1>6, <2>1
      <3> QED BY <1>2, <3>1, GappedAccounts DEF AccountedBy, Named, DraftInv
    <2>2. CASE found # 0
      <3>1. UNCHANGED <<draft, base>>
        BY <1>6, <2>2
      <3>2. StartOf(target) \in Places /\ StartOf(target).file = reader.at.file + 1 /\ StartOf(target).offset = 0
        BY <1>4, <1>5, <2>2, StartIsAPlace
      <3>3. BehindIn(export.lines, StartOf(target)) \subseteq BehindIn(export.lines, reader.at) \cup ToSet(export.lines[reader.at.file])
        BY <3>2, BehindSuccessor
      <3> QED BY <1>2, <1>3, <3>1, <3>3 DEF AccountedBy, Named, SensorInv, DraftInv
    <2> QED BY <2>1, <2>2
  <1>10. base'.cursor.file <= export.current /\ BehindIn(export.lines, base'.cursor) \subseteq AccountedBy(base)'
    BY <1>9 DEF PositionInv
  <1>11. ToSet(export.lines[reader.at.file]) \subseteq AccountedBy(draft)' \cup reader'.fresh
    BY <1>3, <1>8, <1>9
  <1> QED BY <1>2, <1>3, <1>5, <1>8, <1>9, <1>10, <1>11, ReaderStays

(* The start of a later file has passed the files between, and no others.    *)
LEMMA BehindLater ==
    ASSUME NEW lines \in [SensorFiles -> Seq(Nat)], NEW f \in SensorFiles, NEW g \in SensorFiles
    PROVE  BehindIn(lines, StartOf(g)) \subseteq BehindIn(lines, StartOf(f)) \cup UNION {ToSet(lines[h]) : h \in f .. g - 1}
PROOF
  <1> SUFFICES ASSUME NEW x \in BehindIn(lines, StartOf(g))
               PROVE  x \in BehindIn(lines, StartOf(f)) \cup UNION {ToSet(lines[h]) : h \in f .. g - 1}
    OBVIOUS
  <1>0. /\ StartOf(g) \in Places /\ StartOf(g).file = g /\ StartOf(g).offset = 0
        /\ StartOf(f) \in Places /\ StartOf(f).file = f /\ StartOf(f).offset = 0
    BY StartIsAPlace
  <1>1. PICK h \in SensorFiles : \E i \in 1 .. Len(lines[h]) : x = lines[h][i] /\ IsPast(StartOf(g), h, i)
    BY <1>0, BehindMembers
  <1>2. PICK i \in 1 .. Len(lines[h]) : x = lines[h][i] /\ IsPast(StartOf(g), h, i)
    BY <1>1
  <1>3. f \in Nat /\ g \in Nat /\ h \in Nat /\ i \in Nat /\ i > 0
    BY SensorConstants DEF SensorFiles
  <1>4. h < g
    BY <1>0, <1>2, <1>3 DEF IsPast
  <1>5. CASE h < f
    <2>1. IsPast(StartOf(f), h, i)
      BY <1>0, <1>5 DEF IsPast
    <2>2. x \in BehindIn(lines, StartOf(f))
      BY <1>0, <1>2, <2>1, BehindMembers
    <2> QED BY <2>2
  <1>6. CASE h >= f
    <2>1. h \in f .. g - 1
      BY <1>3, <1>4, <1>6
    <2>2. x \in ToSet(lines[h])
      BY <1>2 DEF ToSet
    <2> QED BY <2>1, <2>2
  <1> QED BY <1>3, <1>5, <1>6

(* The thread opens the file that has the path now.                          *)
LEMMA NextKeepsSensorInv ==
    ASSUME SensorInv, OpenSuccessor
    PROVE  SensorInv'
PROOF
  <1> USE SensorFacts
  <1> DEFINE opened == IF reader.raw THEN export.current ELSE reader.target
             p == StartOf(opened)
             between == UNION {ToSet(export.lines[f]) : f \in reader.target .. opened - 1}
  <1>1. /\ reader.phase = "next" /\ UNCHANGED export
        /\ draft' = [draft EXCEPT !.cursor = p] /\ base' = draft' /\ reader' = At("read", p)
        /\ seen' = [seen EXCEPT !.left = @ \cup reader.fresh \cup between]
    BY DEF OpenSuccessor, Reading, Lines
  <1>2. reader.target \in SensorFiles /\ opened \in SensorFiles /\ opened <= export.current
    BY <1>1 DEF PositionInv
  <1> HIDE DEF opened
  <1>3. p \in Places /\ p.file = opened
    BY <1>2, StartIsAPlace
  <1>4. BehindIn(export.lines, p) \subseteq BehindIn(export.lines, StartOf(reader.target)) \cup between
    BY <1>2, BehindLater
  <1>5. BehindIn(export.lines, StartOf(reader.target)) \subseteq AccountedBy(draft) \cup reader.fresh
    BY <1>1
  <1> HIDE DEF between, p
  <1>6. BaseShape(draft') /\ draft'.cursor = p /\ draft'.evidence = draft.evidence /\ draft'.gap = draft.gap
    BY <1>1, <1>3 DEF BaseShape
  <1>7. DOMAIN seen' = DOMAIN seen /\ Named \cup reader.fresh \cup between \subseteq Named'
    BY <1>1 DEF Named
  <1>8. BehindIn(export.lines, p) \subseteq AccountedBy(draft)' /\ AccountedBy(base)' = AccountedBy(draft)' /\ DraftInv'
    BY <1>1, <1>4, <1>5, <1>6, <1>7 DEF AccountedBy, DraftInv
  <1> QED BY <1>1, <1>2, <1>3, <1>6, <1>7, <1>8, ReaderSide

(* What is behind the saved cursor has its evidence or a gap, or is one of   *)
(* the losses that are named, whatever the size of the batch, the number of  *)
(* files kept and of records, through rotations between any two steps of the *)
(* reader, deleted and cut files, restarts and failed writes (collect,       *)
(* rotation_successor, record_gap, metadata).                                *)
THEOREM LossesAreReported ==
    SensorSpec => []LossIsReported
PROOF
  <1>1. SensorInit => SensorInv
    <2> SUFFICES ASSUME SensorInit PROVE SensorInv
      OBVIOUS
    <2>1. <<>> \in Seq(Nat) /\ NoPosition \in Places /\ 1 \in SensorFiles
      BY NoPositionIsAPlace, SensorConstants DEF SensorFiles
    <2>2. SensorShape
      BY <2>1 DEF SensorInit, SensorShape, BaseShape, ReaderShape, At, NoLoss
    <2>3. base.cursor = NoPosition /\ reader.phase = "down" /\ draft = base /\ reader.at = NoPosition
      BY DEF SensorInit, At
    <2>4. Behind(base.cursor) = {}
      <3>1. \A x : x \notin BehindIn(export.lines, NoPosition)
        <4>1. \A f \in SensorFiles : Len(export.lines[f]) = 0
          BY DEF SensorInit
        <4>2. \A f \in SensorFiles : 1 .. Len(export.lines[f]) = {}
          BY <4>1
        <4> QED BY <2>1, <2>2, <4>2, BehindMembers DEF SensorShape
      <3> QED BY <2>3, <3>1, BehindIsIn
    <2>5. PositionInv
      BY <2>3 DEF SensorInit, PositionInv, NoPosition
    <2> QED BY <2>2, <2>3, <2>4, <2>5 DEF SensorInv, DraftInv, PassedInv, LossIsReported, IsReading, AtEnd
  <1>2. SensorInv /\ [SensorNext]_sensorVars => SensorInv'
    <2> SUFFICES ASSUME SensorInv, [SensorNext]_sensorVars PROVE SensorInv'
      OBVIOUS
    <2>1. CASE UNCHANGED sensorVars
      <3>1. UNCHANGED <<export, base, draft, reader, seen>>
        BY <2>1 DEF sensorVars
      <3>2. SensorShape' /\ DraftInv' /\ PositionInv'
        BY <3>1 DEF SensorInv, SensorShape, DraftInv, PositionInv, BaseShape, ReaderShape, AccountedBy, Named
      <3>3. /\ BehindIn(export'.lines, base'.cursor) \subseteq AccountedBy(base)'
            /\ IsReading' => BehindIn(export'.lines, reader'.at) \subseteq AccountedBy(draft)'
            /\ AtEnd' => ToSet(export'.lines[reader'.at.file]) \subseteq AccountedBy(draft)' \cup reader'.fresh
            /\ reader'.phase = "next" =>
                 BehindIn(export'.lines, StartOf(reader'.target)) \subseteq AccountedBy(draft)' \cup reader'.fresh
        BY <3>1, SensorFacts DEF AccountedBy, Named, IsReading, AtEnd
      <3> QED BY <3>2, <3>3, SensorParts DEF DraftInv
    <2>2. CASE SensorNext
      BY <2>2, SensorKeepsSensorInv, IdleKeepsSensorInv, HealthKeepsSensorInv, AttachKeepsSensorInv, OpenKeepsSensorInv,
         ReadKeepsSensorInv, BatchKeepsSensorInv, SaveKeepsSensorInv, StatKeepsSensorInv, FindKeepsSensorInv,
         NextKeepsSensorInv DEF SensorNext
    <2> QED BY <2>1, <2>2
  <1>3. SensorInv => LossIsReported
    BY DEF SensorInv
  <1> QED BY <1>1, <1>2, <1>3, PTL DEF SensorSpec

=============================================================================
