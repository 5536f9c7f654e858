------------------------- MODULE MaintenanceProofs -------------------------
(***************************************************************************)
(* Proofs about the services that keep the machine and its records: updates, *)
(* recovery points, the activity list, the security history and the notices. *)
(***************************************************************************)
EXTENDS UpdateCenter, LocalActivity, RecoveryPoints, Telemetry, Notifications,
        FiniteSetTheorems, WellFoundedInduction, TLAPS

-----------------------------------------------------------------------------
(* The update center.                                                        *)

(* The invariant: the state of each refresh thread, and the flag's owner.    *)
RefreshInv ==
    /\ refresher \in [Refreshers -> {"none", "started", "collecting"}]
    /\ RefreshNotStuck

(* What any step of the service, its workers, its methods or the machine     *)
(* does to the refreshes: nothing, or it clears the flag, or it clears both. *)
LEMMA OthersClear ==
    ASSUME UpdateNext, \A r \in Refreshers : ~RequestRefresh(r) /\ ~RefreshBegins(r) /\ ~RefreshEnds(r)
    PROVE  \/ UNCHANGED <<refresher, refreshing>>
           \/ refresher' = refresher /\ refreshing' = FALSE
           \/ refresher' = [r \in Refreshers |-> "none"] /\ refreshing' = FALSE
<1>1. ASSUME NEW w \in Workers, ApplyPlans(w) \/ ApplyEnds(w)
      PROVE  refresher' = refresher /\ refreshing' = FALSE
  BY <1>1 DEF ApplyPlans, ApplyEnds
<1>2. ASSUME NEW w \in Workers, StartOperation(w) \/ StartRestart(w) \/ ResolveEnds(w) \/ RestartFails(w) \/ OptionalRuns(w)
      PROVE  UNCHANGED <<refresher, refreshing>>
  BY <1>2 DEF StartOperation, StartRestart, ResolveEnds, RestartFails, OptionalRuns
<1>3. ASSUME NEW w \in Workers,
             HelperFails(w) \/ HelperStarts(w) \/ HelperCheckpoints(w) \/ HelperPrepares(w) \/ HelperContinues(w) \/ HelperCompletes(w)
      PROVE  UNCHANGED <<refresher, refreshing>>
  BY <1>3 DEF HelperFails, HelperStarts, HelperCheckpoints, HelperPrepares, HelperContinues, HelperCompletes
<1>4. ASSUME CancelUpdate \/ DownloadSignal \/ AutoUpdate \/ ServiceStarts
      PROVE  UNCHANGED <<refresher, refreshing>>
  BY <1>4 DEF CancelUpdate, DownloadSignal, AutoUpdate, ServiceStarts
<1>5. ASSUME ServiceStops \/ MachineRestarts
      PROVE  refresher' = [r \in Refreshers |-> "none"] /\ refreshing' = FALSE
  BY <1>5 DEF ServiceStops, MachineRestarts
<1> QED
  BY <1>1, <1>2, <1>3, <1>4, <1>5 DEF UpdateNext

(* Every step keeps the flag with a thread that will clear it.               *)
LEMMA RefreshStep == RefreshInv /\ [UpdateNext]_updateVars => RefreshInv'
<1> SUFFICES ASSUME RefreshInv, [UpdateNext]_updateVars PROVE RefreshInv'
  OBVIOUS
<1>1. ASSUME NEW r \in Refreshers, RequestRefresh(r) PROVE RefreshInv'
  <2>1. refresher' = [refresher EXCEPT ![r] = "started"]
    BY <1>1 DEF RequestRefresh
  <2> QED
    BY <2>1 DEF RefreshInv, RefreshNotStuck
<1>2. ASSUME NEW r \in Refreshers, RefreshBegins(r) PROVE RefreshInv'
  <2>1. CASE Active
    <3>1. refreshing' = FALSE /\ refresher' = [refresher EXCEPT ![r] = "none"]
      BY <1>2, <2>1 DEF RefreshBegins, RefreshDeclined
    <3> QED
      BY <3>1 DEF RefreshInv, RefreshNotStuck
  <2>2. CASE ~Active
    <3>1. refresher' = [refresher EXCEPT ![r] = "collecting"]
      BY <1>2, <2>2 DEF RefreshBegins
    <3> QED
      BY <3>1 DEF RefreshInv, RefreshNotStuck
  <2> QED
    BY <2>1, <2>2
<1>3. ASSUME NEW r \in Refreshers, RefreshEnds(r) PROVE RefreshInv'
  BY <1>3 DEF RefreshEnds, RefreshInv, RefreshNotStuck
<1>4. CASE UpdateNext /\ \A r \in Refreshers : ~RequestRefresh(r) /\ ~RefreshBegins(r) /\ ~RefreshEnds(r)
  <2>1. CASE UNCHANGED <<refresher, refreshing>>
    BY <2>1 DEF RefreshInv, RefreshNotStuck
  <2>2. CASE refresher' = refresher /\ refreshing' = FALSE
    BY <2>2 DEF RefreshInv, RefreshNotStuck
  <2>3. CASE refresher' = [r \in Refreshers |-> "none"] /\ refreshing' = FALSE
    BY <2>3 DEF RefreshInv, RefreshNotStuck
  <2> QED
    BY <1>4, <2>1, <2>2, <2>3, OthersClear
<1>5. CASE UNCHANGED updateVars
  BY <1>5 DEF updateVars, RefreshInv, RefreshNotStuck
<1> QED
  BY <1>1, <1>2, <1>3, <1>4, <1>5

(* Whenever the flag says that a refresh is under way, a thread that will    *)
(* clear it exists, whatever update, cancel, restart or second refresh came  *)
(* between: the snapshot can always be read again                            *)
(* (request_snapshot_refresh, refresh_snapshot_worker).                      *)
THEOREM NeverStuck == UpdateSpec => []RefreshNotStuck
<1>1. UpdateInit => RefreshInv
  BY DEF UpdateInit, RefreshInv, RefreshNotStuck
<1>2. RefreshInv => RefreshNotStuck
  BY DEF RefreshInv
<1> QED
  BY <1>1, <1>2, RefreshStep, PTL DEF UpdateSpec

-----------------------------------------------------------------------------
(* The activity list.                                                        *)

(* The invariant: every item shown or cleared has a number below the next    *)
(* one, so a new item is not one that was cleared; and once something was    *)
(* cleared the import is over, so the file brings nothing back.              *)
LocalInv ==
    /\ local \in [items : SUBSET Nat, next : Nat, migrated : BOOLEAN, cleared : SUBSET Nat]
    /\ Legacy < local.next
    /\ \A i \in local.items \cup local.cleared : i < local.next
    /\ ~local.migrated => local.cleared = {}
    /\ ClearedStaysCleared

(* Trimming the list only removes items (_trim).                             *)
LEMMA TrimRemoves == \A items : Trim(items) \subseteq items
BY DEF Trim

(* The import keeps the invariant and marks the file as imported (migrate).  *)
LEMMA MigratedKeeps ==
    ASSUME LocalInv
    PROVE  /\ Migrated \in [items : SUBSET Nat, next : Nat, migrated : {TRUE}, cleared : SUBSET Nat]
           /\ Migrated.next = local.next /\ Migrated.cleared = local.cleared
           /\ \A i \in Migrated.items : i < local.next /\ i \notin local.cleared
<1>1. CASE local.migrated
  BY <1>1 DEF Migrated, LocalInv, ClearedStaysCleared
<1>2. CASE ~local.migrated
  <2> DEFINE imported == Trim(local.items \cup 1 .. Legacy)
  <2>1. /\ Migrated = [local EXCEPT !.items = imported, !.migrated = TRUE]
        /\ local.cleared = {}
    BY <1>2 DEF Migrated, LocalInv
  <2>2. imported \subseteq local.items \cup 1 .. Legacy
    BY TrimRemoves
  <2>3. \A i \in 1 .. Legacy : i \in Nat /\ i < local.next
    BY LocalConstants DEF LocalInv
  <2> HIDE DEF imported
  <2> QED
    BY <2>1, <2>2, <2>3 DEF LocalInv
<1> QED
  BY <1>1, <1>2

(* The list begins empty, numbered behind the items of the file.             *)
LEMMA LocalBegins == LocalInit => LocalInv
BY LocalConstants DEF LocalInit, LocalInv, ClearedStaysCleared

(* Every call keeps the invariant.                                           *)
LEMMA LocalStep == LocalInv /\ [LocalNext]_local => LocalInv'
<1> SUFFICES ASSUME LocalInv, [LocalNext]_local PROVE LocalInv'
  OBVIOUS
<1>m. /\ Migrated \in [items : SUBSET Nat, next : Nat, migrated : {TRUE}, cleared : SUBSET Nat]
      /\ Migrated.next = local.next /\ Migrated.cleared = local.cleared
      /\ \A i \in Migrated.items : i < local.next /\ i \notin local.cleared
  BY MigratedKeeps
<1>0. local' = Migrated => LocalInv'
  BY <1>m DEF LocalInv, ClearedStaysCleared
<1>1. CASE MigrateLocal
  BY <1>0, <1>1 DEF MigrateLocal
<1>2. CASE PruneLocal
  BY <1>2 DEF PruneLocal, LocalInv, ClearedStaysCleared
<1>3. CASE RecordLocal
  <2>1. CASE local' = [Migrated EXCEPT !.items = Trim(@ \cup {local.next}), !.next = @ + 1]
    <3> DEFINE recorded == Trim(Migrated.items \cup {local.next})
    <3>1. recorded \subseteq Migrated.items \cup {local.next}
      BY TrimRemoves
    <3>2. local' = [items |-> recorded, next |-> local.next + 1, migrated |-> TRUE, cleared |-> local.cleared]
      BY <2>1, <1>m
    <3> HIDE DEF recorded
    <3>3. local.next \in Nat /\ local.next \notin local.cleared
      BY DEF LocalInv
    <3>4. ASSUME NEW i \in recorded
          PROVE  i \in Nat /\ i < local.next + 1 /\ i \notin local.cleared
      <4>1. i \in Migrated.items \/ i = local.next
        BY <3>1
      <4> QED
        BY <4>1, <3>3, <1>m
    <3>5. /\ local' \in [items : SUBSET Nat, next : Nat, migrated : {TRUE}, cleared : SUBSET Nat]
          /\ local'.items = recorded /\ local'.next = local.next + 1 /\ local'.cleared = local.cleared
      <4>1. recorded \in SUBSET Nat /\ local.cleared \in SUBSET Nat
        BY <3>4 DEF LocalInv
      <4> QED
        BY <4>1, <3>2, <3>3
    <3>6. \A i \in local'.cleared : i < local'.next
      BY <3>5, <3>3 DEF LocalInv
    <3>7. ClearedStaysCleared'
      BY <3>4, <3>5 DEF ClearedStaysCleared
    <3>8. Legacy < local'.next
      BY <3>5, <3>3, LocalConstants DEF LocalInv
    <3> QED
      BY <3>4, <3>5, <3>6, <3>7, <3>8 DEF LocalInv
  <2> QED
    BY <1>0, <1>3, <2>1 DEF RecordLocal
<1>4. CASE ClearLocal
  <2>1. CASE local' = [Migrated EXCEPT !.items = {}, !.cleared = @ \cup Migrated.items]
    BY <2>1, <1>m DEF LocalInv, ClearedStaysCleared
  <2> QED
    BY <1>0, <1>4, <2>1 DEF ClearLocal
<1>5. CASE UNCHANGED local
  BY <1>5 DEF LocalInv, ClearedStaysCleared
<1> QED
  BY <1>1, <1>2, <1>3, <1>4, <1>5 DEF LocalNext

(* What was cleared never comes back, though the file it was imported from   *)
(* stays where it is and the process may stop between any two transactions   *)
(* (clear, record, migrate).                                                 *)
THEOREM ClearedForGood == LocalSpec => []ClearedStaysCleared
<1>1. LocalInv => ClearedStaysCleared
  BY DEF LocalInv
<1> QED
  BY <1>1, LocalBegins, LocalStep, PTL DEF LocalSpec

-----------------------------------------------------------------------------
(* Notices.                                                                  *)

(* The time of the last reminder is in the file, and the router has it, also *)
(* after a restart, unless it was not saved.                                 *)
ReminderInv ==
    /\ DOMAIN router = {"records", "owner", "connected", "reminder"} /\ DOMAIN delivered = {"at", "lost"}
    /\ clock \in Nat /\ delivered.lost \in BOOLEAN
    /\ ~delivered.lost => reminded = delivered.at /\ router.reminder = delivered.at

(* An item is brought to the screen, skipped or fails.                       *)
LEMMA DeliverKeepsReminder ==
    ASSUME ReminderInv, Deliver
    PROVE  /\ ReminderInv'
           /\ delivered'.at # delivered.at /\ delivered.at # Never /\ ~delivered.lost => delivered'.at - delivered.at >= DAY
<1>1. PICK c, current :
          \/ Skip(c, current) \/ NotifyFails(c, current)
          \/ Due(c, router.records[c].item, current) /\ NotifyTimesOut(c, current)
          \/ Due(c, router.records[c].item, current) /\ Notified(c, current)
  BY DEF Deliver
<1>2. clock' = clock
  BY DEF Deliver
<1>3. CASE Skip(c, current) \/ NotifyFails(c, current)
  BY <1>2, <1>3 DEF Skip, NotifyFails, Unanswered, ReminderInv
<1>4. CASE Due(c, router.records[c].item, current) /\ Notified(c, current)
  <2>1. /\ DOMAIN router' = DOMAIN router
        /\ router'.reminder = IF Reminder(c) THEN clock ELSE router.reminder
    BY <1>4 DEF Notified, ReminderInv
  <2>2. CASE ~Reminder(c)
    BY <1>2, <1>4, <2>1, <2>2 DEF Notified, ReminderInv
  <2>3. CASE Reminder(c)
    <3>1. \/ reminded' = clock /\ delivered' = [at |-> clock, lost |-> FALSE]
          \/ delivered' = [at |-> clock, lost |-> TRUE]
      BY <1>4, <2>3 DEF Notified
    <3>2. router.reminder = Never \/ clock - router.reminder >= DAY
      BY <1>4, <2>3 DEF Due
    <3>3. ReminderInv' /\ delivered'.at = clock
      <4>1. CASE reminded' = clock /\ delivered' = [at |-> clock, lost |-> FALSE]
        BY <1>2, <2>1, <2>3, <4>1 DEF ReminderInv
      <4>2. CASE delivered' = [at |-> clock, lost |-> TRUE]
        BY <1>2, <2>1, <4>2 DEF ReminderInv
      <4> QED
        BY <3>1, <4>1, <4>2
    <3> QED
      BY <3>2, <3>3 DEF ReminderInv
  <2> QED
    BY <2>2, <2>3
<1>5. CASE Due(c, router.records[c].item, current) /\ NotifyTimesOut(c, current)
  <2>1. /\ DOMAIN router' = DOMAIN router /\ router'.reminder = router.reminder /\ reminded' = reminded
        /\ delivered' = IF Reminder(c) THEN [at |-> clock, lost |-> TRUE] ELSE delivered
    BY <1>5 DEF NotifyTimesOut, Unanswered, ReminderInv
  <2>2. ReminderInv'
    BY <1>2, <2>1 DEF ReminderInv
  <2>3. Reminder(c) => router.reminder = Never \/ clock - router.reminder >= DAY
    BY <1>5 DEF Due
  <2> QED
    BY <2>1, <2>2, <2>3 DEF ReminderInv
<1> QED
  BY <1>1, <1>3, <1>4, <1>5

(* Nothing else sends a reminder or forgets when one was sent.               *)
LEMMA OthersKeepReminder ==
    ASSUME ReminderInv,
           \/ TimePasses \/ ServerExits \/ ServerStarts \/ Collect \/ CollectFails \/ PublishItems \/ EndReconcile
           \/ \E c \in Conditions : UserDismisses(c)
           \/ \E signal \in signals : Closed(signal)
           \/ Restart(TRUE) \/ Restart(FALSE) \/ UNCHANGED noticeVars
    PROVE  ReminderInv' /\ delivered' = delivered
<1> USE DEF ReminderInv
<1>1. CASE TimePasses \/ ServerExits \/ ServerStarts \/ Collect \/ CollectFails \/ EndReconcile \/ UNCHANGED noticeVars
  <2>1. clock' \in {clock, clock + 1} /\ UNCHANGED <<router, reminded, delivered>>
    BY <1>1 DEF TimePasses, ServerExits, ServerStarts, Collect, CollectFails, EndReconcile, noticeVars
  <2> QED
    BY <2>1
<1>2. CASE \E c \in Conditions : UserDismisses(c)
  BY <1>2 DEF UserDismisses
<1>3. CASE PublishItems
  <2>1. /\ clock' = clock /\ reminded' = reminded /\ delivered' = delivered
        /\ DOMAIN router' = DOMAIN router /\ router'.reminder = router.reminder
    BY <1>3 DEF PublishItems
  <2> QED
    BY <2>1
<1>4. CASE \E signal \in signals : Closed(signal)
  BY <1>4 DEF Closed
<1>5. CASE Restart(TRUE) \/ Restart(FALSE)
  BY <1>5 DEF Restart, Reminded
<1> QED
  BY <1>1, <1>2, <1>3, <1>4, <1>5

(* Two update reminders are a day apart for any conditions, clock and number *)
(* of servers, whatever is restarted, closed or withdrawn between them, if   *)
(* the time of the first was saved (reconcile, _save_reminders).             *)
THEOREM RemindersAreDaily == NoticeSpec => OneReminderADay
<1>1. NoticeInit => ReminderInv
  BY DEF NoticeInit, ReminderInv
<1>2. ReminderInv /\ [NoticeNext]_noticeVars => ReminderInv'
  BY DeliverKeepsReminder, OthersKeepReminder DEF NoticeNext
<1>3. ReminderInv /\ [NoticeNext]_noticeVars =>
        [delivered'.at # delivered.at /\ delivered.at # Never /\ ~delivered.lost => delivered'.at - delivered.at >= DAY]_noticeVars
  BY DeliverKeepsReminder, OthersKeepReminder DEF NoticeNext
<1> QED
  BY <1>1, <1>2, <1>3, PTL DEF NoticeSpec, OneReminderADay

-----------------------------------------------------------------------------
(* The greatest of a bounded set.                                            *)

(* A set of natural numbers with a bound has a greatest member.              *)
LEMMA GreatestOf ==
    ASSUME NEW S, S \subseteq Nat, S # {}, NEW n \in Nat, \A x \in S : x <= n
    PROVE  Max(S) \in S /\ \A y \in S : y <= Max(S)
<1> DEFINE bounds == {b \in Nat : \A x \in S : x <= b}
<1>1. bounds # {} /\ bounds \subseteq Nat
  OBVIOUS
<1>2. PICK b \in bounds : \A y \in bounds : ~(<<y, b>> \in OpToRel(<, Nat))
  <2> HIDE DEF bounds
  <2> QED
    BY <1>1, NatLessThanWellFounded, WFMin
<1>3. \A y \in bounds : ~(y < b)
  BY <1>1, <1>2 DEF OpToRel
<1>4. b \in Nat /\ \A x \in S : x <= b
  OBVIOUS
<1>5. b \in S
  <2> SUFFICES ASSUME b \notin S PROVE FALSE
    OBVIOUS
  <2>1. \A x \in S : x < b
    BY <1>4
  <2>2. PICK x \in S : x < b
    BY <2>1
  <2>3. b - 1 \in Nat
    BY <1>4, <2>2
  <2>4. \A y \in S : y <= b - 1
    BY <1>4, <2>1
  <2> QED
    BY <1>3, <1>4, <2>3, <2>4
<1>6. \E x \in S : \A y \in S : x >= y
  BY <1>4, <1>5
<1>7. Max(S) \in S /\ \A y \in S : Max(S) >= y
  BY ONLY <1>6 DEF Max
<1> QED
  BY <1>7

-----------------------------------------------------------------------------
(* The security history.                                                     *)

(* A time of resolution is a time, and events happened at times.             *)
HistoryTimes ==
    /\ now \in Nat \ {0} /\ at \in [Ids -> Nat] /\ \A e \in Ids : at[e] <= now
    /\ spool \in Seq(Ids) /\ DOMAIN finding = {"state", "last_seen", "resolved_at"}
    /\ finding.state = "RESOLVED" => finding.resolved_at \in Nat \ {0}

(* The members of the spool.                                                 *)
LEMMA SpoolMembers == ASSUME HistoryTimes PROVE ToSet(spool) \subseteq Ids
BY DEF HistoryTimes, ToSet

(* The collectors, the clock and the machine.                                *)
LEMMA CollectionKeepsTimes ==
    ASSUME HistoryTimes, ResolveFinding \/ Tick \/ SpoolLost \/ (\E e \in Ids : SpoolEvent(e)) \/ UNCHANGED telemetryVars
    PROVE  HistoryTimes' /\ (finding.state = "RESOLVED" => finding'.state = "RESOLVED")
<1>1. CASE ResolveFinding
  BY <1>1 DEF ResolveFinding, HistoryTimes
<1>2. CASE Tick
  BY <1>2 DEF Tick, HistoryTimes
<1>3. CASE SpoolLost
  <2>1. <<>> \in Seq(Ids)
    OBVIOUS
  <2> QED
    BY <1>3, <2>1 DEF SpoolLost, HistoryTimes
<1>4. CASE \E e \in Ids : SpoolEvent(e)
  <2> PICK e \in Ids : SpoolEvent(e)
    BY <1>4
  <2> DEFINE lines == Append(spool, e)
  <2>1. lines \in Seq(Ids) /\ lines # <<>>
    BY DEF HistoryTimes
  <2>2. Tail(lines) \in Seq(Ids)
    BY <2>1
  <2>3. spool' \in Seq(Ids)
    BY <2>1, <2>2 DEF SpoolEvent
  <2>4. /\ now' = now /\ finding' = finding /\ at' = [at EXCEPT ![e] = now]
    BY DEF SpoolEvent
  <2> HIDE DEF lines
  <2>5. at' \in [Ids -> Nat] /\ \A f \in Ids : at'[f] <= now'
    BY <2>4 DEF HistoryTimes
  <2> QED
    BY <2>3, <2>4, <2>5 DEF HistoryTimes
<1>5. CASE UNCHANGED telemetryVars
  BY <1>5 DEF telemetryVars, HistoryTimes
<1> QED
  BY <1>1, <1>2, <1>3, <1>4, <1>5

(* An import reopens the finding only for a later event (record_many).       *)
LEMMA ImportReopens ==
    ASSUME HistoryTimes, ImportRootSpool
    PROVE  /\ HistoryTimes'
           /\ finding.state = "RESOLVED" /\ finding'.state # "RESOLVED" =>
                \E e \in ToSet(spool) : at[e] > finding.resolved_at
<1> DEFINE fresh == {x \in ToSet(spool) \ stored : Unexpired(x)}
           derived == {at[e] : e \in fresh}
<1>1. /\ finding' = IF derived # {} /\ Reopens(Max(derived)) THEN Upserted(Max(derived)) ELSE finding
      /\ now' = now /\ at' = at /\ spool' = spool
  BY DEF ImportRootSpool, RecordMany
<1>2. fresh \subseteq ToSet(spool) /\ fresh \subseteq Ids
  BY SpoolMembers
<1> HIDE DEF fresh
<1>3. derived \subseteq Nat /\ \A x \in derived : x <= now
  BY <1>2 DEF HistoryTimes
<1>4. derived # {} => \E e \in fresh : at[e] = Max(derived)
  <2> SUFFICES ASSUME derived # {} PROVE Max(derived) \in derived
    OBVIOUS
  <2> HIDE DEF derived
  <2> QED
    BY <1>3, GreatestOf DEF HistoryTimes
<1> HIDE DEF derived
<1>5. HistoryTimes'
  BY <1>1 DEF HistoryTimes, Upserted
<1>6. ASSUME finding.state = "RESOLVED", finding'.state # "RESOLVED"
      PROVE  \E e \in ToSet(spool) : at[e] > finding.resolved_at
  <2>1. derived # {} /\ Reopens(Max(derived))
    BY <1>1, <1>6
  <2>2. Max(derived) > finding.resolved_at
    BY <1>6, <2>1 DEF Reopens, HistoryTimes
  <2> QED
    BY <1>2, <1>4, <2>1, <2>2
<1> QED
  BY <1>5, <1>6

(* The migration leaves a resolved finding alone (reconcile_findings).       *)
LEMMA MigrationLeavesResolved ==
    ASSUME HistoryTimes, ReconcileFindings
    PROVE  HistoryTimes' /\ (finding.state = "RESOLVED" => finding' = finding)
<1>1. /\ now' = now /\ at' = at /\ spool' = spool
      /\ finding' = finding \/ finding' = Upserted(Max({at[e] : e \in {x \in Batch : Unexpired(x)}}))
      /\ finding.state = "RESOLVED" => finding' = finding
  BY DEF ReconcileFindings
<1> QED
  BY <1>1 DEF HistoryTimes, Upserted

(* A finding that was resolved is reopened only by an event that happened    *)
(* afterwards, for any bounds on the events, the spool, their retention and  *)
(* the batches, however often the same spool is imported again               *)
(* (_record_value, reconcile_findings).                                      *)
THEOREM ReplayCannotReopen == TelemetrySpec => ResolvedStaysResolved
<1>1. TelemetryInit => HistoryTimes
  <2> SUFFICES ASSUME TelemetryInit PROVE HistoryTimes
    OBVIOUS
  <2>1. <<>> \in Seq(Ids)
    OBVIOUS
  <2>2. PICK old \in SUBSET Ids : at = [e \in Ids |-> IF e \in old THEN 1 ELSE 0]
    BY DEF TelemetryInit
  <2> QED
    BY <2>1, <2>2 DEF TelemetryInit, HistoryTimes, NoFinding
<1>2. HistoryTimes /\ [TelemetryNext]_telemetryVars => HistoryTimes'
  BY CollectionKeepsTimes, ImportReopens, MigrationLeavesResolved DEF TelemetryNext
<1>3. HistoryTimes /\ [TelemetryNext]_telemetryVars =>
        [finding.state = "RESOLVED" /\ finding'.state # "RESOLVED" =>
            \E e \in ToSet(spool) : at[e] > finding.resolved_at]_telemetryVars
  BY CollectionKeepsTimes, ImportReopens, MigrationLeavesResolved DEF TelemetryNext
<1> QED
  BY <1>1, <1>2, <1>3, PTL DEF TelemetrySpec, ResolvedStaysResolved

-----------------------------------------------------------------------------
(* Recovery points.                                                          *)

Directory == [exists : BOOLEAN, snapshots : 0 .. SNAPSHOTS, status : {"none", "valid", "failed"}]
Process == [does : {"nothing", "snapshot", "plan", "clean", "fail"}, target : Nat, plan : SUBSET Points]

RecoveryType ==
    point \in [Points -> Directory] /\ made \in 0 .. MaxPoints /\ helper \in [Helpers -> Process]

Targets == {helper[h].target : h \in Helpers}
Planned == UNION {helper[h].plan : h \in Helpers}

(* A point is numbered once; the one a process still makes is its own, is    *)
(* not listed yet and in nobody's plan.                                      *)
TargetInv ==
    /\ \A p \in Points : p > made => point[p].status = "none" /\ p \notin Planned
    /\ \A h \in Helpers : helper[h].target \in 0 .. made
    /\ \A h \in Helpers : helper[h].does = "snapshot" =>
         helper[h].target # 0 /\ point[helper[h].target].status = "none" /\ helper[h].target \notin Planned
    /\ \A g, h \in Helpers : g # h /\ helper[g].target = helper[h].target => helper[g].target = 0

(* A point that can be relied on from now on: complete, in no plan, and not  *)
(* one that a process may still mark as failed.                              *)
Settled == Valid \ Targets
Reliable(q) == q \in Settled /\ Whole(q) /\ q \notin Planned

(* Every valid point is complete and in no plan, or is older than one that   *)
(* can be relied on.                                                         *)
BackedInv ==
    \A p \in Valid : (Whole(p) /\ p \notin Planned) \/ \E q \in Points : q > p /\ Reliable(q)

RecoveryInv == RecoveryType /\ TargetInv /\ BackedInv

(* What a step may do without harm: a point becomes valid when it is         *)
(* complete and unplanned, and those that can be relied on stay so.          *)
LEMMA BackedKept ==
    ASSUME BackedInv,
           \A p \in Points : p \in Valid' => p \in Valid \/ (Whole(p)' /\ p \notin Planned'),
           \A p \in Points : p \in Valid' /\ Whole(p) /\ p \notin Planned => Whole(p)' /\ p \notin Planned',
           \A q \in Points : Reliable(q) => Reliable(q)'
    PROVE  BackedInv'
<1> SUFFICES ASSUME NEW p \in Points, p \in Valid', ~(Whole(p)' /\ p \notin Planned')
             PROVE  \E q \in Points : q > p /\ Reliable(q)'
  BY DEF BackedInv, Valid
<1>1. PICK q \in Points : q > p /\ Reliable(q)
  BY DEF BackedInv
<1> QED
  BY <1>1

(* More points than processes: one of them is nobody's.                      *)
LEMMA SurplusIsBacked ==
    ASSUME RecoveryInv, IsFiniteSet(Helpers), Cardinality(Helpers) < KEEP_POINTS, NEW p \in Surplus
    PROVE  \E q \in Settled : q > p
<1> SUFFICES ASSUME Newer(p) \subseteq Targets PROVE FALSE
  BY DEF Newer, Settled
<1> DEFINE f == [h \in Helpers |-> helper[h].target]
<1>1. f \in Surjection(Helpers, Targets)
  BY DEF Surjection, Targets
<1>2. IsFiniteSet(Targets) /\ Cardinality(Targets) <= Cardinality(Helpers)
  <2> HIDE DEF f
  <2> QED
    BY <1>1, FS_Surjection
<1>3. IsFiniteSet(Newer(p)) /\ Cardinality(Newer(p)) <= Cardinality(Targets)
  BY <1>2, FS_Subset
<1>4. Cardinality(Newer(p)) \in Nat /\ Cardinality(Targets) \in Nat /\ Cardinality(Helpers) \in Nat
  BY <1>2, <1>3, FS_CardinalityType
<1>5. Cardinality(Newer(p)) >= KEEP_POINTS
  BY DEF Surplus
<1> QED
  BY <1>2, <1>3, <1>4, <1>5, RecoveryConstants

(* The newest point that is nobody's can be relied on, and is retained.      *)
LEMMA NewestIsRetained ==
    ASSUME RecoveryInv, IsFiniteSet(Helpers), Cardinality(Helpers) < KEEP_POINTS, Settled # {}
    PROVE  /\ Max(Settled) \in Settled /\ \A q \in Settled : q <= Max(Settled)
           /\ Reliable(Max(Settled)) /\ Max(Settled) \notin Surplus
<1>1. Settled \subseteq Nat /\ \A q \in Settled : q <= MaxPoints
  BY RecoveryConstants DEF Settled, Valid, Points
<1>2. Max(Settled) \in Settled /\ \A q \in Settled : q <= Max(Settled)
  BY <1>1, GreatestOf, RecoveryConstants
<1> DEFINE m == Max(Settled)
<1> HIDE DEF m
<1>3. m \in Settled /\ \A q \in Settled : ~(q > m)
  <2>1. m \in Settled /\ \A q \in Settled : q <= m
    BY <1>2 DEF m
  <2>2. ASSUME NEW q \in Settled PROVE ~(q > m)
    <3>1. q \in Nat /\ m \in Nat /\ q <= m
      BY <1>1, <2>1
    <3> QED
      BY ONLY <3>1
  <2> QED
    BY <2>1, <2>2
<1>4. m \in Valid
  BY <1>3 DEF Settled
<1>5. Whole(m) /\ m \notin Planned
  BY <1>3, <1>4 DEF RecoveryInv, BackedInv, Reliable
<1>6. m \notin Surplus
  BY <1>3, SurplusIsBacked
<1> QED
  BY <1>2, <1>3, <1>5, <1>6 DEF m, Reliable

(* What cleanup plans to delete leaves every valid point backed (cleanup).   *)
LEMMA PlanKeepsRecovery ==
    ASSUME RecoveryInv, IsFiniteSet(Helpers), Cardinality(Helpers) < KEEP_POINTS, NEW h \in Helpers, Plan(h)
    PROVE  RecoveryInv'
<1> DEFINE doomed == (Listed \ Valid) \cup Surplus
<1>1. /\ helper' = [helper EXCEPT ![h].does = "clean", ![h].plan = doomed] /\ point' = point /\ made' = made
      /\ helper[h].does = "plan"
  BY DEF Plan
<1>2. doomed \in SUBSET Points /\ \A p \in doomed : point[p].status # "none"
  BY DEF Listed, Surplus, Valid
<1>d. doomed \cap Valid = Surplus
  BY DEF Surplus
<1> HIDE DEF doomed
<1>3. RecoveryType'
  BY <1>1, <1>2 DEF RecoveryInv, RecoveryType, Process
<1>4. /\ \A g \in Helpers : helper'[g].target = helper[g].target /\ (g # h => helper'[g] = helper[g])
      /\ helper'[h].plan = doomed /\ helper'[h].does = "clean"
  BY <1>1 DEF RecoveryInv, RecoveryType, Process
<1>5. Planned' \subseteq Planned \cup doomed
  BY <1>4 DEF Planned
<1>6. TargetInv'
  <2>1. \A p \in Points : p > made => p \notin doomed
    BY <1>2 DEF RecoveryInv, TargetInv
  <2>2. \A g \in Helpers : helper'[g].does = "snapshot" => helper[g].does = "snapshot" /\ helper[g].target \notin doomed
    BY <1>2, <1>4 DEF RecoveryInv, TargetInv
  <2>3. \A p \in Points : p > made => point'[p].status = "none" /\ p \notin Planned'
    BY <1>1, <1>5, <2>1 DEF RecoveryInv, TargetInv
  <2>4. \A g \in Helpers : helper'[g].does = "snapshot" =>
          helper'[g].target # 0 /\ point'[helper'[g].target].status = "none" /\ helper'[g].target \notin Planned'
    BY <1>1, <1>4, <1>5, <2>2, ZenonT(40) DEF RecoveryInv, TargetInv
  <2>5. \A g \in Helpers : helper'[g].target \in 0 .. made'
    BY <1>1, <1>4 DEF RecoveryInv, TargetInv
  <2>6. \A g, k \in Helpers : g # k /\ helper'[g].target = helper'[k].target => helper'[g].target = 0
    BY <1>4 DEF RecoveryInv, TargetInv
  <2> QED
    BY <1>1, <2>3, <2>4, <2>5, <2>6 DEF TargetInv
<1>7. Valid' = Valid /\ Targets' = Targets /\ Settled' = Settled /\ \A p \in Points : Whole(p)' <=> Whole(p)
  <2>1. Targets' = Targets
    BY <1>4 DEF Targets
  <2> QED
    BY <1>1, <2>1 DEF Valid, Settled, Whole
<1>8. BackedInv'
  <2> SUFFICES ASSUME NEW p \in Valid, ~(Whole(p) /\ p \notin Planned')
               PROVE  \E q \in Points : q > p /\ Reliable(q)'
    BY <1>7 DEF BackedInv, Valid
  <2>1. \E q \in Settled : q > p
    <3>1. CASE p \in Surplus
      BY <3>1, SurplusIsBacked
    <3>2. CASE p \notin Surplus
      <4>1. ~(Whole(p) /\ p \notin Planned)
        BY <1>5, <1>d, <3>2
      <4> QED
        BY <4>1 DEF RecoveryInv, BackedInv, Reliable
    <3> QED
      BY <3>1, <3>2
  <2>2. PICK m : m \in Settled /\ (\A q \in Settled : q <= m) /\ Reliable(m) /\ m \notin Surplus
    BY <2>1, NewestIsRetained
  <2>3. m \in Points /\ p \in Points /\ m \in Valid
    BY <2>2 DEF Settled, Valid
  <2>4. m > p
    <3>1. PICK q \in Settled : q > p
      BY <2>1
    <3>2. q \in Nat /\ m \in Nat /\ p \in Nat /\ q <= m
      BY <2>2, <2>3, <3>1, RecoveryConstants DEF Settled, Valid, Points
    <3> QED
      BY <3>1, <3>2
  <2>5. Reliable(m)'
    BY <1>5, <1>7, <1>d, <2>2, <2>3 DEF Reliable
  <2> QED
    BY <2>3, <2>4, <2>5
<1> QED
  BY <1>3, <1>6, <1>8 DEF RecoveryInv

(* A process that ends, by itself or not, gives up its plan and its claim.   *)
LEMMA RestKeepsRecovery ==
    ASSUME RecoveryInv, NEW h \in Helpers, Rests(h), made' = made,
           \/ point' = point
           \/ helper[h].target # 0 /\ point' = [point EXCEPT ![helper[h].target].status = "failed"]
    PROVE  RecoveryInv'
<1> DEFINE t == helper[h].target
<1>1. helper' = [helper EXCEPT ![h] = Resting]
  BY DEF Rests
<1>2. /\ \A g \in Helpers : g # h => helper'[g] = helper[g]
      /\ helper'[h].target = 0 /\ helper'[h].plan = {} /\ helper'[h].does = "nothing"
  BY <1>1 DEF RecoveryInv, RecoveryType, Process, Resting
<1>3. \A g \in Helpers : helper'[g].plan \subseteq helper[g].plan /\ helper'[g].target \in {0, helper[g].target}
  BY <1>2
<1>4. Planned' \subseteq Planned
  BY <1>3 DEF Planned
<1>5. /\ \A p \in Points : p # t => point'[p] = point[p]
      /\ \A p \in Points : point'[p].snapshots = point[p].snapshots
      /\ \A p \in Points : point'[p].status \in {point[p].status, "failed"}
      /\ \A p \in Points : point'[p].status # point[p].status => p = t /\ t # 0
  BY DEF RecoveryInv, RecoveryType, Directory
<1>6. RecoveryType'
  <2>1. point' \in [Points -> Directory]
    BY DEF RecoveryInv, RecoveryType, Directory
  <2>2. helper' \in [Helpers -> Process]
    BY <1>1 DEF RecoveryInv, RecoveryType, Process, Resting
  <2> QED
    BY <2>1, <2>2 DEF RecoveryInv, RecoveryType
<1>7. TargetInv'
  <2>0. made \in Nat /\ t \in 0 .. made
    BY DEF RecoveryInv, RecoveryType, TargetInv
  <2>1. \A p \in Points : p > made => point'[p].status = "none" /\ p \notin Planned'
    BY <1>4, <1>5, <2>0 DEF RecoveryInv, TargetInv
  <2>2. ASSUME NEW g \in Helpers, helper'[g].does = "snapshot"
        PROVE  helper'[g].target # 0 /\ point'[helper'[g].target].status = "none" /\ helper'[g].target \notin Planned'
    <3>1. g # h /\ helper'[g] = helper[g]
      BY <1>2, <2>2
    <3>2. helper[g].target # 0 /\ point[helper[g].target].status = "none" /\ helper[g].target \notin Planned
      BY <2>2, <3>1 DEF RecoveryInv, TargetInv
    <3>3. helper[g].target # t /\ helper[g].target \in Points
      BY <3>1, <3>2, RecoveryConstants DEF RecoveryInv, RecoveryType, TargetInv, Points
    <3> QED
      BY <1>4, <1>5, <3>1, <3>2, <3>3
  <2>3. \A g \in Helpers : helper'[g].target \in 0 .. made
    BY <1>3, <2>0 DEF RecoveryInv, TargetInv
  <2>4. \A g, k \in Helpers : g # k /\ helper'[g].target = helper'[k].target => helper'[g].target = 0
    BY <1>2 DEF RecoveryInv, TargetInv
  <2> QED
    BY <2>1, <2>2, <2>3, <2>4 DEF TargetInv
<1>8. Valid' \subseteq Valid
  BY <1>5 DEF Valid
<1>9. \A p \in Points : p \in Valid' /\ Whole(p) => Whole(p)'
  BY <1>5 DEF Valid, Whole
<1>10. ASSUME NEW q \in Points, Reliable(q) PROVE Reliable(q)'
  <2>1. q \in Valid /\ q \notin Targets /\ q # 0 /\ q # t
    BY <1>10, RecoveryConstants DEF Reliable, Settled, Targets, Points
  <2>2. q \in Valid' /\ Whole(q)'
    BY <1>5, <1>10, <2>1 DEF Valid, Whole, Reliable
  <2>3. q \notin Targets'
    BY <1>3, <2>1 DEF Targets
  <2> QED
    BY <1>4, <1>10, <2>2, <2>3 DEF Reliable, Settled
<1>11. BackedInv'
  BY <1>4, <1>8, <1>9, <1>10, BackedKept DEF RecoveryInv
<1> QED
  BY <1>6, <1>7, <1>11 DEF RecoveryInv

(* A process changes what it does and keeps its target and its plan.         *)
LEMMA TurnKeepsRecovery ==
    ASSUME RecoveryInv, NEW h \in Helpers, NEW what \in {"plan", "fail"}, Does(h, what), made' = made, point' = point
    PROVE  RecoveryInv'
<1>1. helper' = [helper EXCEPT ![h].does = what]
  BY DEF Does
<1>2. /\ \A g \in Helpers : helper'[g].target = helper[g].target /\ helper'[g].plan = helper[g].plan
      /\ \A g \in Helpers : helper'[g].does = "snapshot" => helper[g].does = "snapshot"
  BY <1>1 DEF RecoveryInv, RecoveryType, Process
<1>3. Targets' = Targets /\ Planned' = Planned
  BY <1>2 DEF Targets, Planned
<1>4. RecoveryType'
  BY <1>1 DEF RecoveryInv, RecoveryType, Process
<1>5. TargetInv'
  BY <1>2, <1>3 DEF RecoveryInv, TargetInv
<1>6. BackedInv'
  BY <1>3 DEF RecoveryInv, BackedInv, Valid, Settled, Reliable, Whole
<1> QED
  BY <1>4, <1>5, <1>6 DEF RecoveryInv

(* create and cleanup begin: a new number, which nobody has planned.         *)
LEMMA BeginKeepsRecovery ==
    ASSUME RecoveryInv, NEW h \in Helpers, CreateBegins(h) \/ CleanupBegins(h)
    PROVE  RecoveryInv'
<1> DEFINE n == made + 1
<1>1. CASE CleanupBegins(h)
  <2>1. helper' = [helper EXCEPT ![h] = [does |-> "plan", target |-> 0, plan |-> {}]] /\ helper[h] = Resting
        /\ point' = point /\ made' = made
    BY <1>1 DEF CleanupBegins
  <2>2. /\ \A g \in Helpers : helper'[g].target = helper[g].target /\ helper'[g].plan = helper[g].plan
        /\ \A g \in Helpers : helper'[g].does = "snapshot" => helper[g].does = "snapshot"
    <3>1. helper'[h] = [does |-> "plan", target |-> 0, plan |-> {}] /\ \A g \in Helpers : g # h => helper'[g] = helper[g]
      BY <2>1 DEF RecoveryInv, RecoveryType
    <3>2. helper[h].target = 0 /\ helper[h].plan = {}
      BY <2>1 DEF Resting
    <3> QED
      BY <3>1, <3>2
  <2>3. Targets' = Targets /\ Planned' = Planned
    BY <2>2 DEF Targets, Planned
  <2>4. RecoveryType'
    BY <2>1 DEF RecoveryInv, RecoveryType, Process
  <2>5. TargetInv'
    BY <2>1, <2>2, <2>3 DEF RecoveryInv, TargetInv
  <2>6. BackedInv'
    BY <2>1, <2>3 DEF RecoveryInv, BackedInv, Valid, Settled, Reliable, Whole
  <2> QED
    BY <2>4, <2>5, <2>6 DEF RecoveryInv
<1>2. CASE CreateBegins(h)
  <2>1. /\ helper' = [helper EXCEPT ![h] = [does |-> "snapshot", target |-> n, plan |-> {}]]
        /\ point' = [point EXCEPT ![n] = [NoDirectory EXCEPT !.exists = TRUE]] /\ made' = n
        /\ helper[h] = Resting /\ made < MaxPoints
    BY <1>2 DEF CreateBegins
  <2>2. made \in Nat /\ n \in Points /\ n # 0 /\ n > made /\ n \in Nat
    BY <2>1, RecoveryConstants DEF RecoveryInv, RecoveryType, Points
  <2>3. [NoDirectory EXCEPT !.exists = TRUE] \in Directory /\ [NoDirectory EXCEPT !.exists = TRUE].status = "none"
    <3>1. NoDirectory \in Directory /\ NoDirectory.status = "none"
      BY DEF NoDirectory, Directory, SNAPSHOTS
    <3>2. [NoDirectory EXCEPT !.exists = TRUE] \in Directory
      BY <3>1 DEF Directory
    <3>3. [NoDirectory EXCEPT !.exists = TRUE].status = NoDirectory.status
      BY <3>1 DEF Directory
    <3> QED
      BY <3>1, <3>2, <3>3
  <2>4. /\ point'[n].status = "none" /\ point[n].status = "none" /\ \A p \in Points : p # n => point'[p] = point[p]
    BY <2>1, <2>2, <2>3 DEF RecoveryInv, RecoveryType, TargetInv
  <2>5. /\ \A g \in Helpers : g # h => helper'[g] = helper[g]
        /\ helper'[h].target = n /\ helper'[h].plan = {} /\ helper[h].plan = {} /\ helper[h].target = 0
    BY <2>1 DEF RecoveryInv, RecoveryType, Process, Resting
  <2>6. RecoveryType'
    <3>1. point' \in [Points -> Directory]
      BY <2>1, <2>3 DEF RecoveryInv, RecoveryType
    <3>2. helper' \in [Helpers -> Process] /\ made' \in 0 .. MaxPoints
      BY <2>1, <2>2 DEF RecoveryInv, RecoveryType, Process, Points
    <3> QED
      BY <3>1, <3>2 DEF RecoveryType
  <2>7. Planned' = Planned /\ n \notin Planned
    <3>1. \A g \in Helpers : helper'[g].plan = helper[g].plan
      BY <2>5
    <3> QED
      BY <2>2, <3>1 DEF RecoveryInv, TargetInv, Planned
  <2>8. TargetInv'
    <3>1. \A p \in Points : p > n => point'[p].status = "none" /\ p \notin Planned'
      BY <2>2, <2>4, <2>7 DEF RecoveryInv, TargetInv, Points
    <3>2. \A g \in Helpers : helper'[g].target \in 0 .. n
      BY <2>2, <2>5 DEF RecoveryInv, TargetInv
    <3>3. ASSUME NEW g \in Helpers, helper'[g].does = "snapshot"
          PROVE  helper'[g].target # 0 /\ point'[helper'[g].target].status = "none" /\ helper'[g].target \notin Planned'
      <4>1. CASE g = h
        BY <2>2, <2>4, <2>5, <2>7, <4>1
      <4>2. CASE g # h
        <5>1. helper'[g] = helper[g] /\ helper[g].target # 0 /\ helper[g].target \in 0 .. made
              /\ point[helper[g].target].status = "none" /\ helper[g].target \notin Planned
          BY <2>5, <3>3, <4>2 DEF RecoveryInv, TargetInv
        <5>2. helper[g].target \in Points /\ helper[g].target # n
          BY <2>1, <2>2, <5>1, RecoveryConstants DEF Points
        <5> QED
          BY <2>4, <2>7, <5>1, <5>2
      <4> QED
        BY <4>1, <4>2
    <3>4. \A g, k \in Helpers : g # k /\ helper'[g].target = helper'[k].target => helper'[g].target = 0
      <4>1. \A g \in Helpers : helper[g].target \in 0 .. made
        BY DEF RecoveryInv, TargetInv
      <4>2. \A g \in Helpers : helper[g].target # n
        BY <2>2, <4>1
      <4> QED
        BY <2>5, <4>2 DEF RecoveryInv, TargetInv
    <3> QED
      BY <2>1, <3>1, <3>2, <3>3, <3>4 DEF TargetInv
  <2>9. Valid' = Valid /\ (\A p \in Valid : Whole(p)' <=> Whole(p)) /\ n \notin Valid
    BY <2>4 DEF Valid, Whole
  <2>10. Targets' \subseteq Targets \cup {n}
    BY <2>5 DEF Targets
  <2>11. \A q \in Points : Reliable(q) => Reliable(q)'
    BY <2>7, <2>9, <2>10 DEF Reliable, Settled
  <2>12. BackedInv'
    BY <2>7, <2>9, <2>11, BackedKept DEF RecoveryInv
  <2> QED
    BY <2>6, <2>8, <2>12 DEF RecoveryInv
<1> QED
  BY <1>1, <1>2

(* The new point gets its snapshots and is published (create).               *)
LEMMA CreateKeepsRecovery ==
    ASSUME RecoveryInv, NEW h \in Helpers, TakeSnapshot(h) \/ Publish(h)
    PROVE  RecoveryInv'
<1>0. PICK t : t = helper[h].target
  OBVIOUS
<1>1. /\ helper[h].does = "snapshot" /\ made' = made /\ t # 0 /\ t \in Points /\ point[t].status = "none" /\ t \notin Planned
      /\ t \in Targets
  BY <1>0, RecoveryConstants DEF TakeSnapshot, Publish, RecoveryInv, RecoveryType, TargetInv, Points, Targets
<1>2. CASE Does(h, "fail") /\ point' = point
  BY <1>1, <1>2, TurnKeepsRecovery
<1>3. CASE TakeSnapshot(h) /\ point' = [point EXCEPT ![t].snapshots = @ + 1] /\ helper' = helper
  <2>1. point[t] \in Directory /\ point[t].snapshots < SNAPSHOTS
    BY <1>0, <1>1, <1>3 DEF TakeSnapshot, RecoveryInv, RecoveryType
  <2>2. RecoveryType'
    <3>1. [point[t] EXCEPT !.snapshots = @ + 1] \in Directory
      BY <2>1 DEF Directory, SNAPSHOTS
    <3>2. point' = [point EXCEPT ![t] = [point[t] EXCEPT !.snapshots = @ + 1]]
      BY <1>3
    <3> QED
      BY <1>1, <1>3, <3>1, <3>2 DEF RecoveryInv, RecoveryType
  <2>3. /\ \A p \in Points : point'[p].status = point[p].status
        /\ \A p \in Points : p # t => point'[p] = point[p]
    BY <1>3, <2>1 DEF RecoveryInv, RecoveryType, Directory
  <2>4. Targets' = Targets /\ Planned' = Planned
    BY <1>3 DEF Targets, Planned
  <2>5. TargetInv'
    <3>1. \A g \in Helpers : helper[g].does = "snapshot" => helper[g].target \in Points
      BY RecoveryConstants DEF RecoveryInv, RecoveryType, TargetInv, Points
    <3> QED
      BY <1>1, <1>3, <2>3, <2>4, <3>1 DEF RecoveryInv, TargetInv
  <2>6. Valid' = Valid /\ t \notin Valid /\ \A p \in Valid : Whole(p)' <=> Whole(p)
    BY <1>1, <2>3 DEF Valid, Whole
  <2>7. \A q \in Points : Reliable(q) => Reliable(q)'
    BY <2>4, <2>6 DEF Reliable, Settled
  <2>8. BackedInv'
    BY <2>4, <2>6, <2>7, BackedKept DEF RecoveryInv
  <2> QED
    BY <2>2, <2>5, <2>8 DEF RecoveryInv
<1>4. CASE Publish(h)
  <2>1. /\ point' = [point EXCEPT ![t].status = "valid"] /\ point[t].snapshots = SNAPSHOTS
        /\ helper' = [helper EXCEPT ![h].does = "plan"]
    BY <1>0, <1>4 DEF Publish, Does
  <2>2. RecoveryType'
    BY <1>1, <2>1, SMTT(30) DEF RecoveryInv, RecoveryType, Directory, Process
  <2>3. /\ \A p \in Points : p # t => point'[p] = point[p]
        /\ point'[t].status = "valid" /\ point'[t].snapshots = SNAPSHOTS
    BY <1>1, <2>1 DEF RecoveryInv, RecoveryType, Directory
  <2>4. /\ \A g \in Helpers : helper'[g].target = helper[g].target /\ helper'[g].plan = helper[g].plan
        /\ \A g \in Helpers : g # h => helper'[g] = helper[g]
        /\ helper'[h].does = "plan"
    BY <2>1 DEF RecoveryInv, RecoveryType, Process
  <2>5. Targets' = Targets /\ Planned' = Planned
    BY <2>4 DEF Targets, Planned
  <2>6. TargetInv'
    <3>1. t <= made /\ t \in Nat /\ made \in Nat
      BY <1>0, <1>1 DEF RecoveryInv, RecoveryType, TargetInv
    <3>2. \A p \in Points : p > made => point'[p].status = "none" /\ p \notin Planned'
      BY <2>3, <2>5, <3>1 DEF RecoveryInv, TargetInv
    <3>3. ASSUME NEW g \in Helpers, helper'[g].does = "snapshot"
          PROVE  helper'[g].target # 0 /\ point'[helper'[g].target].status = "none" /\ helper'[g].target \notin Planned'
      <4>1. g # h /\ helper'[g] = helper[g]
        BY <2>4, <3>3
      <4>2. helper[g].target # 0 /\ point[helper[g].target].status = "none" /\ helper[g].target \notin Planned
        BY <3>3, <4>1 DEF RecoveryInv, TargetInv
      <4>3. helper[g].target # t /\ helper[g].target \in Points
        BY <1>0, <1>1, <4>1, <4>2, RecoveryConstants DEF RecoveryInv, RecoveryType, TargetInv, Points
      <4> QED
        BY <2>3, <2>5, <4>1, <4>2, <4>3
    <3>4. /\ \A g \in Helpers : helper'[g].target \in 0 .. made
          /\ \A g, k \in Helpers : g # k /\ helper'[g].target = helper'[k].target => helper'[g].target = 0
      BY <2>4 DEF RecoveryInv, TargetInv
    <3> QED
      BY <1>1, <3>2, <3>3, <3>4 DEF TargetInv
  <2>7. Valid' = Valid \cup {t} /\ t \notin Valid /\ Whole(t)' /\ (\A p \in Valid : Whole(p)' <=> Whole(p))
    BY <1>1, <2>3 DEF Valid, Whole
  <2>8. \A q \in Points : Reliable(q) => Reliable(q)'
    BY <2>5, <2>7 DEF Reliable, Settled
  <2>9. BackedInv'
    BY <1>1, <2>5, <2>7, <2>8, BackedKept DEF RecoveryInv
  <2> QED
    BY <2>2, <2>6, <2>9 DEF RecoveryInv
<1> QED
  BY <1>0, <1>2, <1>3, <1>4 DEF TakeSnapshot

(* The point that cleanup takes next is one of its plan.                     *)
LEMMA NextIsPlanned ==
    ASSUME RecoveryInv, NEW h \in Helpers, helper[h].plan # {}
    PROVE  Next1(helper[h].plan) \in helper[h].plan /\ Next1(helper[h].plan) \in Points /\ Next1(helper[h].plan) \in Planned
<1> DEFINE plan == helper[h].plan
           failed == {p \in plan : point[p].status # "valid"}
<1>1. plan \subseteq Points
  BY DEF RecoveryInv, RecoveryType, Process
<1>2. \A S : S \subseteq plan /\ S # {} => Max(S) \in plan
  <2> SUFFICES ASSUME NEW S, S \subseteq plan, S # {} PROVE Max(S) \in plan
    OBVIOUS
  <2>1. S \subseteq Nat /\ MaxPoints \in Nat /\ \A x \in S : x <= MaxPoints
    BY <1>1, RecoveryConstants DEF Points
  <2> QED
    BY <2>1, GreatestOf
<1>3. Next1(plan) = IF failed # {} THEN Max(failed) ELSE Max(plan)
  BY DEF Next1
<1>4. failed \subseteq plan /\ plan \subseteq plan
  OBVIOUS
<1>5. Next1(plan) \in plan
  <2> HIDE DEF failed, plan
  <2>1. plan # {}
    BY DEF plan
  <2> QED
    BY <1>2, <1>3, <1>4, <2>1
<1> QED
  BY <1>1, <1>5 DEF Planned

(* A deletion: of a planned point only, which is not one to be relied on.    *)
LEMMA CleanKeepsRecovery ==
    ASSUME RecoveryInv, NEW h \in Helpers, Clean(h)
    PROVE  RecoveryInv'
<1>0. PICK p : p = Next1(helper[h].plan)
  OBVIOUS
<1>1. helper[h].does = "clean" /\ helper[h].plan # {} /\ made' = made
  BY DEF Clean
<1>2. p \in helper[h].plan /\ p \in Points /\ p \in Planned
  BY <1>0, <1>1, NextIsPlanned
<1>3. CASE Does(h, "fail") /\ point' = point
  BY <1>1, <1>3, TurnKeepsRecovery
<1>4. CASE \/ helper' = helper /\ point[p].snapshots > 0 /\ point' = [point EXCEPT ![p].snapshots = @ - 1]
           \/ helper' = [helper EXCEPT ![h].plan = @ \ {p}] /\ point' = [point EXCEPT ![p] = NoDirectory]
  <2>1. /\ \A g \in Helpers : helper'[g].target = helper[g].target /\ helper'[g].does = helper[g].does
        /\ \A g \in Helpers : helper'[g].plan \subseteq helper[g].plan
    BY <1>4 DEF RecoveryInv, RecoveryType, Process
  <2>2. /\ \A q \in Points : q # p => point'[q] = point[q]
        /\ point'[p].status \in {point[p].status, "none"}
    BY <1>2, <1>4 DEF RecoveryInv, RecoveryType, Directory, NoDirectory
  <2>3. RecoveryType'
    <3>1. point' \in [Points -> Directory]
      <4>1. point[p] \in Directory /\ NoDirectory \in Directory
        BY <1>2 DEF RecoveryInv, RecoveryType, Directory, NoDirectory, SNAPSHOTS
      <4>2. point[p].snapshots > 0 => [point[p] EXCEPT !.snapshots = @ - 1] \in Directory
        BY <4>1 DEF Directory, SNAPSHOTS
      <4>3. \/ point[p].snapshots > 0 /\ point' = [point EXCEPT ![p] = [point[p] EXCEPT !.snapshots = @ - 1]]
            \/ point' = [point EXCEPT ![p] = NoDirectory]
        BY <1>4
      <4> QED
        BY <1>2, <4>1, <4>2, <4>3 DEF RecoveryInv, RecoveryType
    <3>2. helper' \in [Helpers -> Process]
      <4>1. CASE helper' = helper
        BY <4>1 DEF RecoveryInv, RecoveryType
      <4>2. CASE helper' = [helper EXCEPT ![h].plan = @ \ {p}]
        BY <4>2 DEF RecoveryInv, RecoveryType, Process
      <4> QED
        BY <1>4, <4>1, <4>2
    <3> QED
      BY <1>1, <3>1, <3>2 DEF RecoveryInv, RecoveryType
  <2>4. Targets' = Targets /\ Planned' \subseteq Planned
    BY <2>1 DEF Targets, Planned
  <2>5. TargetInv'
    <3>1. \A q \in Points : q > made => point'[q].status = "none" /\ q \notin Planned'
      BY <2>2, <2>4 DEF RecoveryInv, TargetInv
    <3>2. ASSUME NEW g \in Helpers, helper'[g].does = "snapshot"
          PROVE  helper'[g].target # 0 /\ point'[helper'[g].target].status = "none" /\ helper'[g].target \notin Planned'
      <4>1. helper[g].target # 0 /\ point[helper[g].target].status = "none" /\ helper[g].target \notin Planned
        BY <2>1, <3>2 DEF RecoveryInv, TargetInv
      <4>2. helper[g].target # p /\ helper[g].target \in Points
        BY <1>2, <4>1, RecoveryConstants DEF RecoveryInv, RecoveryType, TargetInv, Points
      <4> QED
        BY <2>1, <2>2, <2>4, <4>1, <4>2
    <3>3. /\ \A g \in Helpers : helper'[g].target \in 0 .. made
          /\ \A g, k \in Helpers : g # k /\ helper'[g].target = helper'[k].target => helper'[g].target = 0
      BY <2>1 DEF RecoveryInv, TargetInv
    <3> QED
      BY <1>1, <3>1, <3>2, <3>3 DEF TargetInv
  <2>6. Valid' \subseteq Valid /\ \A q \in Valid : q # p => q \in Valid' /\ (Whole(q)' <=> Whole(q))
    BY <2>2 DEF Valid, Whole
  <2>7. ASSUME NEW q \in Points, Reliable(q) PROVE Reliable(q)'
    BY <1>2, <2>4, <2>6, <2>7 DEF Reliable, Settled
  <2>8. \A q \in Points : q \in Valid' /\ Whole(q) /\ q \notin Planned => Whole(q)' /\ q \notin Planned'
    BY <1>2, <2>4, <2>6
  <2>9. BackedInv'
    BY <2>6, <2>7, <2>8, BackedKept DEF RecoveryInv
  <2> QED
    BY <2>3, <2>5, <2>9 DEF RecoveryInv
<1> QED
  BY <1>0, <1>3, <1>4 DEF Clean

(* Only cleanup takes a snapshot of a valid point, and a newer one can be    *)
(* relied on.                                                                *)
LEMMA DeletionIsBacked ==
    ASSUME RecoveryInv, NEW h \in Helpers,
           \/ CreateBegins(h) \/ TakeSnapshot(h) \/ Publish(h) \/ CreateFails(h)
           \/ CleanupBegins(h) \/ Plan(h) \/ Clean(h) \/ CleanEnds(h) \/ HelperDies(h),
           NEW p \in Points, point[p].status = "valid", point'[p].snapshots < point[p].snapshots
    PROVE  \E q \in Newer(p) : Whole(q)
<1>0. point \in [Points -> Directory] /\ point[p] \in Directory /\ p \in Valid
  BY DEF RecoveryInv, RecoveryType, Valid
<1>1. CASE CleanupBegins(h) \/ Plan(h) \/ CleanEnds(h) \/ HelperDies(h)
  BY <1>0, <1>1 DEF CleanupBegins, Plan, CleanEnds, HelperDies, Directory, SNAPSHOTS
<1>2. CASE CreateBegins(h)
  <2>1. made + 1 > made /\ made \in Nat
    BY DEF RecoveryInv, RecoveryType
  <2>2. p # made + 1
    BY <2>1 DEF RecoveryInv, TargetInv
  <2> QED
    BY <1>0, <1>2, <2>2 DEF CreateBegins, Directory, SNAPSHOTS
<1>3. CASE TakeSnapshot(h)
  BY <1>0, <1>3 DEF TakeSnapshot, Directory, SNAPSHOTS
<1>4. CASE Publish(h) \/ CreateFails(h)
  BY <1>0, <1>4 DEF Publish, CreateFails, Directory, SNAPSHOTS
<1>5. CASE Clean(h)
  <2>0. PICK c : c = Next1(helper[h].plan)
    OBVIOUS
  <2>1. \/ point' = point \/ point' = [point EXCEPT ![c].snapshots = @ - 1] \/ point' = [point EXCEPT ![c] = NoDirectory]
    BY <1>5, <2>0 DEF Clean
  <2>2. p = c
    BY <1>0, <2>1 DEF Directory, SNAPSHOTS
  <2>3. p \in Planned
    BY <1>5, <2>0, <2>2, NextIsPlanned DEF Clean
  <2>4. PICK q \in Points : q > p /\ Reliable(q)
    BY <1>0, <2>3 DEF RecoveryInv, BackedInv
  <2> QED
    BY <2>4 DEF Reliable, Settled, Newer
<1> QED
  BY <1>1, <1>2, <1>3, <1>4, <1>5

(* Cleanup never takes the last point that could be relied on, for any       *)
(* number of points and of processes below KEEP_POINTS (3 in the code) that  *)
(* create and clean up at the same time, fail or die at any step: a process  *)
(* may still mark the point it made as failed, so as many others must stay   *)
(* (cleanup, create).                                                        *)
THEOREM LastPointIsKept ==
    ASSUME IsFiniteSet(Helpers), Cardinality(Helpers) < KEEP_POINTS
    PROVE  RecoverySpec => CompletePointKept
<1>1. RecoveryInit => RecoveryInv
  <2> SUFFICES ASSUME RecoveryInit PROVE RecoveryInv
    OBVIOUS
  <2>1. RecoveryType
    BY RecoveryConstants DEF RecoveryInit, RecoveryType, Directory, Process, NoDirectory, Resting, SNAPSHOTS
  <2>2. Planned = {} /\ Valid = {}
    BY DEF RecoveryInit, Planned, Valid, NoDirectory, Resting
  <2>3. TargetInv
    BY <2>2 DEF RecoveryInit, TargetInv, NoDirectory, Resting
  <2> QED
    BY <2>1, <2>2, <2>3 DEF RecoveryInv, BackedInv
<1>2. RecoveryInv /\ [RecoveryNext]_recoveryVars => RecoveryInv'
  <2> SUFFICES ASSUME RecoveryInv, [RecoveryNext]_recoveryVars PROVE RecoveryInv'
    OBVIOUS
  <2>1. CASE UNCHANGED recoveryVars
    BY <2>1 DEF recoveryVars, RecoveryInv, RecoveryType, TargetInv, BackedInv, Targets, Planned, Settled, Reliable, Valid, Whole
  <2>2. ASSUME NEW h \in Helpers, CreateFails(h) \/ CleanEnds(h) \/ HelperDies(h) PROVE RecoveryInv'
    <3>1. /\ Rests(h) /\ made' = made
          /\ \/ point' = point
             \/ helper[h].target # 0 /\ point' = [point EXCEPT ![helper[h].target].status = "failed"]
      BY <2>2 DEF CreateFails, CleanEnds, HelperDies
    <3> QED
      BY <3>1, RestKeepsRecovery
  <2> QED
    BY <2>1, <2>2, BeginKeepsRecovery, CreateKeepsRecovery, PlanKeepsRecovery, CleanKeepsRecovery DEF RecoveryNext
<1>3. RecoveryInv /\ [RecoveryNext]_recoveryVars =>
        [\A p \in Points : (point[p].status = "valid" /\ point'[p].snapshots < point[p].snapshots)
            => \E q \in Newer(p) : Whole(q)]_recoveryVars
  BY DeletionIsBacked DEF RecoveryNext
<1> QED
  BY <1>1, <1>2, <1>3, PTL DEF RecoverySpec, CompletePointKept
=============================================================================
