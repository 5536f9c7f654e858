---------------------------- MODULE Notifications ----------------------------
(***************************************************************************)
(* Delivery of security notices (notification_router.py, shell_runtime.py,   *)
(* with the projections they deliver: shell_summary.py, shell_experience.py, *)
(* security_notices.py, scan_notices.py, intelligence_notices.py).  A worker *)
(* thread collects the conditions, the main loop publishes them and brings   *)
(* the desktop's notifications in line, one D-Bus call after another, while  *)
(* the desktop's notification server may go away and come back.             *)
(*                                                                         *)
(* Four conditions stand for the kinds that are delivered differently: a    *)
(* behavioural incident whose severity rises and falls, a blocked USB device *)
(* (kept on the screen while USBGuard cannot be read), a protection warning  *)
(* that must last before it is shown, and a daily update reminder.          *)
(***************************************************************************)
EXTENDS Naturals, Sequences, FiniteSets, SequencesExt, TLC

CONSTANTS
    Conditions,       \* the ones that occur, of the four
    DAY,              \* 86400 s
    STABILITY,        \* notification_stability_seconds
    MaxClock,         \* bound on the clock
    MaxNotification,  \* bound on the ids one server gives
    MaxOwners         \* bound on the servers that are started

ASSUME NotificationConstants ==
    /\ Conditions \subseteq {"incident", "usb", "provider", "updates-security"}
    /\ {DAY, STABILITY, MaxClock, MaxNotification, MaxOwners} \subseteq Nat \ {0}

VARIABLES
    clock,
    server,      \* the notification server: owner (0: none), the next id
    signals,     \* NotificationClosed signals on their way: <<owner, id>>
    runtime,     \* ShellRuntime: what it does, the items it has, the snapshot
    router,      \* NotificationRouter
    ledger,      \* the file in XDG_RUNTIME_DIR
    reminded,    \* the reminders file
    delivered    \* when the reminder was last on the screen; lost: and its time not saved

noticeVars == <<clock, server, signals, runtime, router, ledger, reminded, delivered>>

-----------------------------------------------------------------------------

\* The severities a condition can have; "NONE" when it does not hold.
Severities == [incident |-> {"WARNING", "CRITICAL"}, usb |-> {"ACTION"}, provider |-> {"WARNING"}] @@
              ("updates-security" :> {"INFO"})
NoItemRecord == [item |-> "NONE", id |-> 0, signature |-> "NONE", acknowledged |-> FALSE]
NoItems == [c \in Conditions |-> "NONE"]
NoItemRecords == [c \in Conditions |-> NoItemRecord]
Never == 0

\* A "STALE" item is the last confirmed one, shown as unconfirmed.
Item == {"NONE", "STALE", "INFO", "WARNING", "ACTION", "CRITICAL"}
Record == [item : Item, id : 0 .. MaxNotification, signature : Item, acknowledged : BOOLEAN]

NoticeTypeOK ==
    /\ clock \in 1 .. MaxClock /\ reminded \in 0 .. MaxClock
    /\ server \in [owner : 0 .. MaxOwners, started : 0 .. MaxOwners, next : 1 .. MaxNotification + 1]
    /\ signals \subseteq ((1 .. MaxOwners) \X (1 .. MaxNotification))
    /\ runtime \in [phase : {"idle", "collected", "reconciling"}, items : [Conditions -> Item],
                    snapshot : SUBSET Conditions, since : 0 .. MaxClock, todo : Seq(Conditions)]
    /\ router \in [records : [Conditions -> Record], owner : 0 .. MaxOwners, connected : BOOLEAN, reminder : 0 .. MaxClock]
    /\ ledger \in [records : [Conditions -> Record], owner : 0 .. MaxOwners]
    /\ delivered \in [at : 0 .. MaxClock, lost : BOOLEAN]

NoticeInit ==
    /\ clock = 1
    /\ server = [owner |-> 1, started |-> 1, next |-> 1] /\ signals = {}
    /\ runtime = [phase |-> "idle", items |-> NoItems, snapshot |-> {}, since |-> Never, todo |-> <<>>]
    /\ router = [records |-> NoItemRecords, owner |-> 0, connected |-> FALSE, reminder |-> Never]
    /\ ledger = [records |-> NoItemRecords, owner |-> 0]
    /\ reminded = Never /\ delivered = [at |-> Never, lost |-> FALSE]

-----------------------------------------------------------------------------
(* The world.                                                               *)

TimePasses ==
    /\ clock < MaxClock /\ clock' = clock + 1
    /\ UNCHANGED <<server, signals, runtime, router, ledger, reminded, delivered>>

ServerExits ==
    /\ server.owner # 0 /\ server' = [server EXCEPT !.owner = 0]
    /\ UNCHANGED <<clock, signals, runtime, router, ledger, reminded, delivered>>

ServerStarts ==
    /\ server.owner = 0 /\ server.started < MaxOwners
    /\ server' = [owner |-> server.started + 1, started |-> server.started + 1, next |-> 1]
    /\ UNCHANGED <<clock, signals, runtime, router, ledger, reminded, delivered>>

\* The user dismisses a notification, or it expires (one signal at a time).
UserDismisses(c) ==
    /\ signals = {}
    /\ server.owner # 0 /\ router.owner = server.owner /\ router.records[c].id # 0
    /\ signals' = signals \cup {<<server.owner, router.records[c].id>>}
    /\ UNCHANGED <<clock, server, runtime, router, ledger, reminded, delivered>>

-----------------------------------------------------------------------------
(* Collection.                                                              *)

\* previous of _collect: the snapshot's items, or after a restart the ledger's.
Previous(c) == IF runtime.snapshot = {} THEN router.records[c].item # "NONE" ELSE c \in runtime.snapshot

\* build_experience: any conditions may hold by now; a device that cannot be
\* read is what it was.
Observed == {items \in [Conditions -> Item] : \A c \in Conditions :
    items[c] \in {"NONE"} \cup Severities[c] \cup (IF c = "usb" /\ Previous(c) THEN {"STALE"} ELSE {})}

\* _collect: one thread, and only one at a time.
Collect ==
    /\ runtime.phase = "idle"
    /\ \E items \in Observed : runtime' = [runtime EXCEPT !.phase = "collected", !.items = items]
    /\ UNCHANGED <<clock, server, signals, router, ledger, reminded, delivered>>

\* An exception: _failed.
CollectFails ==
    /\ runtime.phase = "collected"
    /\ runtime' = [runtime EXCEPT !.phase = "idle", !.items = NoItems]
    /\ UNCHANGED <<clock, server, signals, router, ledger, reminded, delivered>>

\* eligible_items: since when the warning has been there without a gap.
Since == IF "provider" \notin Conditions \/ runtime.items["provider"] = "NONE" THEN Never
         ELSE IF runtime.since = Never THEN clock ELSE runtime.since
Eligible(c) == runtime.items[c] # "NONE" /\ (c = "provider" => clock - Since >= STABILITY)

Rank(c) == CASE runtime.items[c] = "CRITICAL" -> 0 [] runtime.items[c] \in {"ACTION", "STALE"} -> 1
             [] runtime.items[c] = "WARNING" -> 2 [] OTHER -> 3

\* _connect: a new server has none of our notifications.
ConnectedRecords ==
    IF router.owner = server.owner THEN router.records
    ELSE [c \in Conditions |-> [router.records[c] EXCEPT !.id = 0]]

\* _publish, and the first part of reconcile: the records of what is no
\* longer there are dropped and their notifications closed.
PublishItems ==
    /\ runtime.phase = "collected"
    /\ LET todo == SetToSortSeq({c \in Conditions : Eligible(c)}, LAMBDA c, d : Rank(c) < Rank(d))
           published == [runtime EXCEPT !.snapshot = {c \in Conditions : runtime.items[c] # "NONE"}, !.since = Since]
       IN \/ /\ server.owner = 0
             /\ runtime' = [published EXCEPT !.phase = "idle"]
             /\ router' = [router EXCEPT !.connected = FALSE]
          \/ /\ server.owner # 0
             /\ runtime' = [published EXCEPT !.phase = "reconciling", !.todo = todo]
             /\ router' = [router EXCEPT !.owner = server.owner, !.connected = TRUE,
                    !.records = [c \in Conditions |-> IF Eligible(c) THEN ConnectedRecords[c] ELSE NoItemRecord]]
    /\ UNCHANGED <<clock, server, signals, ledger, reminded, delivered>>

-----------------------------------------------------------------------------
(* reconcile, item by item.                                                  *)

Reminder(c) == c = "updates-security"

\* A reminder is due a day after the last; an acknowledged item again when it
\* became critical; any other when it changed or is not on the screen.
Due(c, old, current) ==
    IF Reminder(c) THEN router.reminder = Never \/ clock - router.reminder >= DAY
    ELSE /\ router.records[c].acknowledged => current = "CRITICAL" /\ old # "CRITICAL"
         /\ ~(router.records[c].signature = current /\ router.records[c].id # 0)

Skip(c, current) ==
    /\ router' = [router EXCEPT !.records[c].item = current]
    /\ runtime' = [runtime EXCEPT !.todo = Tail(@)]
    /\ UNCHANGED <<server, reminded, delivered>>

\* The server shows the notification, under the id it has or a new one.
ShownAs(c) == IF router.records[c].id # 0 THEN router.records[c].id ELSE server.next

Shows(c) ==
    /\ server.owner = router.owner /\ ShownAs(c) <= MaxNotification
    /\ server' = [server EXCEPT !.next = IF ShownAs(c) = @ THEN @ + 1 ELSE @]

\* Notify returned: the id is remembered, a reminder's time saved.  The save
\* may fail, silently.
Notified(c, current) ==
    /\ Shows(c)
    /\ router' = [router EXCEPT !.records[c] = [item |-> current, id |-> ShownAs(c), signature |-> current, acknowledged |-> FALSE],
                                !.reminder = IF Reminder(c) THEN clock ELSE @]
    /\ runtime' = [runtime EXCEPT !.todo = Tail(@)]
    /\ IF Reminder(c)
       THEN \/ reminded' = clock /\ delivered' = [at |-> clock, lost |-> FALSE]
            \/ UNCHANGED reminded /\ delivered' = [at |-> clock, lost |-> TRUE]
       ELSE UNCHANGED <<reminded, delivered>>

\* Notify failed, or got no answer in four seconds: the rest is left.
Unanswered(c, current) ==
    /\ router' = [router EXCEPT !.records[c].item = current, !.connected = FALSE]
    /\ runtime' = [runtime EXCEPT !.todo = <<>>]
    /\ UNCHANGED reminded

NotifyFails(c, current) == Unanswered(c, current) /\ UNCHANGED <<server, delivered>>

\* The server shows it, and answers too late.
NotifyTimesOut(c, current) ==
    /\ Unanswered(c, current) /\ Shows(c)
    /\ delivered' = IF Reminder(c) THEN [at |-> clock, lost |-> TRUE] ELSE delivered

Deliver ==
    /\ runtime.phase = "reconciling" /\ runtime.todo # <<>>
    /\ LET c == Head(runtime.todo)
           current == runtime.items[c]
       IN \/ ~Due(c, router.records[c].item, current) /\ Skip(c, current)
          \/ /\ Due(c, router.records[c].item, current)
             /\ (Notified(c, current) \/ NotifyFails(c, current) \/ NotifyTimesOut(c, current))
    /\ UNCHANGED <<clock, signals, ledger>>

\* _save: the whole ledger, replaced.  One that fails leaves what a service
\* that dies before it leaves.
LedgerSaved == ledger' = [records |-> router'.records, owner |-> router'.owner]

EndReconcile ==
    /\ runtime.phase = "reconciling" /\ runtime.todo = <<>>
    /\ runtime' = [runtime EXCEPT !.phase = "idle", !.items = NoItems]
    /\ UNCHANGED router /\ LedgerSaved
    /\ UNCHANGED <<clock, server, signals, reminded, delivered>>

\* _closed, from the main loop: an id of another server is not ours.
Closed(signal) ==
    /\ runtime.phase # "reconciling" /\ signal \in signals
    /\ signals' = signals \ {signal}
    /\ router' = [router EXCEPT !.records = [c \in Conditions |->
            IF router.owner = signal[1] /\ @[c].id = signal[2] THEN [@[c] EXCEPT !.id = 0, !.acknowledged = TRUE] ELSE @[c]]]
    /\ LedgerSaved
    /\ UNCHANGED <<clock, server, runtime, reminded, delivered>>

-----------------------------------------------------------------------------

\* Fault: the reminders are read from the delivery ledger of the session.
RemindedFromLedger(login) == IF login THEN Never ELSE reminded

\* __init__ reads the file under XDG_STATE_HOME.
Reminded(login) == reminded

\* The service is started again, or the user logs in again, which empties
\* XDG_RUNTIME_DIR.
Restart(login) ==
    LET kept == IF login THEN [records |-> NoItemRecords, owner |-> 0] ELSE ledger IN
    /\ ledger' = kept
    /\ router' = [records |-> kept.records, owner |-> kept.owner, connected |-> FALSE, reminder |-> Reminded(login)]
    /\ runtime' = [phase |-> "idle", items |-> NoItems, snapshot |-> {}, since |-> Never, todo |-> <<>>]
    /\ signals' = {}
    /\ UNCHANGED <<clock, server, reminded, delivered>>

NoticeNext ==
    \/ TimePasses \/ ServerExits \/ ServerStarts
    \/ Collect \/ CollectFails \/ PublishItems \/ Deliver \/ EndReconcile
    \/ \E c \in Conditions : UserDismisses(c)
    \/ \E signal \in signals : Closed(signal)
    \/ Restart(TRUE) \/ Restart(FALSE)

NoticeSpec == NoticeInit /\ [][NoticeNext]_noticeVars

-----------------------------------------------------------------------------

(* "A new login/provider flap cannot bypass the daily reminder limit": an    *)
(* update reminder comes at least a day after the last, whatever is          *)
(* restarted, closed or withdrawn between them, if the last one's time was   *)
(* saved: it is not when the save fails, or when the server shows the        *)
(* reminder and its answer comes too late (reconcile, _save_reminders).      *)
OneReminderADay ==
    [][delivered'.at # delivered.at /\ delivered.at # Never /\ ~delivered.lost =>
        delivered'.at - delivered.at >= DAY]_noticeVars

(* The same comment, taken at its word.                                      *)
RemindersAreADayApart ==
    [][delivered'.at # delivered.at /\ delivered.at # Never => delivered'.at - delivered.at >= DAY]_noticeVars

(* "Critical escalation can reopen an acknowledged item"                     *)
(* (docs/security-context/LIVE_PRIVACY_CAPSULE.md): an incident that was     *)
(* acknowledged as a warning and is critical now is on the screen whenever   *)
(* reconcile has just gone through all items with a server that answered.    *)
EscalationIsShown ==
    [][EndReconcile /\ router.connected
        /\ router.records["incident"].item = "CRITICAL" /\ router.records["incident"].signature = "WARNING"
        => router.records["incident"].id # 0]_noticeVars
=============================================================================
