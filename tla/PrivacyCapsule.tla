--------------------------- MODULE PrivacyCapsule ---------------------------
(***************************************************************************)
(* The live privacy capsule of the session service: the PipeWire monitor    *)
(* (sensors.py), the portal and clipboard observers and the refresh of      *)
(* user_bus.py, the projection of privacy_capsule.py, and the notices of a  *)
(* sensor's start (security_notices.py).  The main loop and the collector   *)
(* thread of shell_runtime.py refresh the capsule at the same time: only    *)
(* its update is under a lock, not the fields one thread writes and both    *)
(* read; and a refresh in which anything raises is dropped.  A camera is    *)
(* observed like a microphone, and the projections of USB and Secure DNS    *)
(* are those of their own modules.                                          *)
(***************************************************************************)
EXTENDS Naturals, FiniteSets, Sequences, Functions

CONSTANTS
    SensorKinds,        \* microphone and screen-share, or one of them
    Apps,               \* the applications that may use a sensor
    MaxChanges,         \* bound on what the user and the programs do
    MAX_RECENT_EVENTS,
    MAX_SHOWN           \* the sensors, and the screen shares, that are kept of a graph

ASSUME CapsuleConstants == MaxChanges \in Nat /\ MAX_RECENT_EVENTS \in Nat \ {0} /\ MAX_SHOWN \in Nat \ {0}

VARIABLES
    changes,        \* what happened so far, counted
    graph,          \* PipeWire's graph: the uses there are; and how often each began and ended
    monitor,        \* PipeWireMonitor: _objects in their order, _error, and whether pw-dump runs
    portal,         \* PortalContext.available
    failing,        \* one of the other sources that a refresh reads may raise
    clipboard,      \* what it holds, the observer and its line, clipboard_category
    sensors,        \* SensorContext: last_sensors and last_screen_shares, last_error
    refresher,      \* the main loop and the collector: where each is in a refresh
    callback,       \* _on_privacy_source_changed waits for the main loop
    capsule,        \* PrivacyCapsule: the live generations, the states, the recent events
    starts          \* SensorStarts.active, the preference, the notices of each use

capsuleVars == <<changes, graph, monitor, portal, failing, clipboard, sensors, refresher, callback, capsule, starts>>

Uses == SensorKinds \X Apps
Clipboard == <<"clipboard", "any">>
SignalIds == Uses \cup {Clipboard}
Refreshers == {"main", "collector"}
Microphones == {u \in Uses : u[1] = "microphone"}
Shares == {u \in Uses : u[1] = "screen-share"}
Waiting == [at |-> "idle", error |-> FALSE, states |-> <<>>, live |-> {}]
NoLine == "none"

CapsuleTypeOK ==
    /\ changes \in 0 .. MaxChanges
    /\ graph.uses \subseteq Uses /\ graph.began \in [Uses -> Nat] /\ graph.ended \in [Uses -> Nat]
    /\ monitor.objects \in Seq(Uses) /\ {monitor.error, monitor.running} \subseteq BOOLEAN
    /\ {portal, failing, callback} \subseteq BOOLEAN
    /\ clipboard \in [holds : BOOLEAN, copied : BOOLEAN, watched : BOOLEAN, category : BOOLEAN,
                      line : {NoLine, "first", "sensitive", "plain"}]
    /\ sensors \in [active : SUBSET Uses, error : BOOLEAN]
    /\ capsule.live \in [SignalIds -> Nat] /\ capsule.generations \in [SignalIds -> Nat]
    /\ Len(capsule.recent) <= MAX_RECENT_EVENTS
    /\ starts.notices \in [Uses -> Nat] /\ starts.enabled \in BOOLEAN /\ starts.active \subseteq Microphones

\* The monitor has produced no graph yet, or could not be started.
CapsuleInit ==
    /\ changes = 0
    /\ graph = [uses |-> {}, began |-> [u \in Uses |-> 0], ended |-> [u \in Uses |-> 0]]
    /\ monitor \in [objects : {<<>>}, error : {TRUE}, running : BOOLEAN]
    /\ portal = TRUE /\ failing = FALSE /\ callback = FALSE
    /\ clipboard = [holds |-> FALSE, copied |-> FALSE, watched |-> TRUE, category |-> FALSE, line |-> "first"]
    /\ sensors = [active |-> {}, error |-> TRUE]
    /\ refresher = [r \in Refreshers |-> Waiting]
    /\ capsule = [live |-> [s \in SignalIds |-> 0], states |-> <<>>, generations |-> [s \in SignalIds |-> 0],
                  recent |-> <<>>, initialized |-> FALSE]
    /\ starts = [known |-> FALSE, active |-> {}, enabled |-> FALSE, notices |-> [u \in Uses |-> 0]]

-----------------------------------------------------------------------------
\* What the capsule observes.

Happens == changes < MaxChanges /\ changes' = changes + 1

StartUse(u) ==
    /\ Happens /\ u \notin graph.uses
    /\ graph' = [graph EXCEPT !.uses = @ \cup {u}, !.began[u] = @ + 1]
    /\ UNCHANGED <<monitor, portal, failing, clipboard, sensors, refresher, callback, capsule, starts>>

StopUse(u) ==
    /\ Happens /\ u \in graph.uses
    /\ graph' = [graph EXCEPT !.uses = @ \ {u}, !.ended[u] = @ + 1]
    /\ UNCHANGED <<monitor, portal, failing, clipboard, sensors, refresher, callback, capsule, starts>>

\* _apply: what pw-dump printed; observe_activity keeps the active links into
\* running capture streams, of which one is a use.  What is known keeps its place.
Orders(S) == {q \in [1 .. Cardinality(S) -> S] : IsInjective(q)}
MonitorReports ==
    /\ monitor.running /\ (monitor.error \/ Range(monitor.objects) # graph.uses)
    /\ \E new \in Orders(graph.uses \ Range(monitor.objects)) :
         monitor' = [monitor EXCEPT !.objects = SelectSeq(@, LAMBDA u : u \in graph.uses) \o new, !.error = FALSE]
    /\ callback' = TRUE
    /\ UNCHANGED <<changes, graph, portal, failing, clipboard, sensors, refresher, capsule, starts>>

\* Fault: the end of the monitor is not recorded.
MonitorStopsQuietly ==
    /\ Happens /\ monitor.running
    /\ monitor' = [monitor EXCEPT !.running = FALSE]
    /\ callback' = TRUE
    /\ UNCHANGED <<graph, portal, failing, clipboard, sensors, refresher, capsule, starts>>

\* _read: pw-dump ends; start does not start another.
MonitorStops ==
    /\ Happens /\ monitor.running
    /\ monitor' = [monitor EXCEPT !.running = FALSE, !.error = TRUE]
    /\ callback' = TRUE
    /\ UNCHANGED <<graph, portal, failing, clipboard, sensors, refresher, capsule, starts>>

\* PortalContext._refresh: its name on the bus gets or loses its owner.
PortalChanges ==
    /\ Happens
    /\ portal' = ~portal /\ callback' = TRUE
    /\ UNCHANGED <<graph, monitor, failing, clipboard, sensors, refresher, capsule, starts>>

\* The Secure DNS service, systemd or the bus: what a refresh asks beside its sensors.
SourceFailsOrRecovers ==
    /\ Happens
    /\ failing' = ~failing
    /\ UNCHANGED <<graph, monitor, portal, clipboard, sensors, refresher, callback, capsule, starts>>

\* The user copies: clipboard_watch classifies it, and prints the category.
\* One line at most is on its way.
Copy ==
    /\ Happens /\ clipboard.line = NoLine
    /\ \E sensitive \in BOOLEAN :
         clipboard' = [clipboard EXCEPT !.holds = sensitive, !.copied = TRUE,
                         !.line = IF ~clipboard.watched THEN NoLine ELSE IF sensitive THEN "sensitive" ELSE "plain"]
    /\ UNCHANGED <<graph, monitor, portal, failing, sensors, refresher, callback, capsule, starts>>

\* ClipboardObserver._read: wl-paste ends, and so does the thread; available stays.
ObserverEnds ==
    /\ Happens /\ clipboard.watched /\ clipboard.line = NoLine
    /\ clipboard' = [clipboard EXCEPT !.watched = FALSE]
    /\ UNCHANGED <<graph, monitor, portal, failing, sensors, refresher, callback, capsule, starts>>

SetSensorStartNotifications ==
    /\ Happens
    /\ starts' = [starts EXCEPT !.enabled = ~@]
    /\ UNCHANGED <<graph, monitor, portal, failing, clipboard, sensors, refresher, callback, capsule>>

-----------------------------------------------------------------------------
\* A refresh.

At(r, step) == refresher[r].at = step
Goes(r, step) == refresher' = [refresher EXCEPT ![r].at = step]
SourcesUnchanged == UNCHANGED <<changes, graph, monitor, portal, failing>>

\* _on_privacy_source_changed, from the main loop.
SourceChanged ==
    /\ callback /\ At("main", "idle")
    /\ callback' = FALSE /\ Goes("main", "snapshot")
    /\ SourcesUnchanged /\ UNCHANGED <<clipboard, sensors, capsule, starts>>

\* The observer's line, then _on_clipboard_category; the first is what the
\* clipboard held when the observer started, and is passed over.
ClipboardCategory ==
    /\ clipboard.line # NoLine /\ At("main", "idle")
    /\ clipboard' = [clipboard EXCEPT !.line = NoLine,
                       !.category = IF clipboard.line = "first" THEN @ ELSE clipboard.line = "sensitive"]
    /\ IF clipboard.line = "first" THEN UNCHANGED refresher ELSE Goes("main", "snapshot")
    /\ SourcesUnchanged /\ UNCHANGED <<sensors, callback, capsule, starts>>

\* ClearClipboard: of an event that is shown; wl-copy runs while the user goes on.
ClearClipboard ==
    /\ At("main", "idle") /\ capsule.live[Clipboard] > 0
    /\ changes < MaxChanges /\ changes' = changes + 1
    /\ Goes("main", "clearing")
    /\ UNCHANGED <<graph, monitor, portal, failing, clipboard, sensors, callback, capsule, starts>>

ClipboardCleared ==
    /\ At("main", "clearing")
    /\ \/ /\ clipboard' = [clipboard EXCEPT !.holds = FALSE]
          /\ Goes("main", "cleared")
       \/ Goes("main", "idle") /\ UNCHANGED clipboard       \* wl-copy failed
    /\ SourcesUnchanged /\ UNCHANGED <<sensors, callback, capsule, starts>>

ForgetCategory ==
    /\ At("main", "cleared")
    /\ clipboard' = [clipboard EXCEPT !.category = FALSE]
    /\ Goes("main", "snapshot")
    /\ SourcesUnchanged /\ UNCHANGED <<sensors, callback, capsule, starts>>

\* ShellRuntime._collect: GetPrivacyCapsule, every tick.
CollectorTicks ==
    /\ At("collector", "idle") /\ Goes("collector", "snapshot")
    /\ SourcesUnchanged /\ UNCHANGED <<clipboard, sensors, callback, capsule, starts>>

\* observe_activity: the first eight of each list.
FirstOf(list) == {list[i] : i \in {i \in 1 .. Len(list) : i <= MAX_SHOWN}}
Kept == FirstOf(SelectSeq(monitor.objects, LAMBDA u : u \notin Shares))
          \cup FirstOf(SelectSeq(monitor.objects, LAMBDA u : u \in Shares))

\* PipeWireMonitor.snapshot: under its lock; an error shows no use.
Snapshot(r) ==
    /\ At(r, "snapshot")
    /\ refresher' = [refresher EXCEPT ![r] = [@ EXCEPT !.at = "observe", !.error = monitor.error,
                                                !.live = IF monitor.error THEN {} ELSE Kept]]
    /\ SourcesUnchanged /\ UNCHANGED <<clipboard, sensors, callback, capsule, starts>>

\* SensorContext.observe: last_sensors, last_screen_shares and last_error, one
\* after another, over what another thread wrote.
Observe(r) ==
    /\ At(r, "observe")
    /\ sensors' = [sensors EXCEPT !.active = (@ \cap Shares) \cup (refresher[r].live \ Shares)]
    /\ Goes(r, "shares")
    /\ SourcesUnchanged /\ UNCHANGED <<clipboard, callback, capsule, starts>>

ObserveShares(r) ==
    /\ At(r, "shares")
    /\ sensors' = [sensors EXCEPT !.active = (@ \ Shares) \cup (refresher[r].live \cap Shares)]
    /\ Goes(r, "error")
    /\ SourcesUnchanged /\ UNCHANGED <<clipboard, callback, capsule, starts>>

ObserveError(r) ==
    /\ At(r, "error")
    /\ sensors' = [sensors EXCEPT !.error = refresher[r].error]
    /\ refresher' = [refresher EXCEPT ![r] = [Waiting EXCEPT !.at = "inputs"]]
    /\ SourcesUnchanged /\ UNCHANGED <<clipboard, callback, capsule, starts>>

\* _capsule_inputs: the error is read first, what was observed after it.
ReadError(r) ==
    /\ At(r, "inputs")
    /\ refresher' = [refresher EXCEPT ![r] = [@ EXCEPT !.at = "uses", !.error = sensors.error]]
    /\ SourcesUnchanged /\ UNCHANGED <<clipboard, sensors, callback, capsule, starts>>

\* A kind's state: unavailable, or what is observed.
KindState(k, error) ==
    CASE error \/ (k = "screen-share" /\ ~portal) -> "UNAVAILABLE"
      [] \E u \in sensors.active : u[1] = k -> "ACTIVE"
      [] OTHER -> "INACTIVE"

ReadInputs(r) ==
    LET states == [k \in SensorKinds \cup {"clipboard"} |->
                     IF k = "clipboard" THEN (IF clipboard.category THEN "ACTIVE" ELSE "INACTIVE")
                     ELSE KindState(k, refresher[r].error)]
    IN /\ At(r, "uses")
       /\ refresher' = [refresher EXCEPT ![r] =
              [at |-> "update", error |-> FALSE, states |-> states,
               live |-> {u \in sensors.active : states[u[1]] = "ACTIVE"}
                        \cup (IF clipboard.category THEN {Clipboard} ELSE {})]]
       /\ SourcesUnchanged /\ UNCHANGED <<clipboard, sensors, callback, capsule, starts>>

\* refresh_privacy_capsule: an exception ends the refresh, and nothing tells.
RefreshFails(r) ==
    /\ At(r, "uses") /\ failing
    /\ refresher' = [refresher EXCEPT ![r] = IF r = "main" THEN Waiting ELSE [Waiting EXCEPT !.at = "notices"]]
    /\ SourcesUnchanged /\ UNCHANGED <<clipboard, sensors, callback, capsule, starts>>

\* _add_event, of each signal in turn.
Event(s, generation, transition) == [signal_id |-> s, generation |-> generation, transition |-> transition]
LastEvents(events) ==
    IF Len(events) <= MAX_RECENT_EVENTS THEN events
    ELSE SubSeq(events, Len(events) - MAX_RECENT_EVENTS + 1, Len(events))
InSomeOrder(S) == CHOOSE q \in Orders(S) : TRUE

\* PrivacyCapsule.update: a signal that was not live gets the next generation
\* and an event, one that is no longer live an event, but for the first update.
Updated(live, states, recent) ==
    LET new == {s \in live : capsule.live[s] = 0}
        gone == {s \in SignalIds \ live : capsule.live[s] > 0}
        next == [s \in SignalIds |-> capsule.generations[s] + (IF s \in new THEN 1 ELSE 0)]
        events == InSomeOrder({Event(s, next[s], "ACTIVE") : s \in new})
                    \o InSomeOrder({Event(s, capsule.live[s], "CLEARED") : s \in gone})
    IN [live |-> [s \in SignalIds |-> IF s \in new THEN next[s] ELSE IF s \in live THEN capsule.live[s] ELSE 0],
        states |-> states, generations |-> next, initialized |-> TRUE,
        recent |-> IF capsule.initialized THEN LastEvents(recent \o events) ELSE recent]

\* _prune_events: the events of more than a minute ago go.
Update(r) ==
    /\ At(r, "update")
    /\ \E expired \in 0 .. Len(capsule.recent) :
         capsule' = Updated(refresher[r].live, refresher[r].states, SubSeq(capsule.recent, expired + 1, Len(capsule.recent)))
    /\ refresher' = [refresher EXCEPT ![r] = IF r = "main" THEN Waiting ELSE [Waiting EXCEPT !.at = "notices"]]
    /\ SourcesUnchanged /\ UNCHANGED <<clipboard, sensors, callback, starts>>

\* PrivacyCapsule.snapshot: the signals that are shown as live.
ShownLive == {s \in SignalIds : capsule.live[s] > 0}

\* SensorStarts.collect, on the snapshot that GetPrivacyCapsule returned: a
\* source that was lost is not a stop.
CollectStarts ==
    LET active == Microphones \cap ShownLive
        started == IF starts.known THEN active \ starts.active ELSE {}
    IN /\ At("collector", "notices") /\ Goes("collector", "idle")
       /\ starts' = IF ~capsule.initialized \/ "microphone" \notin SensorKinds \/ capsule.states["microphone"] = "UNAVAILABLE"
                    THEN starts
                    ELSE [starts EXCEPT !.known = TRUE, !.active = active,
                            !.notices = [u \in Uses |-> @[u] + (IF u \in started /\ starts.enabled THEN 1 ELSE 0)]]
       /\ SourcesUnchanged /\ UNCHANGED <<clipboard, sensors, callback, capsule>>

Refresh(r) ==
    \/ Snapshot(r) \/ Observe(r) \/ ObserveShares(r) \/ ObserveError(r)
    \/ ReadError(r) \/ ReadInputs(r) \/ RefreshFails(r) \/ Update(r)

\* What the main loop and the collector do when nobody asks them for more.
MainLoop ==
    SourceChanged \/ ClipboardCategory \/ ClipboardCleared \/ ForgetCategory \/ Refresh("main")
Collector == CollectorTicks \/ Refresh("collector") \/ CollectStarts

CapsuleNext ==
    \/ \E u \in Uses : StartUse(u) \/ StopUse(u)
    \/ MonitorReports \/ MonitorStops \/ PortalChanges \/ SourceFailsOrRecovers \/ Copy \/ ObserverEnds
    \/ SetSensorStartNotifications \/ ClearClipboard \/ MainLoop \/ Collector

\* pw-dump reports, and the two threads go on: a refresh that has begun is gone
\* through to its end, which may be a failure.
CapsuleFairness ==
    WF_capsuleVars(MonitorReports) /\ WF_capsuleVars(MainLoop) /\ WF_capsuleVars(Collector)

CapsuleSpec == CapsuleInit /\ [][CapsuleNext]_capsuleVars /\ CapsuleFairness

-----------------------------------------------------------------------------

Unavailable(k) == capsule.initialized /\ capsule.states[k] = "UNAVAILABLE"

\* u is one of the first, or all the uses that share a list with it are kept.
Fits(u) == u \in Kept \/ Cardinality({v \in graph.uses : v \in Shares <=> u \in Shares}) <= MAX_SHOWN

(* What lasts is shown, whichever thread's refresh wrote last and however     *)
(* the fields they share were torn, once no other source raises: every        *)
(* sensor of a lost monitor as unavailable, and the screen of a lost portal;  *)
(* a use that goes on as active, when it is one of the first the list holds;  *)
(* and a sensitive copy while its observer lives (refresh_privacy_capsule,    *)
(* SensorContext.observe, observe_activity, PrivacyCapsule.update).           *)
SourcesAreShown ==
    /\ <>[](~monitor.running /\ ~failing) => \A k \in SensorKinds : <>[]Unavailable(k)
    /\ <>[](~portal /\ ~failing) => \A k \in SensorKinds \cap {"screen-share"} : <>[]Unavailable(k)
    /\ \A u \in Uses :
         <>[](u \in graph.uses /\ Fits(u) /\ monitor.running /\ (u \in Shares => portal) /\ ~failing) => <>[](u \in ShownLive)
    /\ <>[](clipboard.holds /\ clipboard.copied /\ clipboard.watched /\ ~failing) => <>[](Clipboard \in ShownLive)

(* "a missing monitor or Portal owner is explicitly UNAVAILABLE"              *)
(* (LIVE_PRIVACY_CAPSULE.md).  It does not hold: while another source raises, *)
(* every refresh is dropped and the capsule stays as it was.                  *)
MissingMonitorIsUnavailable == <>[](~monitor.running) => \A k \in SensorKinds : <>[]Unavailable(k)

(* "The service never converts stale, unavailable, or deferred evidence into  *)
(* an inactive assertion" (LIVE_PRIVACY_CAPSULE.md): a use whose end is       *)
(* reported has ended.  A use is reported as cleared when its monitor stops.  *)
ClearedHasEnded ==
    \A i \in 1 .. Len(capsule.recent) :
        LET e == capsule.recent[i]
        IN e.signal_id \in Uses /\ e.transition = "CLEARED" => graph.ended[e.signal_id] >= e.generation

(* "A confirmed new per-application sensor use produces one short             *)
(* informational notification; refreshes ... do not replay it"                *)
(* (LIVE_PRIVACY_CAPSULE.md).  It does not hold: a refresh of the main loop   *)
(* that read an older graph may be applied after the collector's.             *)
OneNoticePerUse == \A u \in Uses : starts.notices[u] <= graph.began[u]
=============================================================================
