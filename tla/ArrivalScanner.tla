--------------------------- MODULE ArrivalScanner ---------------------------
(***************************************************************************)
(* Background scans of arriving files (arrival_scanner.py).  The session    *)
(* service watches home directories and mounted USB volumes.  An arrival    *)
(* reaches the durable queue by a file monitor event, which is only in      *)
(* memory, or by a walk of its root, which considers what changed since the *)
(* root's watermark and advances the watermark when it is done.  One thread *)
(* owns the queue; events, mounts, the user and a restart interleave with   *)
(* it at every step.                                                        *)
(*                                                                         *)
(* A file is its change time, 0 when it is absent; the clock advances with  *)
(* every change.  Settling, back-off and the 600 seconds between walks are  *)
(* times a step may happen at.  The scan is asked for and answered by       *)
(* ClamAvScan1: a valid receipt is about the present content.               *)
(***************************************************************************)
EXTENDS Naturals, FiniteSets, FiniteSetsExt

CONSTANTS
    Files,
    RootOf,      \* [Files -> {"home", "usb"}]
    MAX_QUEUE,   \* 8192 per priority in the code
    MAX_EVENTS,  \* 2048 in the code
    MaxClock     \* bound on the changes

ASSUME ArrivalConstants ==
    /\ IsFiniteSet(Files) /\ RootOf \in [Files -> {"home", "usb"}]
    /\ MAX_QUEUE \in Nat /\ MAX_EVENTS \in Nat /\ MaxClock \in Nat

VARIABLES
    clock,
    changed_at,   \* mtime or ctime of each file, 0 when absent
    mounted,      \* _roots
    events,       \* _events, filled by the file monitors
    walks,        \* _walks: the walk under way of each root
    arrivals,     \* table arrivals
    watermarks,   \* table watermarks
    batch,        \* table inflight: the paths of the scan under way
    checked,      \* the files whose present content has a receipt
    passedOver    \* history: the files a walk or ready lost to an error or a limit

arrivalVars == <<clock, changed_at, mounted, events, walks, arrivals, watermarks, batch, checked, passedOver>>

-----------------------------------------------------------------------------

Roots == {"home", "usb"}
Fixed == {"home"}

NoRow == [signature |-> 0, done |-> 0, priority |-> 0]
NoWalk == [started |-> 0, since |-> 0, read |-> FALSE, entries |-> {}]
Queued == {f \in Files : arrivals[f] # NoRow}

ArrivalTypeOK ==
    /\ clock \in 1..MaxClock /\ changed_at \in [Files -> 0..MaxClock] /\ checked \subseteq Files
    /\ mounted \subseteq Roots /\ Fixed \subseteq mounted
    /\ events \subseteq Files /\ batch \subseteq Files /\ passedOver \subseteq Files
    /\ Cardinality(events) <= MAX_EVENTS
    /\ arrivals \in [Files -> [signature : 0..MaxClock, done : 0..2, priority : 0..1]]
    /\ \A p \in 0..1 : Cardinality({f \in Queued : arrivals[f].priority = p}) <= MAX_QUEUE
    /\ watermarks \in [Roots -> 0..MaxClock]
    /\ walks \in [Roots -> [started : 0..MaxClock, since : 0..MaxClock, read : BOOLEAN, entries : SUBSET Files]]

\* First start: the home watermark is now, an unknown root's is 0.
ArrivalInit ==
    /\ clock = 1 /\ changed_at = [f \in Files |-> 0] /\ checked = {}
    /\ mounted = Fixed
    /\ events = {} /\ batch = {} /\ passedOver = {}
    /\ walks = [r \in Roots |-> NoWalk]
    /\ arrivals = [f \in Files |-> NoRow]
    /\ watermarks = [r \in Roots |-> IF r \in Fixed THEN 1 ELSE 0]

-----------------------------------------------------------------------------
(* The queue.                                                               *)

\* A full class makes room by forgetting a finished row.
Evictable(priority) == {f \in Queued : arrivals[f].priority = priority /\ arrivals[f].done # 0}

\* ArrivalQueue.observe returns False: no room in the file's class.
Full(f, priority) ==
    /\ arrivals[f] = NoRow \/ arrivals[f].priority # priority
    /\ Cardinality({g \in Queued : arrivals[g].priority = priority}) >= MAX_QUEUE

Rank(f, priority) == IF arrivals[f] = NoRow THEN priority ELSE Max({priority, arrivals[f].priority})

\* ArrivalQueue.observe: the row takes the present signature; a row that
\* already has it keeps its result.
Observed(f, priority) ==
    LET rank == Rank(f, priority)
        row == [signature |-> changed_at[f], done |-> 0, priority |-> rank]
        same == arrivals[f].signature = changed_at[f] /\ arrivals[f].priority = rank
    IN IF changed_at[f] = 0 \/ (arrivals[f] # NoRow /\ same) THEN UNCHANGED arrivals
       ELSE IF ~Full(f, rank) THEN arrivals' = [arrivals EXCEPT ![f] = row]
       ELSE \E g \in Evictable(rank) : arrivals' = [arrivals EXCEPT ![g] = NoRow, ![f] = row]

Refused(f, priority) ==
    changed_at[f] # 0 /\ Full(f, Rank(f, priority)) /\ Evictable(Rank(f, priority)) = {}

-----------------------------------------------------------------------------
(* The passes of _worker.                                                   *)

\* A pass takes the events; the scanner does not answer, or its definitions
\* are not current, and they are gone.
PassFails ==
    /\ batch = {} /\ events # {}
    /\ events' = {}
    /\ UNCHANGED <<clock, changed_at, mounted, walks, arrivals, watermarks, batch, checked, passedOver>>

\* observe(path, ..., priority=1), whose result a live event ignores.  Events
\* are taken only between scans.
ObserveEvent(f) ==
    /\ batch = {} /\ f \in events
    /\ events' = events \ {f}
    /\ IF RootOf[f] \in mounted /\ ~Refused(f, 1) THEN Observed(f, 1) ELSE UNCHANGED arrivals
    /\ UNCHANGED <<clock, changed_at, mounted, walks, watermarks, batch, checked, passedOver>>

\* _walk: the start time is noted, the directory is read later.
StartWalk(r) ==
    /\ batch = {} /\ r \in mounted /\ walks[r] = NoWalk
    /\ walks' = [walks EXCEPT ![r] = [NoWalk EXCEPT !.started = clock, !.since = watermarks[r]]]
    /\ UNCHANGED <<clock, changed_at, mounted, events, arrivals, watermarks, batch, checked, passedOver>>

\* What changed since the watermark, when the directory is read.
Recent(r) == {f \in Files : RootOf[f] = r /\ changed_at[f] # 0 /\ changed_at[f] >= walks[r].since}

\* _walk_entries: one reading of each directory, the old entries left out.
\* What is in a directory whose listing fails (an entry removed while it is
\* listed is enough), or beyond the limits on entries and on pending
\* directories, is not yielded, and the walk goes on.
ReadDirectory(r) ==
    /\ batch = {} /\ walks[r] # NoWalk /\ ~walks[r].read
    /\ \E lost \in SUBSET Recent(r) :
         /\ walks' = [walks EXCEPT ![r].read = TRUE, ![r].entries = Recent(r) \ lost]
         /\ passedOver' = (passedOver \ Recent(r)) \cup lost
    /\ UNCHANGED <<clock, changed_at, mounted, events, arrivals, watermarks, batch, checked>>

\* Fault: an entry the full queue refuses is dropped from the walk.
CursorDropped(r, f) == walks[r].entries \ {f}

\* A refused entry stays at the cursor.
Cursor(r, f) == IF Refused(f, IF r \in Fixed THEN 1 ELSE 0) THEN walks[r].entries ELSE walks[r].entries \ {f}

\* _walk_step, one entry.
WalkEntry(r) ==
    /\ batch = {} /\ r \in mounted /\ walks[r].read
    /\ \E f \in walks[r].entries :
         LET priority == IF r \in Fixed THEN 1 ELSE 0 IN
         /\ IF Refused(f, priority) THEN UNCHANGED arrivals ELSE Observed(f, priority)
         /\ walks' = [walks EXCEPT ![r].entries = Cursor(r, f)]
    /\ UNCHANGED <<clock, changed_at, mounted, events, watermarks, batch, checked, passedOver>>

\* The iterator has given the entry, and its file cannot be examined just then
\* (observe returns True) or the database fails (the pass ends, the iterator
\* stays): nothing is recorded of it.
WalkEntryFails(r) ==
    /\ batch = {} /\ r \in mounted /\ walks[r].read
    /\ \E f \in walks[r].entries :
         /\ walks' = [walks EXCEPT ![r].entries = @ \ {f}]
         /\ passedOver' = IF changed_at[f] = 0 THEN passedOver ELSE passedOver \cup {f}
    /\ UNCHANGED <<clock, changed_at, mounted, events, arrivals, watermarks, batch, checked>>

\* StopIteration: the watermark moves to the time the walk began (less one
\* second, below this model's unit of time), unless the database fails.  The
\* walk of a root that is gone is dropped without moving it.
EndWalk(r) ==
    /\ batch = {} /\ walks[r] # NoWalk
    /\ \/ /\ r \in mounted /\ walks[r].read /\ walks[r].entries = {}
          /\ watermarks' = [watermarks EXCEPT ![r] = walks[r].started]
       \/ r \in mounted /\ walks[r].read /\ walks[r].entries = {} /\ UNCHANGED watermarks
       \/ r \notin mounted /\ UNCHANGED watermarks
    /\ walks' = [walks EXCEPT ![r] = NoWalk]
    /\ UNCHANGED <<clock, changed_at, mounted, events, arrivals, batch, checked, passedOver>>

\* definitions_changed: every row is to be scanned again.
DefinitionsChanged ==
    /\ batch = {}
    /\ arrivals' = [f \in Files |-> IF arrivals[f] = NoRow THEN NoRow ELSE [arrivals[f] EXCEPT !.done = 0]]
    /\ UNCHANGED <<clock, changed_at, mounted, events, walks, watermarks, batch, checked, passedOver>>

Ready == {f \in Queued : arrivals[f].done = 0 /\ RootOf[f] \in mounted /\ changed_at[f] = arrivals[f].signature}

\* ready: rows without a root, and those whose file is gone or cannot be
\* examined just then (unseen), are dropped, changed ones observed again; then
\* StartScan with the rest, in the background.
StartBatch ==
    /\ batch = {}
    /\ \E unseen \in SUBSET {f \in Queued : arrivals[f].done = 0 /\ RootOf[f] \in mounted /\ changed_at[f] # 0} :
         /\ batch' = Ready \ unseen
         /\ passedOver' = passedOver \cup unseen
         /\ arrivals' = [f \in Files |->
              IF f \notin Queued \/ arrivals[f].done # 0 THEN arrivals[f]
              ELSE IF RootOf[f] \notin mounted \/ changed_at[f] = 0 \/ f \in unseen THEN NoRow
              ELSE IF changed_at[f] # arrivals[f].signature
                   THEN [arrivals[f] EXCEPT !.signature = changed_at[f], !.done = 0]
              ELSE arrivals[f]]
    /\ arrivals' # arrivals \/ batch' # {}
    /\ UNCHANGED <<clock, changed_at, mounted, events, walks, watermarks, checked>>

\* The scan ended: each file by its own receipt.  VALID ends it, an engine
\* limit ends it until the file changes, anything else is tried again.
EndBatch ==
    /\ batch # {}
    /\ \E valid \in SUBSET {f \in batch : changed_at[f] # 0}, limit \in SUBSET batch :
         /\ valid \cap limit = {}
         /\ arrivals' = [f \in Files |->
              IF f \notin batch \/ arrivals[f] = NoRow THEN arrivals[f]
              ELSE [arrivals[f] EXCEPT !.done = IF f \in valid THEN 1 ELSE IF f \in limit THEN 2 ELSE 0]]
         /\ checked' = checked \cup {f \in valid \cup limit : changed_at[f] # 0}
    /\ batch' = {}
    /\ UNCHANGED <<clock, changed_at, mounted, events, walks, watermarks, passedOver>>

-----------------------------------------------------------------------------
(* The rest of the session.                                                 *)

Noticed(f) == IF Cardinality(events) < MAX_EVENTS THEN events \cup {f} ELSE events

\* A file arrives or changes; its monitor reports it unless it was missed.
Arrive(f) ==
    /\ clock < MaxClock
    /\ clock' = clock + 1
    /\ changed_at' = [changed_at EXCEPT ![f] = clock + 1]
    /\ \/ RootOf[f] \in mounted /\ events' = Noticed(f)
       \/ UNCHANGED events
    /\ passedOver' = passedOver \ {f} /\ checked' = checked \ {f}
    /\ UNCHANGED <<mounted, walks, arrivals, watermarks, batch>>

Remove(f) ==
    /\ changed_at[f] # 0
    /\ changed_at' = [changed_at EXCEPT ![f] = 0]
    /\ passedOver' = passedOver \ {f} /\ checked' = checked \ {f}
    /\ UNCHANGED <<clock, mounted, events, walks, arrivals, watermarks, batch>>

\* _refresh_mounts.
Mount(r) ==
    /\ r \notin Fixed
    /\ mounted' = IF r \in mounted THEN mounted \ {r} ELSE mounted \cup {r}
    /\ UNCHANGED <<clock, changed_at, events, walks, arrivals, watermarks, batch, checked, passedOver>>

\* The session service dies; the queue, the watermarks and inflight stay.
ArrivalRestart ==
    /\ events' = {} /\ walks' = [r \in Roots |-> NoWalk]
    /\ UNCHANGED <<clock, changed_at, mounted, arrivals, watermarks, batch, checked, passedOver>>

ArrivalNext ==
    \/ PassFails \/ DefinitionsChanged \/ StartBatch \/ EndBatch \/ ArrivalRestart
    \/ \E f \in Files : ObserveEvent(f) \/ Arrive(f) \/ Remove(f)
    \/ \E r \in Roots : StartWalk(r) \/ ReadDirectory(r) \/ WalkEntry(r) \/ WalkEntryFails(r) \/ EndWalk(r) \/ Mount(r)

ArrivalSpec == ArrivalInit /\ [][ArrivalNext]_arrivalVars

-----------------------------------------------------------------------------

\* The file's present content was scanned, is queued, or is not older than
\* the watermark, so that every later walk of its root considers it.
Accounted(f) ==
    \/ f \in checked
    \/ arrivals[f].signature = changed_at[f] /\ arrivals[f].done = 0
    \/ changed_at[f] >= watermarks[RootOf[f]]

(* No arrival in a home directory is forgotten, whatever events are missed   *)
(* or lost, however full the queue is and whenever the service restarts,     *)
(* except for what a failed listing, a limit or a failed examination passed  *)
(* over: it was scanned as it is now, waits in the queue, or is due in the   *)
(* next walk (observe, ready, _walk_step, walked).                           *)
HomeArrivalIsNotForgotten ==
    \A f \in Files \ passedOver : RootOf[f] \in Fixed /\ changed_at[f] > 1 => Accounted(f)

(* "Persistent traversal watermarks catch changes during downtime"           *)
(* (FILE_SECURITY.md), without that exception: the watermark also moves past *)
(* what the walk passed over.                                                *)
EveryHomeArrivalIsScanned ==
    \A f \in Files : RootOf[f] \in Fixed /\ changed_at[f] > 1 => Accounted(f)

(* The same on a USB volume while it is mounted: "a newly mounted USB volume *)
(* is enumerated" (FILE_SECURITY.md).                                        *)
MountedArrivalIsNotForgotten ==
    \A f \in Files \ passedOver : RootOf[f] \in mounted /\ changed_at[f] > 1 => Accounted(f)
=============================================================================
