--------------------------- MODULE StartupChanges ---------------------------
(***************************************************************************)
(* The inspection of the user's startup files (persistence.py): a scan      *)
(* fingerprints the approved surfaces, compares them with the baseline it   *)
(* kept, and replaces the baseline, the changes of the last five minutes    *)
(* with it.  GetSummary scans under the lock of its cache, GetWeeklySummary *)
(* without one (user_bus.py): two scans may overlap, over one baseline and  *)
(* one temporary file, which a scan empties, writes and renames: what one   *)
(* has open the other may empty, or rename.  A startup file's content is a  *)
(* version; how long ago a change was observed is left open.                *)
(***************************************************************************)
EXTENDS Naturals, FiniteSets, Sequences, SequencesExt

CONSTANTS
    StartupFiles,   \* the files of the approved surfaces
    MaxContent,     \* bound on the contents the user writes
    MaxScans,       \* bound on the scans
    MAX_EVENTS

ASSUME StartupConstants == IsFiniteSet(StartupFiles) /\ {MaxContent, MaxScans, MAX_EVENTS} \subseteq Nat

VARIABLES
    contents,       \* the version of each file; 0 is what it was at first
    written,        \* the last version the user wrote
    baseline,       \* persistence-baseline.json: the entries and recent_changes
    temporary,      \* persistence-baseline.new
    scan,           \* the two readers of the summary: where each is in its scan
    scans,          \* scans begun so far, as their time
    presented,      \* the changes that some summary presented
    dropped         \* the changes that a scan left out (history)

startupVars == <<contents, written, baseline, temporary, scan, scans, presented, dropped>>

FileContents == 0 .. MaxContent
Summaries == {"shell", "weekly"}
StartupEntries == [StartupFiles -> FileContents]
StartupChange == [id : StartupFiles, content : FileContents, observed_at : 0 .. MaxScans]

\* A file that is not there; one that was emptied; one that has the text of two
\* scans in it, which is not JSON.
Missing == [state |-> "missing", entries |-> [f \in StartupFiles |-> 0], recent_changes |-> <<>>]
Emptied == [Missing EXCEPT !.state = "empty"]
Torn == [Missing EXCEPT !.state = "torn"]

\* file: what the scan has open; after the other scan's rename that is the
\* baseline, and after one more it has no name.
NoScan == [at |-> "idle", time |-> 0, current |-> Missing, file |-> "none"]

StartupTypeOK ==
    /\ contents \in StartupEntries /\ written \in FileContents /\ scans \in 0 .. MaxScans
    /\ \A b \in {baseline, temporary} :
         /\ b.state \in {"missing", "empty", "torn", "whole"} /\ b.entries \in StartupEntries
         /\ Range(b.recent_changes) \subseteq StartupChange /\ Len(b.recent_changes) <= MAX_EVENTS
    /\ presented \cup dropped \subseteq StartupChange
    /\ \A s \in Summaries : /\ scan[s].at \in {"idle", "load", "open", "write", "replace", "recent"}
                             /\ scan[s].file \in {"none", "temporary", "baseline", "gone"}

\* The first scan of all took the files as they were for the baseline.
StartupInit ==
    /\ contents = [f \in StartupFiles |-> 0] /\ written = 0
    /\ baseline = [Missing EXCEPT !.state = "whole"] /\ temporary = Missing
    /\ scan = [s \in Summaries |-> NoScan] /\ scans = 0
    /\ presented = {} /\ dropped = {}

-----------------------------------------------------------------------------

WriteStartupFile(f) ==
    /\ written < MaxContent /\ written' = written + 1
    /\ contents' = [contents EXCEPT ![f] = written']
    /\ UNCHANGED <<baseline, temporary, scan, scans, presented, dropped>>

\* PersistenceMonitor.scan: snapshot, before the baseline is read.
Inspect(s) ==
    /\ scan[s].at = "idle" /\ scans < MaxScans /\ scans' = scans + 1
    /\ scan' = [scan EXCEPT ![s] = [at |-> "load", time |-> scans', file |-> "none",
                                    current |-> [Missing EXCEPT !.state = "whole", !.entries = contents]]]
    /\ UNCHANGED <<contents, written, baseline, temporary, presented, dropped>>

ChangedFiles(previous, current) == {f \in StartupFiles : previous.entries[f] # current.entries[f]}

EventsOf(files, current, time) == {[id |-> f, content |-> current.entries[f], observed_at |-> time] : f \in files}

\* diff: in the order of the files, no more than MAX_EVENTS of them.
Diff(previous, current, time) ==
    LET events == SetToSeq(EventsOf(ChangedFiles(previous, current), current, time))
    IN SubSeq(events, 1, IF Len(events) < MAX_EVENTS THEN Len(events) ELSE MAX_EVENTS)

LastChanges(q) == IF Len(q) <= MAX_EVENTS THEN q ELSE SubSeq(q, Len(q) - MAX_EVENTS + 1, Len(q))

\* Fault: only the changes of this scan are kept.
OwnChanges(kept, changes) == LastChanges(changes)

\* scan: the changes that were kept, then those of this scan.
RecentChanges(kept, changes) == LastChanges(kept \o changes)

\* The changes of the last five minutes are kept, whatever became of the others.
Younger(b, old) == SubSeq(b.recent_changes, old + 1, Len(b.recent_changes))

\* More than MAX_EVENTS changes: some of them are cut.
TooMany(kept, changed) == Len(kept) + Cardinality(changed) > MAX_EVENTS

LoadBaseline(s) ==
    /\ scan[s].at = "load" /\ baseline.state = "whole"
    /\ \E old \in 0 .. Len(baseline.recent_changes) :
         LET current == scan[s].current
             kept == Younger(baseline, old)
             changed == ChangedFiles(baseline, current)
         IN /\ scan' = [scan EXCEPT ![s].at = "open",
                           ![s].current.recent_changes = RecentChanges(kept, Diff(baseline, current, scan[s].time))]
            /\ dropped' = dropped \cup Range(SubSeq(baseline.recent_changes, 1, old))
                 \cup IF TooMany(kept, changed) THEN Range(kept) \cup EventsOf(changed, current, scan[s].time) ELSE {}
    /\ UNCHANGED <<contents, written, baseline, temporary, scans, presented>>

\* _load returns None: the files as they are become the baseline.
LoadNothing(s) ==
    /\ scan[s].at = "load" /\ baseline.state # "whole"
    /\ scan' = [scan EXCEPT ![s].at = "open"]
    /\ dropped' = dropped \cup EventsOf(StartupFiles, scan[s].current, scan[s].time)
    /\ UNCHANGED <<contents, written, baseline, temporary, scans, presented>>

\* write_text: open empties the file, also under a scan that has written it.
OpenTemporary(s) ==
    /\ scan[s].at = "open" /\ scan' = [scan EXCEPT ![s].at = "write", ![s].file = "temporary"]
    /\ temporary' = Emptied
    /\ UNCHANGED <<contents, written, baseline, scans, presented, dropped>>

\* A text written over another one that is longer leaves the other's end.
WrittenOver(b, current) == IF b.state = "empty" THEN {current} ELSE {current, Torn}

WriteTemporary(s) ==
    /\ scan[s].at = "write" /\ scan' = [scan EXCEPT ![s].at = "replace", ![s].file = "none"]
    /\ temporary' \in IF scan[s].file = "temporary" THEN WrittenOver(temporary, scan[s].current) ELSE {temporary}
    /\ baseline' \in IF scan[s].file = "baseline" THEN WrittenOver(baseline, scan[s].current) ELSE {baseline}
    /\ UNCHANGED <<contents, written, scans, presented, dropped>>

\* The disk is full: what was emptied stays empty.
WriteFails(s) ==
    /\ scan[s].at = "write" /\ scan' = [scan EXCEPT ![s] = NoScan]
    /\ UNCHANGED <<contents, written, baseline, temporary, scans, presented, dropped>>

AfterRename(file) == CASE file = "temporary" -> "baseline" [] file = "baseline" -> "gone" [] OTHER -> file

\* os.replace: whichever scan wrote the temporary file; it is gone when the
\* other scan replaced it first, and this one ends in an exception.
ReplaceBaseline(s) ==
    /\ scan[s].at = "replace"
    /\ IF temporary.state # "missing"
         THEN /\ baseline' = temporary /\ temporary' = Missing
              /\ scan' = [t \in Summaries |-> IF t = s THEN [NoScan EXCEPT !.at = "recent"]
                                              ELSE [scan[t] EXCEPT !.file = AfterRename(@)]]
         ELSE /\ scan' = [scan EXCEPT ![s] = NoScan]
              /\ UNCHANGED <<baseline, temporary>>
    /\ UNCHANGED <<contents, written, scans, presented, dropped>>

\* augment_persistence, recent_changes: what the baseline says by now.
PresentChanges(s) ==
    /\ scan[s].at = "recent" /\ scan' = [scan EXCEPT ![s] = NoScan]
    /\ \E old \in 0 .. Len(baseline.recent_changes) : presented' = presented \cup Range(Younger(baseline, old))
    /\ UNCHANGED <<contents, written, baseline, temporary, scans, dropped>>

\* The session service ends: the files stay.
SessionEnds ==
    /\ scan # [s \in Summaries |-> NoScan]
    /\ scan' = [s \in Summaries |-> NoScan]
    /\ UNCHANGED <<contents, written, baseline, temporary, scans, presented, dropped>>

StartupNext ==
    \/ \E f \in StartupFiles : WriteStartupFile(f)
    \/ \E s \in Summaries :
         \/ Inspect(s) \/ LoadBaseline(s) \/ LoadNothing(s)
         \/ OpenTemporary(s) \/ WriteTemporary(s) \/ WriteFails(s)
         \/ ReplaceBaseline(s) \/ PresentChanges(s)
    \/ SessionEnds

StartupSpec == StartupInit /\ [][StartupNext]_startupVars

-----------------------------------------------------------------------------

(* A change of a startup file that the baseline has taken in was presented,  *)
(* or is among its recent changes, or a scan dropped it: it was five minutes *)
(* old or one of too many, or the scan found no baseline it could read.      *)
(* Scans that overlap over one temporary file, a write that fails and a      *)
(* restart lose a change in no other way (scan, recent_changes,              *)
(* augment_persistence).                                                     *)
ChangeIsNotForgotten ==
    \A f \in StartupFiles :
        baseline.entries[f] # 0 =>
            \E c \in presented \cup dropped \cup Range(baseline.recent_changes) :
                c.id = f /\ c.content = baseline.entries[f]

(* "Persist one bounded baseline and emit a change only once per update"     *)
(* (PersistenceMonitor): a change that the baseline has taken in was         *)
(* presented or still can be.                                                *)
ChangeIsEmitted ==
    \A f \in StartupFiles :
        baseline.entries[f] # 0 =>
            \E c \in presented \cup Range(baseline.recent_changes) :
                c.id = f /\ c.content = baseline.entries[f]

(* "Persist one bounded baseline and emit a change only once per update"     *)
(* (PersistenceMonitor): one change is presented as one event.  Two scans    *)
(* that overlap give it two times, and so two events.                        *)
EmittedOnce ==
    \A c, d \in presented : c.id = d.id /\ c.content = d.content => c.observed_at = d.observed_at
=============================================================================
