---------------------------- MODULE SensorReader ----------------------------
(***************************************************************************)
(* The behavioural evidence of intelligence.py and the thread of            *)
(* intelligence_service.py that reads it out of the kernel sensor's export. *)
(* The sensor appends records to a file, renames the file when it is full   *)
(* and keeps KEEP old ones; the reader follows it from file to file, a      *)
(* batch at a time, and saves its cursor in the database that has the       *)
(* evidence.  Files are numbered in the order they were created, records in *)
(* the order they were written; an offset counts the complete records       *)
(* before it.  evidence is what was ever stored: its removal by age and     *)
(* number (_write_evidence) is not modelled.                                *)
(***************************************************************************)
EXTENDS Naturals, Sequences, FiniteSets, FiniteSetsExt, SequencesExt

CONSTANTS
    MaxRecord,      \* bound on the records the sensor writes
    MaxFile,        \* bound on the files it creates
    KEEP,           \* renamed files the sensor keeps
    BATCH           \* 256 in the code

ASSUME SensorConstants == {MaxRecord, KEEP} \subseteq Nat /\ {MaxFile, BATCH} \subseteq Nat \ {0}

VARIABLES
    export,     \* the sensor's files
    base,       \* the database: what is committed
    draft,      \* the database as the open transaction sees it
    reader,     \* the thread
    seen        \* what the properties remember

sensorVars == <<export, base, draft, reader, seen>>

SensorRecords == 1 .. MaxRecord
SensorFiles == 1 .. MaxFile

NoPosition == [file |-> 1, offset |-> 0]
Positions == [file : SensorFiles, offset : 0 .. MaxRecord]

\* evidence and metadata: source_boot is this boot (attached), sensor_cursor,
\* coverage_gaps (gap: the records a gap stands for).
Base == [evidence : SUBSET SensorRecords, attached : BOOLEAN, cursor : Positions, gap : SUBSET SensorRecords]

SensorTypeOK ==
    /\ export.lines \in [SensorFiles -> Seq(SensorRecords)] /\ export.current \in SensorFiles
    /\ export.half \in BOOLEAN /\ export.next \in 1 .. MaxRecord + 1
    /\ base \in Base /\ draft \in Base
    /\ reader.phase \in {"down", "open", "opened", "read", "save", "follow", "successor", "next"}
    /\ reader.at \in Positions /\ reader.processed \in 0 .. BATCH
    /\ reader.eof \in BOOLEAN /\ reader.partial \in BOOLEAN
    /\ reader.target \in 0 .. MaxFile /\ reader.raw \in BOOLEAN
    /\ reader.fresh \subseteq SensorRecords
    /\ seen \in [{"skipped", "ignored", "left", "regrown"} -> SUBSET SensorRecords]

\* collect between two batches: the loop's variables as a batch finds them.
\* fresh is history: what came into the file since the thread found its end.
At(phase, p) ==
    [phase |-> phase, at |-> p, processed |-> 0, eof |-> FALSE, partial |-> FALSE,
     target |-> 0, raw |-> FALSE, fresh |-> {}]

NoLoss == [skipped |-> {}, ignored |-> {}, left |-> {}, regrown |-> {}]

SensorInit ==
    /\ export = [lines |-> [f \in SensorFiles |-> <<>>], current |-> 1, half |-> FALSE, next |-> 1]
    /\ base = [evidence |-> {}, attached |-> FALSE, cursor |-> NoPosition, gap |-> {}]
    /\ draft = base
    /\ reader = At("down", NoPosition)
    /\ seen = NoLoss

-----------------------------------------------------------------------------
(* The sensor, which is not part of the repository.                          *)

Lines(f) == export.lines[f]

\* A half-written line is the last one of the current file.
HalfLine(f) == export.half /\ f = export.current

\* retained_sensor_file: the files whose inode still has a name.
RetainedFiles == {f \in SensorFiles : f <= export.current /\ f + KEEP >= export.current}

\* The records before a position.
Behind(p) == (UNION {ToSet(Lines(f)) : f \in 1 .. p.file - 1})
             \cup {Lines(p.file)[i] : i \in 1 .. Min({p.offset, Len(Lines(p.file))})}

\* A position in the current file that is past its end: the file was cut.
PastEnd(p) == p.file = export.current /\ p.offset > Len(Lines(p.file))

\* seen.regrown: what comes into a file that was cut, before the position of
\* the reader or of the cursor.
SensorAppends ==
    /\ export.next <= MaxRecord
    /\ export' = [export EXCEPT !.lines[export.current] = Append(@, export.next), !.next = @ + 1, !.half = FALSE]
    /\ reader' = [reader EXCEPT !.fresh = IF reader.eof /\ reader.at.file = export.current THEN @ \cup {export.next} ELSE @]
    /\ seen' = [seen EXCEPT !.regrown = IF PastEnd(base.cursor) \/ PastEnd(reader.at) THEN @ \cup {export.next} ELSE @]
    /\ UNCHANGED <<base, draft>>

SensorAppendsPart ==
    /\ export.next <= MaxRecord /\ ~export.half
    /\ export' = [export EXCEPT !.half = TRUE]
    /\ UNCHANGED <<base, draft, reader, seen>>

SensorRotates ==
    /\ export.current < MaxFile
    /\ export' = [export EXCEPT !.current = @ + 1, !.half = FALSE]
    /\ UNCHANGED <<base, draft, reader, seen>>

SensorTruncates ==
    /\ Lines(export.current) # <<>>
    /\ export' = [export EXCEPT !.lines[export.current] = <<>>, !.half = FALSE]
    /\ UNCHANGED <<base, draft, reader, seen>>

-----------------------------------------------------------------------------
(* The engine.                                                               *)

\* record_gap, with the reader at position p: what is behind p and has no
\* evidence is missing.  The gap is committed, and with it all that is pending.
Gapped(t, p) == [t EXCEPT !.gap = @ \cup (Behind(p) \ t.evidence)]

\* ingest writes the evidence of an event, with commit=False; an event whose
\* id has its evidence is a replay.
Ingest(r) == draft' = [draft EXCEPT !.evidence = @ \cup {r}]

\* The write fails (the database is full), and SQLite rolls back the statement
\* or the transaction.
IngestFails(r) == r \notin draft.evidence /\ draft' \in {draft, base}

-----------------------------------------------------------------------------
(* The thread.                                                               *)

ProviderStarts ==
    /\ reader.phase = "down"
    /\ reader' = At("open", NoPosition)
    /\ UNCHANGED <<export, base, draft, seen>>

\* The service or the system stops, and with it what is only in memory; after a reboot source_boot is of another boot.
ProviderDies ==
    /\ reader.phase # "down"
    /\ reader' = At("down", NoPosition)
    /\ draft' = base
    /\ \/ UNCHANGED base
       \/ base' = [base EXCEPT !.attached = FALSE]
    /\ UNCHANGED <<export, seen>>

Reading(p) == At("read", p)

\* The health check writes its counters and commits what is pending.
HealthCheck ==
    /\ reader.phase \in {"open", "read"} /\ reader.processed = 0
    /\ base' = draft
    /\ UNCHANGED <<export, draft, reader, seen>>

OpenExport ==
    /\ reader.phase = "open"
    /\ reader' = At("opened", [file |-> export.current, offset |-> 0])
    /\ UNCHANGED <<export, base, draft, seen>>

\* collect: the first time in this boot the reader starts at the end.
Attach ==
    /\ reader.phase = "opened" /\ ~draft.attached
    /\ LET end == [file |-> reader.at.file, offset |-> Len(Lines(reader.at.file))] IN
         /\ draft' = [draft EXCEPT !.attached = TRUE, !.cursor = end]
         /\ base' = draft'
         /\ reader' = Reading(end)
         /\ seen' = [seen EXCEPT !.skipped = @ \cup Behind(end)]
    /\ UNCHANGED export

\* collect: the cursor's file is found by its inode, unless it was deleted;
\* an offset past its end is a truncated file.
OpenAtCursor ==
    /\ reader.phase = "opened" /\ draft.attached
    /\ LET c == draft.cursor
           kept == c.file = reader.at.file \/ c.file \in RetainedFiles
           whole == kept /\ c.offset <= Len(Lines(c.file))
           p == IF whole THEN c ELSE [file |-> IF kept THEN c.file ELSE reader.at.file, offset |-> 0]
       IN /\ reader' = Reading(p)
          /\ IF whole THEN UNCHANGED <<draft, base>>
             ELSE draft' = Gapped(draft, p) /\ base' = draft'
    /\ UNCHANGED <<export, seen>>

NextPosition == [reader.at EXCEPT !.offset = @ + 1]

HasLine == reader.at.offset < Len(Lines(reader.at.file))

\* A complete line: ingested, refused with a gap (not JSON, too long), or
\* declined by ingest without a word (not an event it knows, no identity, an
\* older process, an unknown policy, a system service that is not suspicious).
ReadLine ==
    /\ reader.phase = "read" /\ reader.processed < BATCH /\ HasLine
    /\ reader' = [reader EXCEPT !.at = NextPosition, !.processed = @ + 1]
    /\ LET r == Lines(reader.at.file)[NextPosition.offset] IN
         \/ Ingest(r) /\ UNCHANGED <<base, seen>>
         \/ draft' = Gapped(draft, NextPosition) /\ base' = draft' /\ UNCHANGED seen
         \/ /\ seen' = [seen EXCEPT !.ignored = @ \cup {r}]
            /\ UNCHANGED <<base, draft>>
    /\ UNCHANGED export

\* The write of the evidence raises: the stream is closed, the cursor stays.
ReadFails ==
    /\ reader.phase = "read" /\ reader.processed < BATCH /\ HasLine
    /\ IngestFails(Lines(reader.at.file)[NextPosition.offset])
    /\ reader' = At("open", NoPosition)
    /\ UNCHANGED <<export, base, seen>>

\* The batch ends: it is full, the file has no more, or its last line is
\* half written (it counts as processed, the position stays before it).
BatchEnds ==
    /\ reader.phase = "read" /\ (reader.processed = BATCH \/ ~HasLine)
    /\ LET partial == reader.processed < BATCH /\ HalfLine(reader.at.file) IN
         reader' = [reader EXCEPT !.phase = "save", !.eof = reader.processed < BATCH, !.partial = partial]
    /\ UNCHANGED <<export, base, draft, seen>>

\* metadata('sensor_cursor'): the commit is the one of the evidence too.
Saved == [draft EXCEPT !.cursor = reader.at]

SaveCursor ==
    /\ reader.phase = "save"
    /\ IF reader.processed > 0 \/ reader.partial THEN draft' = Saved /\ base' = draft' ELSE UNCHANGED <<draft, base>>
    /\ reader' = [reader EXCEPT !.phase = "follow"]
    /\ UNCHANGED <<export, seen>>

\* Fault: after a rotation the reader goes to the current file.
CurrentFile == export.current

\* rotation_successor: the next retained file, the current one last.  A file
\* that is no longer retained has no successor.
Successor == IF reader.at.file \in RetainedFiles THEN reader.at.file + 1 ELSE 0

StartOf(f) == [file |-> f, offset |-> 0]

\* collect, after a batch, looks at the export: the file was rotated away and
\* has been read to its end, or it is the current one and shorter than the
\* position.
StatExport ==
    /\ reader.phase = "follow"
    /\ LET rotated == reader.at.file # export.current /\ reader.eof
           shorter == PastEnd(reader.at)
       IN \/ /\ rotated /\ reader' = [reader EXCEPT !.phase = "successor"]
             /\ IF reader.partial THEN draft' = Gapped(draft, StartOf(reader.at.file + 1)) /\ base' = draft'
                ELSE UNCHANGED <<draft, base>>
          \/ /\ shorter
             /\ draft' = [Gapped(draft, reader.at) EXCEPT !.cursor = StartOf(reader.at.file)]
             /\ base' = draft'
             /\ reader' = At("open", NoPosition)
          \/ /\ ~rotated /\ ~shorter
             /\ reader' = Reading(reader.at) /\ UNCHANGED <<draft, base>>
    /\ UNCHANGED <<export, seen>>

\* The answer of rotation_successor is a path: that of a renamed file, which
\* keeps it, or that of the export (raw); none when a file it looks at is
\* renamed or deleted meanwhile.
FindSuccessor ==
    /\ reader.phase = "successor"
    /\ \E found \in {Successor, 0} :
         LET target == IF found = 0 THEN export.current ELSE found IN
         /\ reader' = [reader EXCEPT !.phase = "next", !.target = target, !.raw = target = export.current]
         /\ IF found = 0 THEN draft' = Gapped(draft, StartOf(target)) /\ base' = draft'
            ELSE UNCHANGED <<draft, base>>
    /\ UNCHANGED <<export, seen>>

\* The file that has the path when it is opened.  seen.left: what came into
\* the old file after its end was found, and the files that had the path
\* since the answer.
OpenSuccessor ==
    /\ reader.phase = "next" /\ (reader.raw \/ reader.target \in RetainedFiles)
    /\ LET opened == IF reader.raw THEN export.current ELSE reader.target IN
         /\ draft' = [draft EXCEPT !.cursor = StartOf(opened)] /\ base' = draft'
         /\ reader' = Reading(StartOf(opened))
         /\ seen' = [seen EXCEPT !.left = @ \cup reader.fresh \cup UNION {ToSet(Lines(f)) : f \in reader.target .. opened - 1}]
    /\ UNCHANGED export

\* The old stream is closed already: the thread begins again at the cursor.
OpenSuccessorFails ==
    /\ reader.phase = "next" /\ reader' = At("open", NoPosition)
    /\ UNCHANGED <<export, base, draft, seen>>

SensorNext ==
    \/ SensorAppends \/ SensorAppendsPart \/ SensorRotates \/ SensorTruncates
    \/ ProviderStarts \/ ProviderDies \/ HealthCheck \/ OpenExport \/ Attach \/ OpenAtCursor
    \/ ReadLine \/ ReadFails \/ BatchEnds \/ SaveCursor
    \/ StatExport \/ FindSuccessor \/ OpenSuccessor \/ OpenSuccessorFails

SensorSpec == SensorInit /\ [][SensorNext]_sensorVars

-----------------------------------------------------------------------------

Reported == base.evidence \cup base.gap \cup seen.skipped \cup seen.ignored \cup seen.regrown

(* A record that is behind the saved cursor has its evidence saved, or a gap *)
(* was recorded for it, through rotations, deleted files, restarts and       *)
(* crashes between the evidence and the cursor, and rotations between        *)
(* looking at the export, finding the next file and opening it (collect,     *)
(* rotation_successor, metadata).  The silent losses are these and no other: *)
(* what was written before the reader attached in this boot, what ingest     *)
(* declines, what a file that was cut regrows to before the position, and    *)
(* what is left behind in a file that was written, or that got and lost the  *)
(* export's name, between two of the thread's looks.                         *)
LossIsReported == Behind(base.cursor) \subseteq Reported \cup seen.left

(* Said of the code by BEHAVIORAL_INTELLIGENCE.md: history that cannot be    *)
(* had remains explicitly incomplete, also when a rotation overtakes the     *)
(* reader (collect, rotation_successor).                                     *)
RotationLossIsReported == Behind(base.cursor) \subseteq Reported
=============================================================================
