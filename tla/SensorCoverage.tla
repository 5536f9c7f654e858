--------------------------- MODULE SensorCoverage ---------------------------
(***************************************************************************)
(* What the provider of the behavioural evidence says of its own coverage:  *)
(* the check that the reader of intelligence_service.py makes every 15      *)
(* seconds, its probes (sensor_health.py), the gaps and the health that     *)
(* intelligence.py keeps, and the heartbeat a snapshot looks at.  Time is   *)
(* in checks.  The reader itself is SensorReader; here it catches up,       *)
(* answers a probe, finds a gap, fails, or hangs.                           *)
(***************************************************************************)
EXTENDS Naturals, FiniteSets, FiniteSetsExt

CONSTANTS
    MaxCheck,       \* bound on the time
    FRESH,          \* how long a probe's answer is fresh
    QUIET,          \* how long after a gap the coverage is not complete
    HEARTBEAT       \* how long a check is believed

ASSUME CoverageConstants == {MaxCheck, FRESH, QUIET, HEARTBEAT} \subseteq Nat

VARIABLES
    time,       \* elapsed()
    probes,     \* the tracker: pending, verified_at, matches since the last check
    health,     \* state, healthy_probes, caught_up, when it was checked, the last gap
    due,        \* now >= next_health
    failing     \* the reader's last round ended in an exception

coverageVars == <<time, probes, health, due, failing>>

Times == 0 .. MaxCheck
LongAgo == 0
Health == {"STARTING", "ACTIVE", "DEGRADED", "UNAVAILABLE"}

CoverageTypeOK ==
    /\ time \in Times
    /\ probes \in [pending : SUBSET Times, verified_at : Times, new : BOOLEAN, sent : 0 .. 2]
    /\ health \in [state : Health, healthy_probes : 0 .. 2, caught_up : BOOLEAN, checked : Times, gap : Times]
    /\ due \in BOOLEAN /\ failing \in BOOLEAN

\* Time starts late enough for LongAgo to be long ago.
CoverageInit ==
    /\ time = FRESH + QUIET + 1
    /\ probes = [pending |-> {}, verified_at |-> LongAgo, new |-> FALSE, sent |-> 0]
    /\ health = [state |-> "STARTING", healthy_probes |-> 0, caught_up |-> FALSE, checked |-> time, gap |-> LongAgo]
    /\ due = TRUE /\ failing = FALSE

-----------------------------------------------------------------------------

\* The reader's thread may be late or hang: time does not wait for it.
CheckDue ==
    /\ time < MaxCheck
    /\ time' = time + 1 /\ due' = TRUE
    /\ UNCHANGED <<probes, health, failing>>

\* ProbeTracker.observe: the answer of a pending probe, of its own time.
AnswerProbe ==
    /\ \E p \in probes.pending :
         probes' = [probes EXCEPT !.pending = @ \ {p}, !.verified_at = time, !.new = TRUE]
    /\ UNCHANGED <<time, health, due, failing>>

\* ProbeTracker.issue: probes that are too old are dropped.
Issued(t) == [pending |-> {p \in t.pending : time - p <= FRESH + 1} \cup {time},
              verified_at |-> t.verified_at, new |-> FALSE, sent |-> Min({2, t.sent + 1})]

\* ProbeTracker.status
Verified == probes.verified_at # LongAgo /\ time - probes.verified_at <= FRESH

RecentGap == time - health.gap < QUIET

\* collect: the check; active is systemd's answer, links the attachments the
\* sensor attested.
CheckCoverage ==
    /\ due /\ due' = FALSE
    /\ \E active, links \in BOOLEAN :
         LET healthy == IF Verified /\ health.caught_up /\ probes.new
                          THEN Min({2, health.healthy_probes + 1}) ELSE 0
             complete == Verified /\ links /\ health.caught_up /\ healthy = 2 /\ ~RecentGap
         IN health' = [health EXCEPT !.healthy_probes = healthy, !.checked = time,
                         !.state = IF ~active THEN "UNAVAILABLE" ELSE IF complete THEN "ACTIVE"
                                   ELSE IF probes.sent < 2 THEN "STARTING" ELSE "DEGRADED"]
    /\ probes' = Issued(probes)
    /\ UNCHANGED <<time, failing>>

\* A batch was read: to the end of the export, or not.
RoundEnds ==
    /\ \E caught_up \in BOOLEAN : health' = [health EXCEPT !.caught_up = caught_up]
    /\ failing' = FALSE
    /\ UNCHANGED <<time, probes, due>>

\* record_gap, from a record, a rotation, the sensor's journal or its throttling.
RecordGap ==
    /\ health' = [health EXCEPT !.gap = time, !.state = "DEGRADED", !.checked = time]
    /\ UNCHANGED <<time, probes, due, failing>>

\* collect: the round ends in an exception; caught_up is what it was.
RoundFails ==
    /\ health' = [health EXCEPT !.state = "UNAVAILABLE", !.checked = time]
    /\ failing' = TRUE
    /\ UNCHANGED <<time, probes, due>>

CoverageNext ==
    \/ CheckDue \/ AnswerProbe \/ CheckCoverage \/ RoundEnds \/ RecordGap \/ RoundFails

CoverageSpec == CoverageInit /\ [][CoverageNext]_coverageVars

-----------------------------------------------------------------------------

\* Fault: the heartbeat is not looked at.
ShownAsKept == health.state

\* snapshot: a health that was not checked for too long is not shown.
ShownHealth == IF time - health.checked > HEARTBEAT THEN "UNAVAILABLE" ELSE health.state

(* Whoever is shown an active sensor sees a probe that went through the      *)
(* kernel and the export a short time ago, and no gap recorded since, even   *)
(* when the reader's thread hangs after its check (snapshot, collect,        *)
(* ProbeTracker, record_gap).                                                *)
ShownActiveIsRecent ==
    ShownHealth = "ACTIVE" =>
        /\ probes.verified_at # LongAgo /\ time - probes.verified_at <= FRESH + HEARTBEAT
        /\ health.checked - health.gap >= QUIET

(* "Evidence ingestion failed; no healthy coverage is claimed" (collect): a  *)
(* reader whose rounds fail is not shown as active.  It is when the check    *)
(* comes first in the next round, which finds caught_up as the last complete *)
(* round left it.                                                            *)
FailingIsNotActive == failing => ShownHealth # "ACTIVE"
=============================================================================
