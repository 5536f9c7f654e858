---------------------------- MODULE RecoveryPoints ----------------------------
(***************************************************************************)
(* Local Btrfs recovery points (recovery.py).  The helper runs as a process *)
(* of its own for each create or cleanup, without a lock; a process may die *)
(* between any two steps, and a snapshot may refuse to be deleted.          *)
(***************************************************************************)
EXTENDS Naturals, Sequences, FiniteSets, FiniteSetsExt

CONSTANTS
    MaxPoints,     \* bound: points ever created; a point's number is its age
    KEEP_POINTS,   \* valid points retained: 3 in the code
    Helpers        \* processes of the helper

ASSUME RecoveryConstants == MaxPoints \in Nat /\ KEEP_POINTS \in Nat \ {0}

VARIABLES
    point,     \* each point's directory: its snapshots and its metadata
    made,      \* points created so far
    helper     \* each process: what it does to which point

recoveryVars == <<point, made, helper>>

-----------------------------------------------------------------------------

Points == 1 .. MaxPoints

\* A directory: absent, or its snapshots and the status of its metadata.
NoDirectory == [exists |-> FALSE, snapshots |-> 0, status |-> "none"]
Resting == [does |-> "nothing", target |-> 0, plan |-> {}]

\* Snapshots of one point: the root and the managed subvolumes.
SNAPSHOTS == 2

RecoveryTypeOK ==
    /\ point \in [Points -> [exists : BOOLEAN, snapshots : 0 .. SNAPSHOTS, status : {"none", "valid", "failed"}]]
    /\ made \in 0 .. MaxPoints
    /\ \A h \in Helpers :
         /\ helper[h].does \in {"nothing", "snapshot", "plan", "clean", "fail"}
         /\ helper[h].plan \subseteq Points

RecoveryInit ==
    /\ point = [p \in Points |-> NoDirectory] /\ made = 0
    /\ helper = [h \in Helpers |-> Resting]

Does(h, what) == helper' = [helper EXCEPT ![h].does = what]
Rests(h) == helper' = [helper EXCEPT ![h] = Resting]

\* list_points: directories with metadata; the newest first.
Listed == {p \in Points : point[p].status # "none"}
Valid == {p \in Points : point[p].status = "valid"}
Newer(p) == {q \in Valid : q > p}

-----------------------------------------------------------------------------

\* create makes the directory; metadata is in memory only.
CreateBegins(h) ==
    /\ helper[h] = Resting /\ made < MaxPoints
    /\ made' = made + 1
    /\ point' = [point EXCEPT ![made + 1] = [NoDirectory EXCEPT !.exists = TRUE]]
    /\ helper' = [helper EXCEPT ![h] = [does |-> "snapshot", target |-> made + 1, plan |-> {}]]

TakeSnapshot(h) ==
    LET p == helper[h].target IN
    /\ helper[h].does = "snapshot" /\ point[p].snapshots < SNAPSHOTS
    /\ \/ point' = [point EXCEPT ![p].snapshots = @ + 1] /\ UNCHANGED helper
       \/ Does(h, "fail") /\ UNCHANGED point
    /\ UNCHANGED made

\* Valid metadata is published; cleanup follows in the same process.
Publish(h) ==
    LET p == helper[h].target IN
    /\ helper[h].does = "snapshot" /\ point[p].snapshots = SNAPSHOTS
    /\ point' = [point EXCEPT ![p].status = "valid"]
    /\ Does(h, "plan")
    /\ UNCHANGED made

\* Any exception, cleanup's too, marks the new point as failed.
CreateFails(h) ==
    /\ helper[h].does = "fail"
    /\ point' = IF helper[h].target = 0 THEN point ELSE [point EXCEPT ![helper[h].target].status = "failed"]
    /\ Rests(h)
    /\ UNCHANGED made

CleanupBegins(h) ==
    /\ helper[h] = Resting /\ made > 0
    /\ helper' = [helper EXCEPT ![h] = [does |-> "plan", target |-> 0, plan |-> {}]]
    /\ UNCHANGED <<point, made>>

\* Fault: one point too few is retained.
RetainsFewer == {p \in Valid : Cardinality(Newer(p)) >= KEEP_POINTS - 1}

\* Valid points beyond the newest KEEP_POINTS.
Surplus == {p \in Valid : Cardinality(Newer(p)) >= KEEP_POINTS}

\* cleanup lists the points once.
Plan(h) ==
    /\ helper[h].does = "plan"
    /\ helper' = [helper EXCEPT ![h].does = "clean", ![h].plan = (Listed \ Valid) \cup Surplus]
    /\ UNCHANGED <<point, made>>

\* The next point of the plan: failed ones first, then from the newest on.
Next1(plan) == LET failed == {p \in plan : point[p].status # "valid"} IN IF failed # {} THEN Max(failed) ELSE Max(plan)

\* One snapshot is deleted, or with the last one the metadata and directory;
\* an error ends the process.
Clean(h) ==
    LET p == Next1(helper[h].plan) IN
    /\ helper[h].does = "clean" /\ helper[h].plan # {}
    /\ \/ /\ point[p].snapshots > 0
          /\ \/ point' = [point EXCEPT ![p].snapshots = @ - 1] /\ UNCHANGED helper
             \/ UNCHANGED point /\ Does(h, "fail")
       \/ /\ point[p].snapshots = 0
          /\ point' = [point EXCEPT ![p] = NoDirectory]
          /\ helper' = [helper EXCEPT ![h].plan = @ \ {p}]
    /\ UNCHANGED made

CleanEnds(h) ==
    /\ helper[h].does = "clean" /\ helper[h].plan = {}
    /\ Rests(h)
    /\ UNCHANGED <<point, made>>

HelperDies(h) ==
    /\ helper[h] # Resting /\ Rests(h)
    /\ UNCHANGED <<point, made>>

RecoveryNext ==
    \E h \in Helpers :
        \/ CreateBegins(h) \/ TakeSnapshot(h) \/ Publish(h) \/ CreateFails(h)
        \/ CleanupBegins(h) \/ Plan(h) \/ Clean(h) \/ CleanEnds(h) \/ HelperDies(h)

RecoverySpec == RecoveryInit /\ [][RecoveryNext]_recoveryVars

-----------------------------------------------------------------------------

Whole(p) == point[p].snapshots = SNAPSHOTS /\ point[p].status # "none"

(* Cleanup never takes the last point that could be relied on: a valid       *)
(* point loses a snapshot only while a newer complete one is listed as       *)
(* valid, though a death or an error left others half deleted (cleanup).     *)
CompletePointKept ==
    [][\A p \in Points : (point[p].status = "valid" /\ point'[p].snapshots < point[p].snapshots)
        => \E q \in Newer(p) : Whole(q)]_recoveryVars

(* "Three valid points are retained": once that many have been made and no   *)
(* helper is at work, that many are listed as valid (cleanup).               *)
ValidPointsRetained ==
    (\A h \in Helpers : helper[h] = Resting)
        => Cardinality(Valid) >= Min({KEEP_POINTS, Cardinality({p \in Points : Whole(p)})})
=============================================================================
