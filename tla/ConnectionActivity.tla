-------------------------- MODULE ConnectionActivity --------------------------
(***************************************************************************)
(* The recent activity of the OpenSnitch control plane (NetworkState of     *)
(* control_plane.py), about one connection.  AskRule records a provisional  *)
(* event, Ping the daemon's own statistics of it; four gRPC threads share   *)
(* the list without a lock.                                                 *)
(***************************************************************************)
EXTENDS Naturals, Sequences, FiniteSets, SequencesExt

CONSTANTS
    Threads,               \* reports about one connection: AskRule or Ping
    MAX_NETWORK_ACTIVITY   \* 4096 in the code

ASSUME ActivityConstants == MAX_NETWORK_ACTIVITY \in Nat

VARIABLES
    activity,        \* NetworkState.activity: the source of each record
    report           \* what each thread does with its report

activityVars == <<activity, report>>

Sources == {"greyward-policy", "opensnitch-statistics"}
NoReport == [doing |-> "nothing", source |-> "greyward-policy", seen |-> <<>>]

ActivityTypeOK ==
    /\ activity \in Seq(Sources) /\ Len(activity) <= MAX_NETWORK_ACTIVITY
    /\ \A t \in Threads : report[t].doing \in {"nothing", "looked", "pruned", "done"}

ActivityInit == activity = <<>> /\ report = [t \in Threads |-> NoReport]

-----------------------------------------------------------------------------
(* _record, by threads that share the list.                                 *)

IsPolicy(s) == s = "greyward-policy"
IsStatistics(s) == s = "opensnitch-statistics"

\* A report arrives; matching records are looked for: a statistics record
\* makes a provisional one superfluous, and replaces it.
Look(t) ==
    /\ report[t].doing = "nothing"
    /\ \E source \in Sources :
         LET superfluous == IsPolicy(source) /\ Contains(activity, "opensnitch-statistics") IN
         /\ report' = [report EXCEPT ![t] = [doing |-> IF superfluous THEN "done" ELSE "looked", source |-> source, seen |-> activity]]
         /\ activity' = IF IsStatistics(source) THEN SelectSeq(activity, IsStatistics) ELSE activity

\* _prune_activity reads the list and later assigns what it read.
Prune(t) ==
    /\ report[t].doing = "looked"
    /\ report' = [report EXCEPT ![t].doing = "pruned", ![t].seen = activity]
    /\ UNCHANGED activity

\* The pruned list is assigned, the event appended, the list cut.
Keep(t) ==
    LET longer == Append(report[t].seen, report[t].source) IN
    /\ report[t].doing = "pruned"
    /\ activity' = IF Len(longer) > MAX_NETWORK_ACTIVITY THEN Tail(longer) ELSE longer
    /\ report' = [report EXCEPT ![t] = [NoReport EXCEPT !.doing = "done"]]

ControlPlaneRestarts ==
    /\ activity # <<>>
    /\ activity' = <<>> /\ report' = [t \in Threads |-> NoReport]

ActivityNext == ControlPlaneRestarts \/ \E t \in Threads : Look(t) \/ Prune(t) \/ Keep(t)

ActivitySpec == ActivityInit /\ [][ActivityNext]_activityVars

-----------------------------------------------------------------------------

(* A connection is not shown twice: the daemon's report replaces the         *)
(* provisional record, "and never show both for one connection" (_record).   *)
ShownOnce == ~(Contains(activity, "greyward-policy") /\ Contains(activity, "opensnitch-statistics"))
=============================================================================
