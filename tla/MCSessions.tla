----------------------------- MODULE MCSessions -----------------------------
(* What happens around a login: the accounts are enrolled, the seat and its  *)
(* workers start, Administration borrows the locked seat, and the capsule    *)
(* shows what the sensors do.  Each is a program of its own with files of    *)
(* its own; part says which one a behaviour is about, and the others stay as *)
(* they began.                                                               *)
EXTENDS Enrollment, SeatSession, Administration, PrivacyCapsule

CONSTANTS alice, bob, app, call

MCAccounts == {alice, bob}
MCApps == {app, call}
MCSensorKinds == {"screen-share"}

VARIABLE part

sessionsVars == <<part, enrollmentVars, seatVars, administrationVars, capsuleVars>>

SessionsInit ==
    /\ part \in {"enrollment", "seat", "administration", "capsule"}
    /\ EnrollmentInit /\ SeatInit /\ AdministrationInit /\ CapsuleInit
    \* The parts that stay as they began are given one of their beginnings.
    /\ part # "enrollment" => mapping = [a \in Accounts |-> "default"]
    /\ part # "capsule" => monitor.running

SessionsNext ==
    /\ UNCHANGED part
    /\ \/ /\ part = "enrollment" /\ EnrollmentNext
          /\ UNCHANGED <<seatVars, administrationVars, capsuleVars>>
       \/ /\ part = "seat" /\ SeatNext
          /\ UNCHANGED <<enrollmentVars, administrationVars, capsuleVars>>
       \/ /\ part = "administration" /\ AdministrationNext
          /\ UNCHANGED <<enrollmentVars, seatVars, capsuleVars>>
       \/ /\ part = "capsule" /\ CapsuleNext
          /\ UNCHANGED <<enrollmentVars, seatVars, administrationVars>>

\* A part is scheduled as its module says in the behaviours that are about it.
SessionsFairness ==
    /\ WF_administrationVars(part = "administration" /\ BindingFollows) /\ WF_administrationVars(part = "administration" /\ RetryLock)
    /\ WF_administrationVars(part = "administration" /\ WriteReadiness) /\ WF_administrationVars(part = "administration" /\ TerminalGoesOn)
    /\ WF_administrationVars(part = "administration" /\ WorkerGoesOn) /\ WF_administrationVars(part = "administration" /\ Renew)
    /\ WF_administrationVars(part = "administration" /\ YieldRunsOut)
    /\ WF_capsuleVars(part = "capsule" /\ MonitorReports) /\ WF_capsuleVars(part = "capsule" /\ MainLoop)
    /\ WF_capsuleVars(part = "capsule" /\ Collector)

SessionsSpec == SessionsInit /\ [][SessionsNext]_sessionsVars /\ SessionsFairness
=============================================================================
