--------------------------- MODULE Administration ---------------------------
(***************************************************************************)
(* The seat's exclusive input, shared by the authentication shell (the       *)
(* session lock and the Polkit challenge that authentication/assemble.py     *)
(* puts into Lock.qml) and the Administration terminal                      *)
(* (administration/worker.py).  The compositor gives the session lock to one *)
(* client.  The two sides tell each other what they want through two files:  *)
(* the shell's heartbeat, written once a second, and administration-state,   *)
(* which holds for 1.5 seconds and which the worker renews.  Either file may *)
(* be stale when it is read, and the worker may fail or be killed anywhere.  *)
(***************************************************************************)
EXTENDS Naturals

CONSTANT MaxAdministrations     \* bound on the times Administration is requested

ASSUME AdministrationConstants == MaxAdministrations \in Nat

VARIABLES
    native,      \* Lock.qml: shouldLock, authorizationActive, authorizationWasLocked;
                 \* refused: the compositor denied the lock, and nothing made
                 \* the binding of sessionLock.locked ask again
    locked,      \* the user has locked the session and PAM has not let anyone in since
    heartbeat,   \* authentication-ready.json
    yielding,    \* administration-state.json: active, and whether it still holds
    holder,      \* the client with the session lock; "lost": it died with it
    admin,       \* the worker: pc, paused, requests so far
    terminal     \* its terminal

administrationVars == <<native, locked, heartbeat, yielding, holder, admin, terminal>>

-----------------------------------------------------------------------------

AdministrationTypeOK ==
    /\ native \in [shouldLock : BOOLEAN, authorization : BOOLEAN, wasLocked : BOOLEAN, refused : BOOLEAN]
    /\ locked \in BOOLEAN
    /\ heartbeat \in [requested : BOOLEAN, exclusive : BOOLEAN]
    /\ yielding \in [active : BOOLEAN, valid : BOOLEAN]
    /\ holder \in {"none", "native", "terminal", "lost"}
    /\ admin \in [pc : {"none", "admitted", "starting", "loop", "pausing", "resuming"}, paused : BOOLEAN,
                  requests : 0 .. MaxAdministrations]
    /\ terminal \in {"none", "claiming", "open", "paused"}

AdministrationInit ==
    /\ native = [shouldLock |-> FALSE, authorization |-> FALSE, wasLocked |-> FALSE, refused |-> FALSE] /\ locked = FALSE
    /\ heartbeat = [requested |-> FALSE, exclusive |-> FALSE]
    /\ yielding = [active |-> FALSE, valid |-> FALSE] /\ holder = "none"
    /\ admin = [pc |-> "none", paused |-> FALSE, requests |-> 0] /\ terminal = "none"

-----------------------------------------------------------------------------
(* The authentication shell.                                                 *)

Lock(n) == IF n.authorization THEN [n EXCEPT !.wasLocked = TRUE] ELSE [n EXCEPT !.shouldLock = TRUE]

LockSession ==
    /\ native' = Lock(native) /\ locked' = TRUE
    /\ UNCHANGED <<heartbeat, yielding, holder, admin, terminal>>

\* Only a successful local PAM conversation on the lock surface unlocks; the
\* surface is not there during a challenge.
UnlockSession ==
    /\ holder = "native" /\ native.shouldLock /\ ~native.authorization
    /\ native' = [native EXCEPT !.shouldLock = FALSE] /\ locked' = FALSE
    /\ UNCHANGED <<heartbeat, yielding, holder, admin, terminal>>

\* authorizationActive changes, at either end of a challenge: the binding is
\* evaluated again.
ChallengeBegins ==
    /\ ~native.authorization
    /\ native' = [shouldLock |-> TRUE, authorization |-> TRUE, wasLocked |-> native.shouldLock, refused |-> FALSE]
    /\ UNCHANGED <<locked, heartbeat, yielding, holder, admin, terminal>>

\* Answered, cancelled, or given up by Polkit.
ChallengeEnds ==
    /\ native.authorization
    /\ native' = [native EXCEPT !.authorization = FALSE, !.shouldLock = native.wasLocked, !.refused = FALSE]
    /\ UNCHANGED <<locked, heartbeat, yielding, holder, admin, terminal>>

administrationActive == yielding.active /\ yielding.valid
WantsLock == native.authorization \/ (native.shouldLock /\ ~administrationActive)

\* The binding of sessionLock.locked.  The compositor denies a second lock.
RequestLock ==
    /\ WantsLock /\ ~native.refused /\ holder # "native"
    /\ IF holder = "terminal" THEN native' = [native EXCEPT !.refused = TRUE] /\ UNCHANGED holder
       ELSE holder' = "native" /\ UNCHANGED native
    /\ UNCHANGED <<locked, heartbeat, yielding, admin, terminal>>

ReleaseLock ==
    /\ ~WantsLock /\ holder = "native" /\ holder' = "none"
    /\ UNCHANGED <<native, locked, heartbeat, yielding, admin, terminal>>

\* lockRetryPending is set and reset after a denial.  The binding does not look
\* at it while authorizationActive alone makes it true.
RetryLock ==
    /\ native.refused /\ ~native.authorization /\ native' = [native EXCEPT !.refused = FALSE]
    /\ UNCHANGED <<locked, heartbeat, yielding, holder, admin, terminal>>

WriteReadiness ==
    /\ heartbeat' = [requested |-> native.shouldLock \/ native.authorization, exclusive |-> holder = "native"]
    /\ UNCHANGED <<native, locked, yielding, holder, admin, terminal>>

\* validUntilMs passes.
YieldExpires ==
    /\ yielding.valid /\ yielding' = [yielding EXCEPT !.valid = FALSE]
    /\ UNCHANGED <<native, locked, heartbeat, holder, admin, terminal>>

-----------------------------------------------------------------------------
(* The worker and its terminal.                                              *)

\* The broker's request and prepare: the seat is verified and not locked, as
\* the last heartbeat says; one worker at a time.
AdmitAdministration ==
    /\ admin.pc = "none" /\ admin.requests < MaxAdministrations /\ ~heartbeat.exclusive
    /\ admin' = [pc |-> "admitted", paused |-> FALSE, requests |-> admin.requests + 1]
    /\ UNCHANGED <<native, locked, heartbeat, yielding, holder, terminal>>

active_state(active) == yielding' = [active |-> active, valid |-> TRUE]

StartTerminal ==
    /\ admin.pc = "admitted" /\ active_state(TRUE)
    /\ terminal' = "claiming" /\ admin' = [admin EXCEPT !.pc = "starting"]
    /\ UNCHANGED <<native, locked, heartbeat, holder>>

\* acquire_surface: READY, or the terminal exits.
TerminalClaims ==
    /\ terminal = "claiming"
    /\ IF holder = "native" THEN terminal' = "none" /\ UNCHANGED holder
       ELSE terminal' = "open" /\ holder' = "terminal"
    /\ UNCHANGED <<native, locked, heartbeat, yielding, admin>>

ReadyAcknowledged ==
    /\ admin.pc \in {"starting", "resuming"} /\ terminal = "open"
    /\ active_state(TRUE) /\ admin' = [admin EXCEPT !.pc = "loop", !.paused = FALSE]
    /\ UNCHANGED <<native, locked, heartbeat, holder, terminal>>

\* SIGUSR1.
RequestPause ==
    /\ admin.pc = "loop" /\ ~admin.paused /\ heartbeat.requested
    /\ admin' = [admin EXCEPT !.pc = "pausing"]
    /\ UNCHANGED <<native, locked, heartbeat, yielding, holder, terminal>>

\* The tickets are dropped and the surface is released: PAUSED.
TerminalPauses ==
    /\ admin.pc = "pausing" /\ terminal = "open"
    /\ terminal' = "paused" /\ holder' = "none"
    /\ UNCHANGED <<native, locked, heartbeat, yielding, admin>>

PauseAcknowledged ==
    /\ admin.pc = "pausing" /\ terminal = "paused"
    /\ active_state(FALSE) /\ admin' = [admin EXCEPT !.pc = "loop", !.paused = TRUE]
    /\ UNCHANGED <<native, locked, heartbeat, holder, terminal>>

\* SIGUSR2, after the shell had time to see administration-state.
Resume ==
    /\ admin.pc = "loop" /\ admin.paused /\ ~heartbeat.requested /\ ~heartbeat.exclusive
    /\ active_state(TRUE) /\ terminal' = "claiming" /\ admin' = [admin EXCEPT !.pc = "resuming"]
    /\ UNCHANGED <<native, locked, heartbeat, holder>>

\* Fault: the state that is renewed is always the active one.
RenewedActive == TRUE

Renewed == ~admin.paused

\* The end of each round of the loop.
Renew ==
    /\ admin.pc = "loop" /\ active_state(Renewed)
    /\ UNCHANGED <<native, locked, heartbeat, holder, admin, terminal>>

\* The administrator closes the terminal, or the display is gone.
TerminalExits ==
    /\ terminal \in {"open", "paused"}
    /\ terminal' = "none" /\ holder' = IF holder = "terminal" THEN "none" ELSE holder
    /\ UNCHANGED <<native, locked, heartbeat, yielding, admin>>

\* fail(): the process ends as it is, and the compositor keeps the seat locked.
TerminalFails ==
    /\ terminal # "none"
    /\ terminal' = "none" /\ holder' = IF holder = "terminal" THEN "lost" ELSE holder
    /\ UNCHANGED <<native, locked, heartbeat, yielding, admin>>

\* The terminal is gone, an acknowledgement is late, the review or the
\* administrator's rights have expired: the finally branch.  A terminal that
\* does not stop within three seconds is killed with the unit.
WorkerEnds ==
    /\ admin.pc # "none" /\ admin' = [admin EXCEPT !.pc = "none"]
    /\ IF admin.pc = "admitted" THEN UNCHANGED yielding ELSE active_state(FALSE)
    /\ terminal' = "none" /\ holder' \in IF holder = "terminal" THEN {"none", "lost"} ELSE {holder}
    /\ UNCHANGED <<native, locked, heartbeat>>

\* systemd kills the unit, the terminal with it.
WorkerKilled ==
    /\ admin.pc # "none" /\ admin' = [admin EXCEPT !.pc = "none"]
    /\ terminal' = "none" /\ holder' = IF holder = "terminal" THEN "lost" ELSE holder
    /\ UNCHANGED <<native, locked, heartbeat, yielding>>

AdministrationNext ==
    \/ LockSession \/ UnlockSession \/ ChallengeBegins \/ ChallengeEnds \/ RequestLock \/ ReleaseLock \/ RetryLock \/ WriteReadiness \/ YieldExpires
    \/ AdmitAdministration \/ StartTerminal \/ TerminalClaims \/ ReadyAcknowledged \/ RequestPause \/ TerminalPauses
    \/ PauseAcknowledged \/ Resume \/ Renew \/ TerminalExits \/ TerminalFails \/ WorkerEnds \/ WorkerKilled

\* What each of them does when nobody interferes.
BindingFollows == RequestLock \/ ReleaseLock
TerminalGoesOn == TerminalClaims \/ TerminalPauses
WorkerGoesOn ==
    \/ StartTerminal \/ ReadyAcknowledged \/ RequestPause \/ PauseAcknowledged
    \/ WorkerEnds /\ terminal = "none" /\ admin.pc # "admitted"
YieldRunsOut == YieldExpires /\ admin.pc = "none"

\* The heartbeat and the retry are timers, the lock a binding of the shell; the
\* worker waits three seconds at most for an answer and then takes the finally
\* branch, each round of its loop ends, and a worker that is gone renews nothing.
AdministrationFairness ==
    /\ WF_administrationVars(BindingFollows) /\ WF_administrationVars(RetryLock)
    /\ WF_administrationVars(WriteReadiness) /\ WF_administrationVars(TerminalGoesOn)
    /\ WF_administrationVars(WorkerGoesOn) /\ WF_administrationVars(Renew) /\ WF_administrationVars(YieldRunsOut)

AdministrationSpec ==
    AdministrationInit /\ [][AdministrationNext]_administrationVars /\ AdministrationFairness

-----------------------------------------------------------------------------

(* "Completion releases only a lock acquired for this challenge; it never    *)
(* releases a pre-existing native session lock": a session that the user has *)
(* locked, before or during any number of Polkit challenges, is wanted       *)
(* locked until PAM lets the user in (protected_authorization).              *)
UserLockSurvives ==
    locked => native.shouldLock /\ (native.authorization => native.wasLocked)

(* A session the user locks is eventually behind the native lock, whatever   *)
(* the terminal was doing (it pauses, it is closed, it or its worker dies),  *)
(* unless a Polkit challenge was denied the seat: while that one lasts the   *)
(* shell does not ask again, and when it ends it does (run,                  *)
(* administrationActive, the binding of sessionLock.locked).                 *)
LockIsShown == locked ~> holder = "native" \/ (native.authorization /\ native.refused)

(* "Password entry will appear after this screen is protected": the screen   *)
(* of a challenge that lasts is protected in the end.  The code does not do  *)
(* this when the terminal holds the seat as the challenge begins.            *)
ChallengeIsShown == native.authorization ~> holder = "native" \/ ~native.authorization

(* "It never unlocks DMS": the shell gives up the lock of a locked session   *)
(* only after PAM (the comment in protected_authorization; request and       *)
(* prepare look at the last heartbeat).                                      *)
AdministrationNeverUnlocks ==
    [][locked /\ holder = "native" => holder' = "native" \/ ~locked']_administrationVars
=============================================================================
