---------------------------- MODULE SeatSession ----------------------------
(***************************************************************************)
(* The protected seat of one account (desktop/session.py, verify.py,         *)
(* materialize.py; recover_quiescent_console of migrate-screenshot.py).      *)
(* For each login, the broker runs session.py --start: it gives tty1 the     *)
(* protected label, starts the compositor and the authentication shell in   *)
(* the scope of the session, writes a receipt and leaves a guardian that     *)
(* takes the label back and closes the session when its owner or a worker    *)
(* exits.  A start that fails cleans up, as far as its children end in time; *)
(* one that systemd stops at its time limit (RuntimeMaxSec in desktop.rs),   *)
(* or a guardian that is killed with its scope, does not.                    *)
(***************************************************************************)
EXTENDS Naturals, FiniteSets

CONSTANT MaxLogin          \* bound on the logins

ASSUME SeatConstants == MaxLogin \in Nat \ {0}

VARIABLES
    logins,       \* the last login
    owner,        \* the logins whose session command (the actor) is alive
    workers,      \* <<login, kind>> of the workers that are alive
    seatReceipt,  \* seat-uid.json: the login it names, 0 if there is none
    label,        \* of tty1
    starting,     \* the start that runs: step, login, the label it found
    guardians,    \* of each login: what it does, the label it will restore
    verified,     \* the last answer of verify.py: the login, 0 if it refused
    admitted      \* the logins that a receipt has named and no failed start undone

seatVars == <<logins, owner, workers, seatReceipt, label, starting, guardians, verified, admitted>>

-----------------------------------------------------------------------------

Logins == 1 .. MaxLogin
WorkerKinds == {"display", "authentication"}
Labels == {"ordinary", "protected"}
NoStart == [pc |-> "none", login |-> 0, original |-> "ordinary"]
NoGuardian == [pc |-> "none", original |-> "ordinary"]

SeatTypeOK ==
    /\ logins \in 0 .. MaxLogin /\ owner \subseteq Logins /\ admitted \subseteq Logins
    /\ workers \subseteq Logins \X WorkerKinds
    /\ {seatReceipt, verified} \subseteq 0 .. MaxLogin /\ label \in Labels
    /\ starting \in [pc : {"none", "label", "materialize", "display", "authentication", "receipt", "ready", "guardian"},
                     login : 0 .. MaxLogin, original : Labels]
    /\ guardians \in [Logins -> [pc : {"none", "watch", "close"}, original : Labels]]

SeatInit ==
    /\ logins = 0 /\ owner = {} /\ workers = {} /\ seatReceipt = 0 /\ label = "ordinary"
    /\ starting = NoStart /\ guardians = [g \in Logins |-> NoGuardian]
    /\ verified = 0 /\ admitted = {}

Alive(g) == {k \in WorkerKinds : <<g, k>> \in workers}

-----------------------------------------------------------------------------
(* Logins.                                                                  *)

\* greetd runs one session on tty1 at a time.
LogIn ==
    /\ owner = {} /\ starting = NoStart /\ logins < MaxLogin
    /\ logins' = logins + 1 /\ owner' = {logins + 1}
    /\ UNCHANGED <<workers, seatReceipt, label, starting, guardians, verified, admitted>>

\* The session command ends.
OwnerExits(g) ==
    /\ g \in owner /\ owner' = owner \ {g}
    /\ UNCHANGED <<logins, workers, seatReceipt, label, starting, guardians, verified, admitted>>

WorkerExits(g, k) ==
    /\ <<g, k>> \in workers /\ workers' = workers \ {<<g, k>>}
    /\ UNCHANGED <<logins, owner, seatReceipt, label, starting, guardians, verified, admitted>>

\* A forced logout, or PID 1 after a guardian's request: everything in the
\* scope is killed, the guardian too.
ScopeKilled(g) ==
    /\ owner' = owner \ {g} /\ workers' = {w \in workers : w[1] # g}
    /\ guardians' = [guardians EXCEPT ![g] = NoGuardian]
    /\ <<owner', workers', guardians'>> # <<owner, workers, guardians>>
    /\ UNCHANGED <<logins, seatReceipt, label, starting, verified, admitted>>

-----------------------------------------------------------------------------
(* session.py --start.                                                       *)

\* A receipt may be left: its owner and its workers must be gone.
BeginStart(g) ==
    /\ starting = NoStart /\ g \in owner
    /\ seatReceipt # 0 => seatReceipt \notin owner /\ Alive(seatReceipt) = {}
    /\ seatReceipt' = 0 /\ starting' = [NoStart EXCEPT !.pc = "label", !.login = g]
    /\ UNCHANGED <<logins, owner, workers, label, guardians, verified, admitted>>

\* The label that is there is the one to restore.
LabelConsole ==
    /\ starting.pc = "label"
    /\ starting' = [starting EXCEPT !.pc = "materialize", !.original = label]
    /\ label' = "protected"
    /\ UNCHANGED <<logins, owner, workers, seatReceipt, guardians, verified, admitted>>

\* The private settings and runtime directories of the workers.
Materialize ==
    /\ starting.pc = "materialize" /\ starting' = [starting EXCEPT !.pc = "display"]
    /\ UNCHANGED <<logins, owner, workers, seatReceipt, label, guardians, verified, admitted>>

\* A worker is attached to the scope, then let go; the compositor's socket
\* must appear before the authentication shell is started.
StartWorker(k) ==
    /\ starting.pc = k
    /\ workers' = workers \cup {<<starting.login, k>>}
    /\ starting' = [starting EXCEPT !.pc = IF k = "display" THEN "authentication" ELSE "receipt"]
    /\ UNCHANGED <<logins, owner, seatReceipt, label, guardians, verified, admitted>>

WriteReceipt ==
    /\ starting.pc = "receipt"
    /\ seatReceipt' = starting.login /\ admitted' = admitted \cup {starting.login}
    /\ starting' = [starting EXCEPT !.pc = "ready"]
    /\ UNCHANGED <<logins, owner, workers, label, guardians, verified>>

\* authentication_ready, with both workers still there.
BecomeReady ==
    /\ starting.pc = "ready" /\ Alive(starting.login) = WorkerKinds
    /\ starting' = [starting EXCEPT !.pc = "guardian"]
    /\ UNCHANGED <<logins, owner, workers, seatReceipt, label, guardians, verified, admitted>>

\* start_guardian waits for the guardian's first look at the owner and the
\* workers; then ADMITTED is printed.
StartGuardian ==
    /\ starting.pc = "guardian" /\ starting.login \in owner /\ Alive(starting.login) = WorkerKinds
    /\ guardians' = [guardians EXCEPT ![starting.login] = [pc |-> "watch", original |-> starting.original]]
    /\ starting' = NoStart
    /\ UNCHANGED <<logins, owner, workers, seatReceipt, label, verified, admitted>>

\* The workers this start has created, in the order it kills them.
Children == CASE starting.pc \in {"receipt", "ready", "guardian"} -> WorkerKinds
              [] starting.pc = "authentication" -> {"display"}
              [] OTHER -> {}

LabelGivenBack == IF starting.pc = "label" THEN label ELSE starting.original

\* Any step raises: the children are killed and waited for, then the receipt
\* and the label are undone.
StartFails ==
    /\ starting.pc # "none"
    /\ workers' = workers \ ({starting.login} \X Children)
    /\ seatReceipt' = 0 /\ admitted' = admitted \ {starting.login}
    /\ label' = LabelGivenBack /\ starting' = NoStart
    /\ UNCHANGED <<logins, owner, guardians, verified>>

\* Child k does not end within its two seconds: the children after it are not
\* killed, and the receipt stays.  Only the label is given back.
CleanupStops(k) ==
    /\ starting.pc # "none" /\ k \in Children \cap Alive(starting.login)
    /\ workers' = IF k = "authentication" THEN workers \ {<<starting.login, "display">>} ELSE workers
    /\ label' = LabelGivenBack /\ starting' = NoStart
    /\ UNCHANGED <<logins, owner, seatReceipt, guardians, verified, admitted>>

\* systemd stops the start: the workers are in another scope and stay.
StartStopped ==
    /\ starting.pc # "none" /\ starting' = NoStart
    /\ UNCHANGED <<logins, owner, workers, seatReceipt, label, guardians, verified, admitted>>

-----------------------------------------------------------------------------
(* The guardian (monitor).                                                   *)

\* Fault: the guardian removes the receipt of the session it closes.
ReceiptRemoved(g) == IF seatReceipt = g THEN 0 ELSE seatReceipt

\* The receipt is kept until the next start has seen the workers gone.
ReceiptAfter(g) == seatReceipt

\* Something exited, or the heartbeat is late: the label first.
GuardianRestores(g) ==
    /\ guardians[g].pc = "watch"
    /\ label' = guardians[g].original /\ seatReceipt' = ReceiptAfter(g)
    /\ guardians' = [guardians EXCEPT ![g].pc = "close"]
    /\ UNCHANGED <<logins, owner, workers, starting, verified, admitted>>

\* terminate-session and stop --no-block: the owner is told to end, and PID 1
\* kills the scope later (ScopeKilled).
GuardianCloses(g) ==
    /\ guardians[g].pc = "close"
    /\ owner' = owner \ {g} /\ guardians' = [guardians EXCEPT ![g] = NoGuardian]
    /\ UNCHANGED <<logins, workers, seatReceipt, label, starting, verified, admitted>>

-----------------------------------------------------------------------------

\* verify.py: the receipt's owner and workers are alive, tty1 has its label,
\* and no process of another seat is left.
SeatIsAdmitted == seatReceipt # 0 /\ seatReceipt \in owner /\ label = "protected"
                  /\ workers = {seatReceipt} \X WorkerKinds

VerifySeat ==
    /\ verified' = IF SeatIsAdmitted THEN seatReceipt ELSE 0
    /\ UNCHANGED <<logins, owner, workers, seatReceipt, label, starting, guardians, admitted>>

\* recover_quiescent_console, with the login service stopped.
RecoverConsole ==
    /\ owner = {} /\ starting = NoStart /\ workers = {} /\ seatReceipt = 0
    /\ label = "protected" /\ label' = "ordinary"
    /\ UNCHANGED <<logins, owner, workers, seatReceipt, starting, guardians, verified, admitted>>

SeatNext ==
    \/ LogIn \/ LabelConsole \/ Materialize \/ WriteReceipt \/ BecomeReady \/ StartGuardian \/ StartFails \/ StartStopped
    \/ \E k \in WorkerKinds : StartWorker(k) \/ CleanupStops(k)
    \/ \E g \in Logins :
        \/ OwnerExits(g) \/ ScopeKilled(g) \/ BeginStart(g) \/ GuardianRestores(g) \/ GuardianCloses(g)
        \/ \E k \in WorkerKinds : WorkerExits(g, k)
    \/ VerifySeat \/ RecoverConsole

SeatSpec == SeatInit /\ [][SeatNext]_seatVars

-----------------------------------------------------------------------------

(* "Removing it before PID 1 retires this scope would allow a second         *)
(* admission to race surviving old workers": while a start lets a worker go, *)
(* no worker of a seat that was admitted before is alive, whatever exited or *)
(* was killed and however late its scope is (start, monitor).                *)
StartsOnEmptySeat ==
    [][\A k \in WorkerKinds : StartWorker(k) =>
        \A g \in admitted : Alive(g) = {}]_seatVars

(* "Undo a killed guardian's tty label only after the whole seat is absent"  *)
(* (recover_quiescent_console): once nothing of any seat is left, a tty that *)
(* is still protected can be recovered.                                      *)
ConsoleCanBeRecovered ==
    owner = {} /\ starting = NoStart /\ workers = {} /\ (\A g \in Logins : guardians[g] = NoGuardian)
        /\ label = "protected" => seatReceipt = 0
=============================================================================
