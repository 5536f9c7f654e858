--------------------------- MODULE SessionProofs ---------------------------
(***************************************************************************)
(* Proofs about what an enrolled login rests on: the mappings of its         *)
(* account, the seat it starts on and the desktop a migration replaces.      *)
(***************************************************************************)
EXTENDS Enrollment, SeatSession, Administration, ShellMigration, TLAPS

-----------------------------------------------------------------------------
(* Enrollment.                                                               *)

AccountType ==
    /\ mapping \in [Accounts -> Mappings] /\ original \in [Accounts -> Mappings]
    /\ receipt \in [phase : Phases, previous : [Accounts -> Mappings]]
    /\ command \in [pc : {"idle", "context", "writing", "trees", "finish", "prepare", "map", "rollback"}, done : SUBSET Accounts]
    /\ origins \subseteq Accounts

(* Where a command can be, by the receipt's phase: the receipt is written    *)
(* before the first mapping changes, and remembers what was there.           *)
PhaseInv ==
    /\ receipt.phase = "NONE" => command.pc = "idle" /\ mapping = original
    /\ receipt.phase # "NONE" => receipt.previous = original
    /\ command.pc \in {"context", "writing", "trees"} => receipt.phase = "PREPARING"
    /\ command.pc \in {"finish", "prepare", "map"} => receipt.phase = "PREPARED_INPUTS"

(* What the command that runs has done to the accounts.                      *)
DoneInv ==
    /\ command.pc = "prepare" => command.done \subseteq origins
    /\ command.pc = "map" => Accounts \subseteq origins
    /\ command.pc = "rollback" => \A a \in command.done : mapping[a] \in {original[a], "other"}

EnrollmentInv ==
    /\ AccountType /\ PhaseInv /\ DoneInv /\ MappedIsOnRecord
    /\ \A a \in Accounts : original[a] # "guard"

(* The commands of preparation, before an account is touched.                *)
LEMMA PreparationKeeps ==
    ASSUME EnrollmentInv,
           \/ BeginPreparation \/ ResumePreparing \/ WriteContext \/ FinishContext \/ AssembleDesktop
           \/ AssembleAdministration \/ BeginFinish \/ BeginActivation \/ CommitEnrollment \/ BeginRollback \/ CommandDies
    PROVE  EnrollmentInv'
<1> USE DEF EnrollmentInv, AccountType, PhaseInv, DoneInv, MappedIsOnRecord, Goto, Phases
<1>1. CASE BeginPreparation
  BY <1>1 DEF BeginPreparation
<1>2. CASE ResumePreparing
  BY <1>2 DEF ResumePreparing
<1>3. CASE WriteContext
  BY <1>3 DEF WriteContext
<1>4. CASE FinishContext
  BY <1>4 DEF FinishContext
<1>5. CASE AssembleDesktop
  BY <1>5 DEF AssembleDesktop
<1>6. CASE AssembleAdministration
  BY <1>6 DEF AssembleAdministration
<1>7. CASE BeginFinish
  BY <1>7 DEF BeginFinish
<1>8. CASE BeginActivation
  BY <1>8 DEF BeginActivation, Remaining
<1>9. CASE CommitEnrollment
  BY <1>9 DEF CommitEnrollment, Idle
<1>10. CASE BeginRollback
  BY <1>10 DEF BeginRollback
<1>11. CASE CommandDies
  BY <1>11 DEF CommandDies, Idle
<1> QED
  BY <1>1, <1>2, <1>3, <1>4, <1>5, <1>6, <1>7, <1>8, <1>9, <1>10, <1>11

(* The steps that touch an account, and the end of a rollback.               *)
LEMMA AccountKeeps ==
    ASSUME EnrollmentInv, NEW a \in Accounts,
           PrepareAccount(a) \/ MapAccount(a) \/ UnmapAccount(a) \/ AdministratorMaps(a) \/ CommitRollback
    PROVE  EnrollmentInv'
<1> USE DEF EnrollmentInv, AccountType, PhaseInv, DoneInv, MappedIsOnRecord, Did, Mappings, Phases
<1>1. CASE PrepareAccount(a)
  BY <1>1 DEF PrepareAccount, Remaining
<1>2. CASE MapAccount(a)
  BY <1>2 DEF MapAccount, Remaining
<1>3. CASE UnmapAccount(a)
  BY <1>3 DEF UnmapAccount, Unmapped, Restored, Remaining, Idle
<1>4. CASE AdministratorMaps(a)
  BY <1>4 DEF AdministratorMaps
<1>5. CASE CommitRollback
  BY <1>5 DEF CommitRollback, Remaining, Idle
<1> QED
  BY <1>1, <1>2, <1>3, <1>4, <1>5

(* The invariant holds in every reachable state.                             *)
LEMMA EnrollmentAlways == EnrollmentSpec => []EnrollmentInv
<1>1. EnrollmentInit => EnrollmentInv
  BY DEF EnrollmentInit, EnrollmentInv, AccountType, PhaseInv, DoneInv, MappedIsOnRecord, Mappings, Phases, Idle
<1>2. EnrollmentInv /\ [EnrollmentNext]_enrollmentVars => EnrollmentInv'
  <2> SUFFICES ASSUME EnrollmentInv, [EnrollmentNext]_enrollmentVars PROVE EnrollmentInv'
    OBVIOUS
  <2>1. CASE UNCHANGED enrollmentVars
    BY <2>1 DEF enrollmentVars, EnrollmentInv, AccountType, PhaseInv, DoneInv, MappedIsOnRecord
  <2> QED
    BY <2>1, PreparationKeeps, AccountKeeps, EnrollmentConstants DEF EnrollmentNext
<1> QED
  BY <1>1, <1>2, PTL DEF EnrollmentSpec

(* A rollback that reports success gave every account the mapping it had     *)
(* before enrollment, or left what an administrator has set since, for any   *)
(* accounts and whatever died before (rollback).                             *)
THEOREM RollbackIsTrue == EnrollmentSpec => RollbackRestores
<1>1. EnrollmentInv /\ [EnrollmentNext]_enrollmentVars =>
        [receipt'.phase = "UNENROLLED" /\ receipt.phase # "UNENROLLED" =>
            \A a \in Accounts : mapping'[a] \in {original[a], "other"}]_enrollmentVars
  <2> SUFFICES ASSUME EnrollmentInv, EnrollmentNext, receipt'.phase = "UNENROLLED", receipt.phase # "UNENROLLED", NEW a \in Accounts
               PROVE  mapping'[a] \in {original[a], "other"}
    OBVIOUS
  <2>1. CommitRollback
    BY DEF EnrollmentInv, AccountType, EnrollmentNext, BeginPreparation, ResumePreparing, WriteContext, FinishContext,
           AssembleDesktop, AssembleAdministration, BeginFinish, BeginActivation, CommitEnrollment, BeginRollback,
           CommandDies, PrepareAccount, MapAccount, UnmapAccount, AdministratorMaps
  <2> QED
    BY <2>1 DEF EnrollmentInv, DoneInv, CommitRollback, Remaining
<1> QED
  BY <1>1, EnrollmentAlways, PTL DEF EnrollmentSpec, RollbackRestores

(* An account is mapped to the guard only behind a receipt and a broker      *)
(* record, wherever the power may fail (finish_preparation).                 *)
THEOREM MappingIsRecorded == EnrollmentSpec => []MappedIsOnRecord
<1>1. EnrollmentInv => MappedIsOnRecord
  BY DEF EnrollmentInv
<1> QED
  BY <1>1, EnrollmentAlways, PTL

-----------------------------------------------------------------------------
(* The protected seat.                                                       *)

SeatType ==
    /\ logins \in Nat /\ owner \subseteq 1 .. logins /\ admitted \subseteq 1 .. logins
    /\ DOMAIN starting = {"pc", "login", "original"}
    /\ starting.pc \in {"none", "label", "materialize", "display", "authentication", "receipt", "ready", "guardian"}

BeforeReceipt == {"label", "materialize", "display", "authentication", "receipt"}
AfterReceipt == {"ready", "guardian"}

(* The start that runs is of a login; until it writes its receipt there is   *)
(* none, and its login was not admitted yet.                                 *)
StartInv ==
    /\ starting.pc # "none" => starting.login \in 1 .. logins
    /\ starting.pc \in BeforeReceipt => seatReceipt = 0 /\ starting.login \notin admitted
    /\ starting.pc \in AfterReceipt => seatReceipt = starting.login

(* A login that was admitted and has anything left, its session or a worker, *)
(* is the one the receipt names.                                             *)
ReceiptInv ==
    \A g \in admitted : g \in owner \/ Alive(g) # {} => seatReceipt = g

SeatInv == SeatType /\ StartInv /\ ReceiptInv

(* Steps that leave the receipt and add no worker, no session and no         *)
(* admission.                                                                *)
LEMMA OthersKeepSeat ==
    ASSUME SeatInv,
           \/ Materialize \/ BecomeReady \/ StartGuardian \/ StartStopped \/ VerifySeat \/ RecoverConsole \/ LabelConsole
           \/ \E k \in WorkerKinds : CleanupStops(k)
           \/ \E g \in Logins : \/ OwnerExits(g) \/ ScopeKilled(g) \/ GuardianRestores(g) \/ GuardianCloses(g)
                               \/ \E k \in WorkerKinds : WorkerExits(g, k)
    PROVE  SeatInv'
<1>1. \/ starting' = NoStart \/ starting' = starting
      \/ LabelConsole \/ Materialize \/ BecomeReady
  BY DEF StartGuardian, StartStopped, CleanupStops, VerifySeat, RecoverConsole, OwnerExits, ScopeKilled, GuardianRestores, GuardianCloses, WorkerExits
<1>2. UNCHANGED <<logins, seatReceipt, admitted>> /\ owner' \subseteq owner /\ workers' \subseteq workers
  BY DEF Materialize, BecomeReady, StartGuardian, StartStopped, CleanupStops, VerifySeat, RecoverConsole, LabelConsole,
         OwnerExits, ScopeKilled, GuardianRestores, GuardianCloses, WorkerExits, ReceiptAfter
<1>3. /\ DOMAIN starting' = {"pc", "login", "original"}
      /\ \/ starting'.pc = "none" \/ starting' = starting
         \/ starting'.login = starting.login /\ starting.pc \in BeforeReceipt /\ starting'.pc \in BeforeReceipt
         \/ starting'.login = starting.login /\ starting.pc \in AfterReceipt /\ starting'.pc \in AfterReceipt
  <2>1. CASE starting' = NoStart \/ starting' = starting
    BY <2>1 DEF NoStart, SeatInv, SeatType
  <2>2. CASE LabelConsole
    BY <2>2 DEF LabelConsole, SeatInv, SeatType, BeforeReceipt
  <2>3. CASE Materialize
    BY <2>3 DEF Materialize, SeatInv, SeatType, BeforeReceipt
  <2>4. CASE BecomeReady
    BY <2>4 DEF BecomeReady, SeatInv, SeatType, AfterReceipt
  <2> QED
    BY <1>1, <2>1, <2>2, <2>3, <2>4
<1>4. StartInv' /\ SeatType'
  BY <1>2, <1>3 DEF SeatInv, SeatType, StartInv, BeforeReceipt, AfterReceipt
<1>5. ReceiptInv'
  BY <1>2 DEF SeatInv, ReceiptInv, Alive
<1> QED
  BY <1>4, <1>5 DEF SeatInv

(* A login, and the steps of a start.                                        *)
LEMMA StartKeepsSeat ==
    ASSUME SeatInv,
           \/ LogIn \/ WriteReceipt \/ StartFails
           \/ \E g \in Logins : BeginStart(g)
           \/ \E k \in WorkerKinds : StartWorker(k)
    PROVE  SeatInv'
<1>1. CASE LogIn
  <2>1. SeatType'
    BY <1>1 DEF SeatInv, SeatType, LogIn
  <2>2. StartInv'
    BY <1>1 DEF SeatInv, SeatType, StartInv, LogIn, NoStart, BeforeReceipt, AfterReceipt
  <2>3. ReceiptInv'
    BY <1>1 DEF SeatInv, SeatType, ReceiptInv, Alive, LogIn
  <2> QED
    BY <2>1, <2>2, <2>3 DEF SeatInv
<1>2. CASE WriteReceipt
  BY <1>2 DEF SeatInv, SeatType, StartInv, ReceiptInv, Alive, WriteReceipt, BeforeReceipt, AfterReceipt
<1>3. CASE StartFails
  <2>1. SeatType'
    BY <1>3 DEF SeatInv, SeatType, StartFails, NoStart, Labels
  <2>2. StartInv'
    BY <1>3 DEF SeatInv, SeatType, StartInv, StartFails, NoStart, BeforeReceipt, AfterReceipt
  <2>3. seatReceipt \in {0, starting.login} /\ workers' \subseteq workers /\ owner' = owner /\ admitted' = admitted \ {starting.login}
    BY <1>3 DEF SeatInv, SeatType, StartInv, StartFails, BeforeReceipt, AfterReceipt
  <2>4. \A g \in admitted' : g # 0 /\ g # starting.login /\ g \in admitted
    BY <2>3 DEF SeatInv, SeatType
  <2>5. ReceiptInv'
    BY <2>3, <2>4 DEF SeatInv, ReceiptInv, Alive
  <2> QED
    BY <2>1, <2>2, <2>5 DEF SeatInv
<1>4. ASSUME NEW g \in Logins, BeginStart(g) PROVE SeatInv'
  <2>1. SeatType'
    BY <1>4 DEF SeatInv, SeatType, BeginStart, NoStart, Labels, Logins
  <2>2. \A h \in admitted : h \notin owner /\ Alive(h) = {}
    <3> SUFFICES ASSUME NEW h \in admitted, h \in owner \/ Alive(h) # {} PROVE FALSE
      OBVIOUS
    <3>1. seatReceipt = h /\ h # 0
      BY DEF SeatInv, SeatType, ReceiptInv
    <3> QED
      BY <1>4, <3>1 DEF BeginStart
  <2>3. StartInv'
    BY <1>4, <2>2 DEF SeatInv, SeatType, StartInv, BeginStart, NoStart, BeforeReceipt, AfterReceipt
  <2>4. ReceiptInv'
    BY <1>4, <2>2 DEF ReceiptInv, Alive, BeginStart
  <2> QED
    BY <2>1, <2>3, <2>4 DEF SeatInv
<1>5. ASSUME NEW k \in WorkerKinds, StartWorker(k) PROVE SeatInv'
  <2>1. starting.pc \in BeforeReceipt /\ starting'.pc \in BeforeReceipt /\ starting'.login = starting.login
    BY <1>5 DEF SeatInv, SeatType, StartWorker, WorkerKinds, BeforeReceipt
  <2>2. SeatType'
    BY <1>5 DEF SeatInv, SeatType, StartWorker, WorkerKinds
  <2>3. StartInv'
    BY <1>5, <2>1 DEF SeatInv, StartInv, StartWorker, BeforeReceipt, AfterReceipt
  <2>4. \A g \in admitted : Alive(g)' = Alive(g)
    BY <1>5, <2>1 DEF SeatInv, StartInv, StartWorker, Alive
  <2>5. ReceiptInv'
    BY <1>5, <2>4 DEF SeatInv, ReceiptInv, StartWorker
  <2> QED
    BY <2>2, <2>3, <2>5 DEF SeatInv
<1> QED
  BY <1>1, <1>2, <1>3, <1>4, <1>5

(* No start lets a worker go while one of an admitted seat is alive, for any *)
(* number of logins, whatever exited or was killed and however late PID 1    *)
(* retires a scope (start, monitor).                                         *)
THEOREM SeatIsEmpty == SeatSpec => StartsOnEmptySeat
<1>1. SeatInit => SeatInv
  BY SeatConstants DEF SeatInit, SeatInv, SeatType, StartInv, ReceiptInv, NoStart, BeforeReceipt, AfterReceipt
<1>2. SeatInv /\ [SeatNext]_seatVars => SeatInv'
  <2> SUFFICES ASSUME SeatInv, [SeatNext]_seatVars PROVE SeatInv'
    OBVIOUS
  <2>1. CASE UNCHANGED seatVars
    BY <2>1 DEF seatVars, SeatInv, SeatType, StartInv, ReceiptInv, Alive
  <2> QED
    BY <2>1, OthersKeepSeat, StartKeepsSeat DEF SeatNext
<1>3. SeatInv /\ [SeatNext]_seatVars =>
        [\A k \in WorkerKinds : StartWorker(k) => \A g \in admitted : Alive(g) = {}]_seatVars
  <2> SUFFICES ASSUME SeatInv, NEW k \in WorkerKinds, StartWorker(k), NEW g \in admitted
               PROVE  Alive(g) = {}
    OBVIOUS
  <2>1. seatReceipt = 0 /\ g # 0
    BY DEF SeatInv, SeatType, StartInv, StartWorker, WorkerKinds, BeforeReceipt
  <2> QED
    BY <2>1 DEF SeatInv, ReceiptInv
<1> QED
  BY <1>1, <1>2, <1>3, PTL DEF SeatSpec, StartsOnEmptySeat

-----------------------------------------------------------------------------
(* The lock of the session.                                                  *)

(* A challenge keeps the session locked while it runs.                       *)
NativeInv ==
    /\ native \in [shouldLock : BOOLEAN, authorization : BOOLEAN, wasLocked : BOOLEAN, refused : BOOLEAN]
    /\ native.authorization => native.shouldLock
    /\ UserLockSurvives

(* The worker, its terminal and the two files leave the shell's state alone. *)
LEMMA AdministrationLeavesLock ==
    ASSUME AdministrationNext, ~LockSession, ~UnlockSession, ~ChallengeBegins, ~ChallengeEnds, ~RequestLock, ~RetryLock
    PROVE  UNCHANGED <<native, locked>>
<1>1. CASE ReleaseLock \/ WriteReadiness \/ YieldExpires \/ AdmitAdministration \/ StartTerminal \/ TerminalClaims
  BY <1>1 DEF ReleaseLock, WriteReadiness, YieldExpires, AdmitAdministration, StartTerminal, TerminalClaims
<1>2. CASE ReadyAcknowledged \/ RequestPause \/ TerminalPauses \/ PauseAcknowledged \/ Resume \/ Renew
  BY <1>2 DEF ReadyAcknowledged, RequestPause, TerminalPauses, PauseAcknowledged, Resume, Renew
<1>3. CASE TerminalExits \/ TerminalFails \/ WorkerEnds \/ WorkerKilled
  BY <1>3 DEF TerminalExits, TerminalFails, WorkerEnds, WorkerKilled
<1> QED
  BY <1>1, <1>2, <1>3 DEF AdministrationNext

(* A session the user has locked is wanted locked until PAM lets the user    *)
(* in, for any number of challenges and Administration requests and whatever *)
(* worker dies: the end of a challenge gives back what it found, and a lock  *)
(* asked for meanwhile counts as found (protected_authorization, Lock.qml).  *)
THEOREM LockIsKept == AdministrationSpec => []UserLockSurvives
<1>1. AdministrationInit => NativeInv
  BY DEF AdministrationInit, NativeInv, UserLockSurvives
<1>2. NativeInv /\ [AdministrationNext]_administrationVars => NativeInv'
  <2> SUFFICES ASSUME NativeInv, [AdministrationNext]_administrationVars
               PROVE  NativeInv'
    OBVIOUS
  <2> USE DEF NativeInv, UserLockSurvives
  <2>1. CASE LockSession
    <3>1. CASE native.authorization
      <4>1. native' = [native EXCEPT !.wasLocked = TRUE] /\ locked' = TRUE
        BY <2>1, <3>1 DEF LockSession, Lock
      <4>2. /\ native'.shouldLock = native.shouldLock /\ native'.wasLocked = TRUE
            /\ native' \in [shouldLock : BOOLEAN, authorization : BOOLEAN, wasLocked : BOOLEAN, refused : BOOLEAN]
        BY <4>1
      <4>3. native.shouldLock
        BY <3>1
      <4> QED
        BY <4>2, <4>3
    <3>2. CASE ~native.authorization
      BY <2>1, <3>2 DEF LockSession, Lock
    <3> QED
      BY <3>1, <3>2
  <2>2. CASE UnlockSession
    BY <2>2 DEF UnlockSession
  <2>3. CASE ChallengeBegins
    BY <2>3 DEF ChallengeBegins
  <2>4. CASE ChallengeEnds
    BY <2>4 DEF ChallengeEnds
  <2>5. CASE UNCHANGED <<native, locked>>
    BY <2>5
  <2>6. CASE RequestLock \/ RetryLock
    <3>1. /\ (native' = native \/ native' = [native EXCEPT !.refused = TRUE] \/ native' = [native EXCEPT !.refused = FALSE])
          /\ locked' = locked
      BY <2>6 DEF RequestLock, RetryLock
    <3>2. /\ native' \in [shouldLock : BOOLEAN, authorization : BOOLEAN, wasLocked : BOOLEAN, refused : BOOLEAN]
          /\ native'.shouldLock = native.shouldLock /\ native'.authorization = native.authorization
          /\ native'.wasLocked = native.wasLocked
      BY <3>1
    <3> QED
      BY <3>1, <3>2
  <2> QED
    BY <2>1, <2>2, <2>3, <2>4, <2>5, <2>6, AdministrationLeavesLock DEF administrationVars
<1> QED
  <2>1. NativeInv => UserLockSurvives
    BY DEF NativeInv
  <2> QED
    BY <1>1, <1>2, <2>1, PTL DEF AdministrationSpec

-----------------------------------------------------------------------------
(* Migration of the desktop.                                                 *)

MigrationSteps == Parts \cup {"receipt", "link", "policy"}
Members(list) == {list[i] : i \in DOMAIN list}

(* What a migration of this kind replaces, and its undoing writes back.      *)
StepsOf(kind) == Members(Payload(kind)) \cup {"receipt", "link"} \cup (IF kind = "screenshot" THEN {"policy"} ELSE {})

(* The members of a list that is put together from two.                      *)
LEMMA MembersOfBoth ==
    ASSUME NEW S, NEW s \in Seq(S), NEW t \in Seq(S)
    PROVE  s \o t \in Seq(S) /\ Members(s \o t) = Members(s) \cup Members(t)
<1>1. s \o t \in Seq(S) /\ Len(s \o t) = Len(s) + Len(t) /\ Len(s) \in Nat /\ Len(t) \in Nat
  OBVIOUS
<1>2. DOMAIN s = 1 .. Len(s) /\ DOMAIN t = 1 .. Len(t) /\ DOMAIN (s \o t) = 1 .. Len(s) + Len(t)
  BY <1>1
<1>3. \A i \in 1 .. Len(s) : (s \o t)[i] = s[i]
  BY <1>1
<1>4. \A i \in 1 .. Len(t) : (s \o t)[Len(s) + i] = t[i]
  BY <1>1
<1>5. ASSUME NEW i \in 1 .. Len(s) + Len(t) PROVE (s \o t)[i] \in Members(s) \cup Members(t)
  <2>1. CASE i <= Len(s)
    BY <1>1, <1>2, <1>3, <2>1 DEF Members
  <2>2. CASE i > Len(s)
    <3>1. i - Len(s) \in 1 .. Len(t) /\ i = Len(s) + (i - Len(s))
      BY <1>1, <2>2
    <3> QED
      BY <1>2, <1>4, <3>1 DEF Members
  <2> QED
    BY <1>1, <2>1, <2>2
<1>6. ASSUME NEW i \in 1 .. Len(s) PROVE s[i] \in Members(s \o t)
  BY <1>1, <1>2, <1>3 DEF Members
<1>7. ASSUME NEW i \in 1 .. Len(t) PROVE t[i] \in Members(s \o t)
  <2>1. Len(s) + i \in 1 .. Len(s) + Len(t)
    BY <1>1
  <2> QED
    BY <1>2, <1>4, <2>1 DEF Members
<1> QED
  BY <1>1, <1>2, <1>5, <1>6, <1>7 DEF Members

(* The members of a list without its first one.                              *)
LEMMA MembersOfTail ==
    ASSUME NEW S, NEW s \in Seq(S), s # <<>>
    PROVE  Tail(s) \in Seq(S) /\ Head(s) \in S /\ Members(s) = {Head(s)} \cup Members(Tail(s))
<1>1. Tail(s) \in Seq(S) /\ Len(s) \in Nat /\ Len(s) > 0 /\ Len(Tail(s)) = Len(s) - 1 /\ Head(s) = s[1] /\ Head(s) \in S
  OBVIOUS
<1>2. DOMAIN s = 1 .. Len(s) /\ DOMAIN Tail(s) = 1 .. Len(s) - 1
  BY <1>1
<1>3. \A i \in 1 .. Len(s) - 1 : Tail(s)[i] = s[i + 1]
  BY <1>1
<1>4. ASSUME NEW i \in 1 .. Len(s) PROVE s[i] \in {Head(s)} \cup Members(Tail(s))
  <2>1. CASE i = 1
    BY <1>1, <2>1
  <2>2. CASE i > 1
    <3>1. i - 1 \in 1 .. Len(s) - 1 /\ i = (i - 1) + 1
      BY <1>1, <2>2
    <3> QED
      BY <1>2, <1>3, <3>1 DEF Members
  <2> QED
    BY <1>1, <2>1, <2>2
<1>5. ASSUME NEW i \in 1 .. Len(s) - 1 PROVE Tail(s)[i] \in Members(s)
  <2>1. i + 1 \in 1 .. Len(s)
    BY <1>1
  <2> QED
    BY <1>2, <1>3, <2>1 DEF Members
<1>6. Head(s) \in Members(s)
  BY <1>1, <1>2 DEF Members
<1> QED
  BY <1>1, <1>2, <1>4, <1>5, <1>6 DEF Members

(* What is committed is what is undone: the same files, receipts and policy  *)
(* (migrate, migrate_verifier_only, migrate-screenshot).                     *)
LEMMA UndoesWhatItCommits ==
    ASSUME NEW kind \in MigrationKinds
    PROVE  /\ CommitSteps(kind) \in Seq(MigrationSteps) /\ Members(CommitSteps(kind)) = StepsOf(kind)
           /\ UndoSteps(kind) \in Seq(MigrationSteps) /\ Members(UndoSteps(kind)) = StepsOf(kind)
           /\ StepsOf(kind) \subseteq MigrationSteps
<1> DEFINE receipts == <<"receipt", "link">>
           load == IF kind = "screenshot" THEN <<"policy">> ELSE <<>>
<1>1. Payload(kind) \in Seq(MigrationSteps)
  <2>1. {"dms", "session.py", "verify.py", "labwc"} \subseteq MigrationSteps
    BY DEF MigrationSteps, Parts
  <2>2. /\ <<"dms", "session.py", "verify.py">> \in Seq(MigrationSteps) /\ <<"verify.py">> \in Seq(MigrationSteps)
        /\ <<"session.py">> \in Seq(MigrationSteps) /\ <<"labwc">> \in Seq(MigrationSteps)
    BY <2>1
  <2>3. Payload(kind) \in {<<"dms", "session.py", "verify.py">>, <<"verify.py">>, <<"session.py">>, <<"labwc">>}
    BY Zenon DEF Payload, MigrationKinds
  <2> QED
    BY <2>2, <2>3
<1>2. receipts \in Seq(MigrationSteps) /\ Members(receipts) = {"receipt", "link"}
  BY DEF MigrationSteps, Members
<1>3. load \in Seq(MigrationSteps) /\ Members(load) = (IF kind = "screenshot" THEN {"policy"} ELSE {})
  <2>1. <<"policy">> \in Seq(MigrationSteps) /\ Members(<<"policy">>) = {"policy"}
    BY DEF MigrationSteps, Members
  <2>2. <<>> \in Seq(MigrationSteps) /\ Members(<<>>) = {}
    BY DEF Members
  <2> QED
    BY <2>1, <2>2
<1>4. CommitSteps(kind) = (load \o Payload(kind)) \o receipts /\ UndoSteps(kind) = (Payload(kind) \o receipts) \o load
  BY DEF CommitSteps, UndoSteps
<1> HIDE DEF receipts, load
<1>5. load \o Payload(kind) \in Seq(MigrationSteps) /\ Members(load \o Payload(kind)) = Members(load) \cup Members(Payload(kind))
  BY <1>1, <1>3, MembersOfBoth
<1>6. Payload(kind) \o receipts \in Seq(MigrationSteps) /\ Members(Payload(kind) \o receipts) = Members(Payload(kind)) \cup Members(receipts)
  BY <1>1, <1>2, MembersOfBoth
<1>7. /\ CommitSteps(kind) \in Seq(MigrationSteps)
      /\ Members(CommitSteps(kind)) = (Members(load) \cup Members(Payload(kind))) \cup Members(receipts)
  <2> DEFINE first == load \o Payload(kind)
  <2>1. first \in Seq(MigrationSteps) /\ CommitSteps(kind) = first \o receipts /\ Members(first) = Members(load) \cup Members(Payload(kind))
    BY <1>4, <1>5
  <2> HIDE DEF first
  <2>2. first \o receipts \in Seq(MigrationSteps) /\ Members(first \o receipts) = Members(first) \cup Members(receipts)
    BY <1>2, <2>1, MembersOfBoth
  <2> QED
    BY <2>1, <2>2
<1>8. /\ UndoSteps(kind) \in Seq(MigrationSteps)
      /\ Members(UndoSteps(kind)) = (Members(Payload(kind)) \cup Members(receipts)) \cup Members(load)
  <2> DEFINE first == Payload(kind) \o receipts
  <2>1. first \in Seq(MigrationSteps) /\ UndoSteps(kind) = first \o load /\ Members(first) = Members(Payload(kind)) \cup Members(receipts)
    BY <1>4, <1>6
  <2> HIDE DEF first
  <2>2. first \o load \in Seq(MigrationSteps) /\ Members(first \o load) = Members(first) \cup Members(load)
    BY <1>3, <2>1, MembersOfBoth
  <2> QED
    BY <2>1, <2>2
<1>9. Members(Payload(kind)) \subseteq MigrationSteps
  BY <1>1 DEF Members
<1> QED
  BY <1>2, <1>3, <1>7, <1>8, <1>9 DEF StepsOf, MigrationSteps

Versions == [Parts -> Nat]
Desktops == [files : Versions, receipt : Versions, link : Versions, shell : Modes]
Loaded == [display : Nat, usbguard : Nat]

(* What a migration keeps beside the desktop: nothing but its input until    *)
(* the commit begins, then what is still to be written and what was there.   *)
PendingShape ==
    migration.pc \in {"checked", "assembled"} =>
        DOMAIN migration = {"pc", "kind", "release"} /\ migration.kind \in MigrationKinds /\ migration.release \in Nat
CommitShape ==
    migration.pc \in {"commit", "undo"} =>
        /\ DOMAIN migration = {"pc", "kind", "todo", "target", "old", "oldPolicy", "newPolicy"}
        /\ migration.kind \in MigrationKinds /\ migration.todo \in Seq(MigrationSteps)
        /\ Members(migration.todo) \subseteq StepsOf(migration.kind)
        /\ migration.target \in Versions /\ migration.old \in Desktops
        /\ migration.oldPolicy \in Nat /\ migration.newPolicy \in Nat

(* The desktop was bound by its receipt when the old files were kept, and    *)
(* what the migration does not replace is as it was.                         *)
KeptInv ==
    /\ migration.pc \in {"checked", "assembled"} => Bound
    /\ migration.pc \in {"commit", "undo"} =>
        /\ migration.old.files = migration.old.receipt
        /\ \A p \in Parts : p \notin StepsOf(migration.kind) => desktop.files[p] = migration.old.files[p]
        /\ "policy" \notin StepsOf(migration.kind) => policy.display = migration.oldPolicy
        /\ "dms" \notin StepsOf(migration.kind) => desktop.shell = migration.old.shell

(* One replaced thing is what it was before the migration.                   *)
WrittenBack(s) ==
    /\ s \in Parts => desktop.files[s] = migration.old.receipt[s]
    /\ s = "dms" => desktop.shell = "0700"
    /\ s = "receipt" => desktop.receipt = migration.old.receipt
    /\ s = "link" => desktop.link = migration.old.link
    /\ s = "policy" => policy.display = migration.oldPolicy

(* The undoing has yet to write what is not yet as it was.                   *)
UndoInv ==
    migration.pc = "undo" =>
        \A s \in StepsOf(migration.kind) : s \in Members(migration.todo) \/ WrittenBack(s)

MigrationInv ==
    /\ desktop \in Desktops /\ policy \in Loaded /\ release \in Nat
    /\ PendingShape /\ CommitShape /\ KeptInv /\ UndoInv

(* One replacement keeps the invariant, also that of the undoing when what   *)
(* it writes is what was there (atomic_write, semodule).                     *)
LEMMA WriteKeepsMigration ==
    ASSUME MigrationInv, migration.pc \in {"commit", "undo"}, migration.todo # <<>>,
           NEW files \in Versions, NEW link \in Versions, NEW display \in Nat, NEW mode \in Modes,
           Write(Head(migration.todo), files, link, display, mode),
           migration.pc = "undo" =>
             files = migration.old.receipt /\ link = migration.old.link /\ display = migration.oldPolicy /\ mode = "0700"
    PROVE  MigrationInv'
<1> DEFINE step == Head(migration.todo)
           rest == Tail(migration.todo)
<1>1. /\ rest \in Seq(MigrationSteps) /\ step \in MigrationSteps
      /\ Members(migration.todo) = {step} \cup Members(rest)
  BY MembersOfTail DEF MigrationInv, CommitShape
<1> HIDE DEF step, rest
<1>2. /\ desktop' = CASE step \in Parts -> [desktop EXCEPT !.files[step] = files[step],
                                                           !.shell = IF step = "dms" THEN mode ELSE @]
                      [] step = "receipt" -> [desktop EXCEPT !.receipt = files]
                      [] step = "link" -> [desktop EXCEPT !.link = link]
                      [] OTHER -> desktop
      /\ policy' = IF step = "policy" THEN [policy EXCEPT !.display = display] ELSE policy
      /\ migration' = [migration EXCEPT !.todo = rest] /\ release' = release
  BY DEF Write, step, rest
<1>3. /\ DOMAIN migration' = DOMAIN migration /\ "todo" \in DOMAIN migration /\ migration'.todo = rest
      /\ migration'.pc = migration.pc /\ migration'.kind = migration.kind /\ migration'.target = migration.target
      /\ migration'.old = migration.old /\ migration'.oldPolicy = migration.oldPolicy /\ migration'.newPolicy = migration.newPolicy
  BY <1>2 DEF MigrationInv, CommitShape
<1>4. /\ desktop' \in Desktops /\ policy' \in Loaded
      /\ \A p \in Parts : desktop'.files[p] = IF p = step THEN files[p] ELSE desktop.files[p]
      /\ desktop'.receipt = (IF step = "receipt" THEN files ELSE desktop.receipt)
      /\ desktop'.shell = (IF step = "dms" THEN mode ELSE desktop.shell)
      /\ desktop'.link = (IF step = "link" THEN link ELSE desktop.link)
      /\ policy'.display = (IF step = "policy" THEN display ELSE policy.display)
  <2> USE DEF MigrationInv, Desktops, Versions, Loaded
  <2>1. "receipt" \notin Parts /\ "link" \notin Parts /\ "policy" \notin Parts /\ "dms" \in Parts
    BY DEF Parts
  <2>2. CASE step \in Parts
    BY <1>2, <2>1, <2>2
  <2>3. CASE step = "receipt"
    BY <1>2, <2>1, <2>3
  <2>4. CASE step = "link"
    BY <1>2, <2>1, <2>4
  <2>5. CASE step = "policy"
    BY <1>2, <2>1, <2>5
  <2> QED
    BY <1>1, <2>2, <2>3, <2>4, <2>5 DEF MigrationSteps
<1>5. step \in StepsOf(migration.kind) /\ Members(rest) \subseteq StepsOf(migration.kind)
  BY <1>1 DEF MigrationInv, CommitShape
<1>6. PendingShape' /\ CommitShape'
  BY <1>1, <1>3, <1>5 DEF MigrationInv, PendingShape, CommitShape
<1>7. KeptInv'
  BY <1>3, <1>4, <1>5 DEF MigrationInv, KeptInv
<1>8. UndoInv'
  <2> SUFFICES ASSUME migration.pc = "undo", NEW s \in StepsOf(migration.kind), s \notin Members(rest)
               PROVE  WrittenBack(s)'
    BY <1>3 DEF UndoInv
  <2>1. s = step \/ WrittenBack(s)
    BY <1>1 DEF MigrationInv, UndoInv
  <2>2. "receipt" \notin Parts /\ "link" \notin Parts /\ "policy" \notin Parts
    BY DEF Parts
  <2>3. CASE s = step
    BY <1>3, <1>4, <2>2, <2>3 DEF WrittenBack
  <2>4. CASE s # step /\ WrittenBack(s)
    BY <1>3, <1>4, <2>2, <2>4 DEF WrittenBack
  <2> QED
    BY <2>1, <2>3, <2>4
<1>9. release' \in Nat
  BY <1>2 DEF MigrationInv
<1> QED
  BY <1>4, <1>6, <1>7, <1>8, <1>9 DEF MigrationInv

(* The commit begins: what is on the desktop now is kept, bound as it is.    *)
LEMMA PrepareKeepsMigration ==
    ASSUME MigrationInv, PrepareCommit
    PROVE  MigrationInv'
<1> DEFINE target == Target(migration.kind, migration.release)
<1>1. /\ migration.pc = "assembled" /\ migration.kind \in MigrationKinds /\ migration.release \in Nat /\ Bound
      /\ desktop' = desktop /\ release' = release /\ desktop \in Desktops /\ policy \in Loaded /\ release \in Nat
  BY DEF MigrationInv, PrepareCommit, PendingShape, KeptInv
<1>2. target \in Versions
  BY <1>1 DEF Target, Versions, Desktops
<1>3. policy' \in Loaded
  BY <1>1 DEF PrepareCommit, Loaded
<1>4. CommitSteps(migration.kind) \in Seq(MigrationSteps) /\ Members(CommitSteps(migration.kind)) = StepsOf(migration.kind)
  BY <1>1, UndoesWhatItCommits
<1>5. \/ migration' = [pc |-> "refresh", kind |-> migration.kind]
      \/ migration' = [pc |-> "commit", kind |-> migration.kind, todo |-> CommitSteps(migration.kind), target |-> target,
                       old |-> desktop, oldPolicy |-> policy'.display, newPolicy |-> migration.release]
  BY DEF PrepareCommit
<1> HIDE DEF target
<1>6. CASE migration' = [pc |-> "refresh", kind |-> migration.kind]
  BY <1>1, <1>3, <1>6 DEF MigrationInv, PendingShape, CommitShape, KeptInv, UndoInv
<1>7. CASE migration' = [pc |-> "commit", kind |-> migration.kind, todo |-> CommitSteps(migration.kind), target |-> target,
                         old |-> desktop, oldPolicy |-> policy'.display, newPolicy |-> migration.release]
  <2>1. /\ DOMAIN migration' = {"pc", "kind", "todo", "target", "old", "oldPolicy", "newPolicy"}
        /\ migration'.pc = "commit" /\ migration'.kind = migration.kind /\ migration'.todo = CommitSteps(migration.kind)
        /\ migration'.target = target /\ migration'.old = desktop /\ migration'.oldPolicy = policy'.display
        /\ migration'.newPolicy = migration.release
    BY <1>7
  <2>2. policy'.display \in Nat
    BY <1>3 DEF Loaded
  <2>3. PendingShape' /\ CommitShape' /\ UndoInv'
    BY <1>1, <1>2, <1>4, <2>1, <2>2 DEF PendingShape, CommitShape, UndoInv
  <2>4. KeptInv'
    BY <1>1, <2>1 DEF KeptInv, Bound
  <2> QED
    BY <1>1, <1>3, <2>3, <2>4 DEF MigrationInv
<1> QED
  BY <1>5, <1>6, <1>7

(* A step or the readback fails.                                             *)
LEMMA FailureKeepsMigration ==
    ASSUME MigrationInv, MigrationFails
    PROVE  MigrationInv'
<1>1. desktop' = desktop /\ policy' = policy /\ release' = release
  BY DEF MigrationFails
<1>2. CASE migration' = NoMigration
  BY <1>1, <1>2 DEF MigrationInv, PendingShape, CommitShape, KeptInv, UndoInv, NoMigration
<1>3. CASE migration.pc = "commit" /\ migration' = [migration EXCEPT !.pc = "undo", !.todo = UndoSteps(migration.kind)]
  <2>1. /\ DOMAIN migration' = DOMAIN migration /\ migration'.pc = "undo" /\ migration'.todo = UndoSteps(migration.kind)
        /\ migration'.kind = migration.kind /\ migration'.target = migration.target
        /\ migration'.old = migration.old /\ migration'.oldPolicy = migration.oldPolicy /\ migration'.newPolicy = migration.newPolicy
    BY <1>3 DEF MigrationInv, CommitShape
  <2>2. UndoSteps(migration.kind) \in Seq(MigrationSteps) /\ Members(UndoSteps(migration.kind)) = StepsOf(migration.kind)
    BY <1>3, UndoesWhatItCommits DEF MigrationInv, CommitShape
  <2>3. PendingShape' /\ CommitShape' /\ UndoInv'
    BY <1>3, <2>1, <2>2 DEF MigrationInv, PendingShape, CommitShape, UndoInv
  <2>4. KeptInv'
    BY <1>1, <1>3, <2>1 DEF MigrationInv, KeptInv
  <2> QED
    BY <1>1, <2>3, <2>4 DEF MigrationInv
<1> QED
  BY <1>2, <1>3 DEF MigrationFails

(* The rest of the migration and of the world.                               *)
LEMMA OthersKeepMigration ==
    ASSUME MigrationInv,
           \/ ReleaseInstalled \/ Login \/ Logout \/ StartScreenshotMigration
           \/ \E kind \in MigrationKinds : StartMigration(kind)
           \/ AssembleShell \/ Finish \/ Undone \/ RefreshBroker \/ MigrationDies
    PROVE  MigrationInv'
<1> USE DEF MigrationInv, PendingShape, CommitShape, KeptInv, UndoInv, Bound, WrittenBack
<1>1. CASE ReleaseInstalled
  BY <1>1 DEF ReleaseInstalled
<1>2. CASE Login \/ Logout
  BY <1>2 DEF Login, Logout
<1>3. CASE StartScreenshotMigration
  BY <1>3 DEF StartScreenshotMigration, Begin, ReceiptsAgree, MigrationKinds
<1>4. CASE \E kind \in MigrationKinds : StartMigration(kind)
  BY <1>4 DEF StartMigration, Begin
<1>5. CASE AssembleShell
  BY <1>5 DEF AssembleShell
<1>6. CASE Finish \/ Undone \/ RefreshBroker \/ MigrationDies
  <2>1. /\ desktop' = desktop /\ policy' = policy /\ release' = release
        /\ (migration' = NoMigration \/ migration' = [pc |-> "refresh", kind |-> migration.kind])
    BY <1>6 DEF Finish, Undone, RefreshBroker, MigrationDies
  <2>2. migration'.pc \in {"none", "refresh"}
    BY <2>1 DEF NoMigration
  <2> QED
    BY <2>1, <2>2
<1> QED
  BY <1>1, <1>2, <1>3, <1>4, <1>5, <1>6

(* A desktop whose migration gave up is the one before it: every file, both  *)
(* receipts and the display policy, and but for the mode that a full one     *)
(* leaves on the shell's directory; whichever step failed and for every      *)
(* sequence of releases, logins and crashes before (the except branches of   *)
(* migrate, migrate_verifier_only and migrate-screenshot).                   *)
THEOREM UndoGivesBack == MigrationSpec => UndoneIsAsBefore
<1>1. MigrationInit => MigrationInv
  BY DEF MigrationInit, MigrationInv, Modes, Desktops, Versions, Loaded, PendingShape, CommitShape, KeptInv, UndoInv, NoMigration
<1>2. MigrationInv /\ [MigrationNext]_migrationVars => MigrationInv'
  <2> SUFFICES ASSUME MigrationInv, [MigrationNext]_migrationVars PROVE MigrationInv'
    OBVIOUS
  <2>1. CASE UNCHANGED migrationVars
    BY <2>1 DEF migrationVars, MigrationInv, PendingShape, CommitShape, KeptInv, UndoInv, Bound, WrittenBack
  <2>2. CASE CommitStep
    <3>1. /\ migration.target \in Versions /\ migration.newPolicy \in Nat /\ migration.pc = "commit" /\ migration.todo # <<>>
      BY <2>2 DEF CommitStep, MigrationInv, CommitShape
    <3> QED
      BY <2>2, <3>1, WriteKeepsMigration DEF CommitStep, Modes
  <2>3. CASE UndoStep
    <3>1. /\ migration.old.receipt \in Versions /\ migration.old.link \in Versions /\ migration.oldPolicy \in Nat
          /\ migration.pc = "undo" /\ migration.todo # <<>>
      BY <2>3 DEF UndoStep, MigrationInv, CommitShape, Desktops
    <3> QED
      BY <2>3, <3>1, WriteKeepsMigration DEF UndoStep, Modes
  <2> QED
    BY <2>1, <2>2, <2>3, PrepareKeepsMigration, FailureKeepsMigration, OthersKeepMigration DEF MigrationNext
<1>3. MigrationInv =>
        [Undone => /\ desktop' = [migration.old EXCEPT !.shell = IF migration.kind = "full" THEN "0700" ELSE @]
                   /\ policy'.display = migration.oldPolicy]_migrationVars
  <2> SUFFICES ASSUME MigrationInv, Undone
               PROVE  /\ desktop = [migration.old EXCEPT !.shell = IF migration.kind = "full" THEN "0700" ELSE @]
                      /\ policy.display = migration.oldPolicy /\ desktop' = desktop /\ policy' = policy
    OBVIOUS
  <2>1. /\ migration.pc = "undo" /\ migration.todo = <<>> /\ desktop' = desktop /\ policy' = policy
        /\ migration.kind \in MigrationKinds /\ migration.old \in Desktops /\ desktop \in Desktops
    BY DEF Undone, MigrationInv, CommitShape
  <2>2. Members(migration.todo) = {}
    BY <2>1 DEF Members
  <2>3. \A s \in StepsOf(migration.kind) : WrittenBack(s)
    BY <2>1, <2>2 DEF MigrationInv, UndoInv
  <2>4. "receipt" \in StepsOf(migration.kind) /\ "link" \in StepsOf(migration.kind)
    BY DEF StepsOf
  <2>5. desktop.receipt = migration.old.receipt /\ desktop.link = migration.old.link
    BY <2>3, <2>4 DEF WrittenBack
  <2>6. \A p \in Parts : desktop.files[p] = migration.old.files[p]
    BY <2>1, <2>3 DEF MigrationInv, KeptInv, WrittenBack
  <2>7. desktop.files = migration.old.files
    BY <2>1, <2>6 DEF Desktops, Versions
  <2>8. "dms" \in StepsOf(migration.kind) <=> migration.kind = "full"
    <3>1. \/ migration.kind = "full" /\ Payload(migration.kind) = <<"dms", "session.py", "verify.py">>
          \/ migration.kind = "verifier" /\ Payload(migration.kind) = <<"verify.py">>
          \/ migration.kind = "session" /\ Payload(migration.kind) = <<"session.py">>
          \/ migration.kind = "screenshot" /\ Payload(migration.kind) = <<"labwc">>
      BY <2>1, Zenon DEF Payload, MigrationKinds
    <3>2. /\ "dms" \in Members(<<"dms", "session.py", "verify.py">>) /\ "dms" \notin Members(<<"verify.py">>)
          /\ "dms" \notin Members(<<"session.py">>) /\ "dms" \notin Members(<<"labwc">>)
      BY DEF Members
    <3> QED
      BY <3>1, <3>2 DEF StepsOf
  <2>10. desktop.shell = IF migration.kind = "full" THEN "0700" ELSE migration.old.shell
    BY <2>1, <2>3, <2>8 DEF MigrationInv, KeptInv, WrittenBack
  <2>11. desktop = [migration.old EXCEPT !.shell = IF migration.kind = "full" THEN "0700" ELSE @]
    BY <2>1, <2>5, <2>7, <2>10 DEF Desktops
  <2>9. policy.display = migration.oldPolicy
    BY <2>1, <2>3 DEF MigrationInv, KeptInv, WrittenBack
  <2> QED
    BY <2>1, <2>9, <2>11
<1> QED
  BY <1>1, <1>2, <1>3, PTL DEF MigrationSpec, UndoneIsAsBefore
=============================================================================
