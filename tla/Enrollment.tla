----------------------------- MODULE Enrollment -----------------------------
(***************************************************************************)
(* Enrollment of the installer's accounts (greyward-enrollment/enroll.py):   *)
(* prepare assembles the policy and the protected desktop, then maps every  *)
(* account to the guard user; rollback-initial takes the mappings back.     *)
(* One command runs at a time (a file lock).  Any of its steps may fail, and *)
(* the power may fail between two of them: both end the command there, and  *)
(* what it wrote stays.  transaction.json is replaced atomically; the        *)
(* context file and the assembled trees are not.                            *)
(***************************************************************************)
EXTENDS Naturals, FiniteSets

CONSTANT Accounts        \* the installer's accounts

ASSUME EnrollmentConstants == IsFiniteSet(Accounts) /\ Accounts # {}

VARIABLES
    mapping,      \* the SELinux login of each account
    original,     \* what it was before enrollment touched it
    receipt,      \* transaction.json
    origins,      \* the broker's account-origins
    sudoers,      \* rules under /etc/sudoers.d
    assembly,     \* the context file, the generated trees
    command       \* the command that runs, the accounts it has done

enrollmentVars == <<mapping, original, receipt, origins, sudoers, assembly, command>>

-----------------------------------------------------------------------------

Phases == {"NONE", "PREPARING", "PREPARED_INPUTS", "PENDING_SESSION", "UNENROLLED"}

\* "default": no entry of its own; "other": what an administrator chose since.
Mappings == {"default", "explicit", "guard", "other"}
Idle == [pc |-> "idle", done |-> {}]

EnrollmentTypeOK ==
    /\ {mapping, original, receipt.previous} \subseteq [Accounts -> Mappings] /\ receipt.phase \in Phases
    /\ origins \subseteq Accounts /\ sudoers \subseteq Accounts
    /\ assembly \in [context : {"absent", "partial", "complete"}, trees : {"absent", "partial", "complete"}]
    /\ command \in [pc : {"idle", "context", "writing", "trees", "finish", "prepare", "map", "rollback"}, done : SUBSET Accounts]

EnrollmentInit ==
    /\ mapping \in [Accounts -> {"default", "explicit"}] /\ original = mapping
    /\ receipt = [phase |-> "NONE", previous |-> mapping]
    /\ origins = {} /\ sudoers = {}
    /\ assembly = [context |-> "absent", trees |-> "absent"] /\ command = Idle

Goto(pc) == command' = [pc |-> pc, done |-> {}]
Did(a) == command' = [command EXCEPT !.done = @ \cup {a}]
Remaining == Accounts \ command.done
AsBefore == mapping = receipt.previous

-----------------------------------------------------------------------------
(* prepare.                                                                  *)

\* No receipt: nothing of an earlier enrollment may be there.
BeginPreparation ==
    /\ command.pc = "idle" /\ receipt.phase = "NONE" /\ assembly.trees = "absent"
    /\ \A a \in Accounts : mapping[a] # "guard"
    /\ receipt' = [phase |-> "PREPARING", previous |-> mapping]
    /\ Goto("context")
    /\ UNCHANGED <<mapping, original, origins, sudoers, assembly>>

\* validate_preparing_transaction, then the partial trees are discarded.
ResumePreparing ==
    /\ command.pc = "idle" /\ receipt.phase = "PREPARING"
    /\ AsBefore /\ origins = {}
    /\ assembly' = [assembly EXCEPT !.trees = "absent"] /\ Goto("context")
    /\ UNCHANGED <<mapping, original, receipt, origins, sudoers>>

\* The policy is loaded and the SELinux users are there, both for any number
\* of times; then the context file: written in place, or the same as it should be.
WriteContext ==
    /\ command.pc = "context"
    /\ \/ assembly.context = "absent" /\ assembly' = [assembly EXCEPT !.context = "partial"] /\ Goto("writing")
       \/ assembly.context = "complete" /\ UNCHANGED assembly /\ Goto("trees")
    /\ UNCHANGED <<mapping, original, receipt, origins, sudoers>>

\* The rest of write_text and the chmod, in the same command.
FinishContext ==
    /\ command.pc = "writing"
    /\ assembly' = [assembly EXCEPT !.context = "complete"] /\ Goto("trees")
    /\ UNCHANGED <<mapping, original, receipt, origins, sudoers>>

\* prepare.py puts the desktop into /usr/lib, the Administration tree follows.
AssembleDesktop ==
    /\ command.pc = "trees" /\ assembly.trees = "absent"
    /\ assembly' = [assembly EXCEPT !.trees = "partial"]
    /\ UNCHANGED <<mapping, original, receipt, origins, sudoers, command>>

AssembleAdministration ==
    /\ command.pc = "trees" /\ assembly.trees = "partial"
    /\ assembly' = [assembly EXCEPT !.trees = "complete"]
    /\ receipt' = [receipt EXCEPT !.phase = "PREPARED_INPUTS"] /\ Goto("finish")
    /\ UNCHANGED <<mapping, original, origins, sudoers>>

\* finish_preparation, also of a later command.
BeginFinish ==
    /\ \/ command.pc = "finish"
       \/ command.pc = "idle" /\ receipt.phase = "PREPARED_INPUTS"
    /\ AsBefore /\ Goto("prepare")
    /\ UNCHANGED <<mapping, original, receipt, origins, sudoers, assembly>>

\* --prepare-installer-account refuses one it knows; a rule must be new.
PrepareAccount(a) ==
    /\ command.pc = "prepare" /\ a \in Remaining \ origins
    /\ origins' = origins \cup {a}
    /\ \/ sudoers' = sudoers                                        \* not in wheel
       \/ a \notin sudoers /\ sudoers' = sudoers \cup {a}
    /\ Did(a)
    /\ UNCHANGED <<mapping, original, receipt, assembly>>

\* The preferences of the shell; quiescent once more.
BeginActivation ==
    /\ command.pc = "prepare" /\ Remaining = {} /\ Goto("map")
    /\ UNCHANGED <<mapping, original, receipt, origins, sudoers, assembly>>

\* semanage login -a adds an entry; a release of it changes one that exists.
MapAccount(a) ==
    /\ command.pc = "map" /\ a \in Remaining
    /\ mapping' = [mapping EXCEPT ![a] = "guard"] /\ Did(a)
    /\ UNCHANGED <<original, receipt, origins, sudoers, assembly>>

CommitEnrollment ==
    /\ command.pc = "map" /\ Remaining = {}
    /\ receipt' = [receipt EXCEPT !.phase = "PENDING_SESSION"] /\ command' = Idle
    /\ UNCHANGED <<mapping, original, origins, sudoers, assembly>>

-----------------------------------------------------------------------------
(* rollback-initial, from the maintenance console.                           *)

BeginRollback ==
    /\ command.pc = "idle" /\ receipt.phase # "NONE" /\ Goto("rollback")
    /\ UNCHANGED <<mapping, original, receipt, origins, sudoers, assembly>>

\* semanage login -d: an entry that was there before is not brought back.
Unmapped(a) == IF mapping[a] = "guard" THEN "default" ELSE mapping[a]

\* Fault: the mapping is not read back after the entry was removed.
RestoredAnyway(a, now) == TRUE

Restored(a, now) == now = receipt.previous[a]

UnmapAccount(a) ==
    /\ command.pc = "rollback" /\ a \in Remaining
    /\ mapping' = [mapping EXCEPT ![a] = Unmapped(a)]
    /\ IF Restored(a, Unmapped(a)) THEN Did(a) ELSE command' = Idle
    /\ UNCHANGED <<original, receipt, origins, sudoers, assembly>>

CommitRollback ==
    /\ command.pc = "rollback" /\ Remaining = {}
    /\ receipt' = [receipt EXCEPT !.phase = "UNENROLLED"] /\ command' = Idle
    /\ UNCHANGED <<mapping, original, origins, sudoers, assembly>>

-----------------------------------------------------------------------------

\* A step failed, or the power: the lock is free, what was written stays.
CommandDies ==
    /\ command.pc # "idle" /\ command' = Idle
    /\ UNCHANGED <<mapping, original, receipt, origins, sudoers, assembly>>

\* An administrator changes a login mapping of an account.
AdministratorMaps(a) ==
    /\ mapping[a] # "other" /\ mapping' = [mapping EXCEPT ![a] = "other"]
    /\ original' = IF receipt.phase = "NONE" THEN [original EXCEPT ![a] = "other"] ELSE original
    /\ UNCHANGED <<receipt, origins, sudoers, assembly, command>>

EnrollmentNext ==
    \/ BeginPreparation \/ ResumePreparing \/ WriteContext \/ FinishContext \/ AssembleDesktop \/ AssembleAdministration
    \/ BeginFinish \/ BeginActivation \/ CommitEnrollment
    \/ BeginRollback \/ CommitRollback \/ CommandDies
    \/ \E a \in Accounts : PrepareAccount(a) \/ MapAccount(a) \/ UnmapAccount(a) \/ AdministratorMaps(a)

EnrollmentSpec == EnrollmentInit /\ [][EnrollmentNext]_enrollmentVars

-----------------------------------------------------------------------------

(* A rollback that says "Initial account mappings restored" restored them:   *)
(* whatever failed before, and although it can only remove an entry, each    *)
(* account has the mapping it had before the first preparation, or one that  *)
(* an administrator has set since (rollback).                                *)
RollbackRestores ==
    [][receipt'.phase = "UNENROLLED" /\ receipt.phase # "UNENROLLED" =>
        \A a \in Accounts : mapping'[a] \in {original[a], "other"}]_enrollmentVars

(* An account is mapped only behind a receipt from which it can be taken     *)
(* back and a broker record of where it came from, at every step at which    *)
(* the power may fail (finish_preparation, rollback).                        *)
MappedIsOnRecord ==
    \A a \in Accounts : mapping[a] = "guard" =>
        /\ receipt.phase \in {"PREPARED_INPUTS", "PENDING_SESSION"}
        /\ receipt.previous = original /\ a \in origins

(* "so a power loss during assembly cannot strand first boot in PREPARING"   *)
(* (prepare_inputs): when no command runs, the next one can get past the     *)
(* context file.                                                             *)
AssemblyCanBeRepeated ==
    receipt.phase = "PREPARING" /\ command.pc = "idle" => assembly.context # "partial"
=============================================================================
