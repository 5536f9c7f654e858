--------------------------- MODULE ShellMigration ---------------------------
(***************************************************************************)
(* Migration of the enrolled desktop to an installed release                *)
(* (migrate-dms-shell.py, migrate-screenshot.py).  The desktop's files are  *)
(* bound by desktop.json, and desktop.json by the Administration manifest.   *)
(* A migration checks the old files, prepares the new ones beside them,      *)
(* replaces them one after another, then the two receipts, and reads all of  *)
(* it back; a step that fails makes it write the old ones again.  One        *)
(* migration runs at a time (a file lock).                                  *)
(***************************************************************************)
EXTENDS Naturals, Sequences

CONSTANT MaxRelease        \* bound on the releases that are installed

ASSUME MigrationConstants == MaxRelease \in Nat \ {0}

VARIABLES
    release,     \* the release the package manager has installed
    desktop,     \* files: the version of each part; receipt: desktop.json;
                 \* link: the desktop.json the Administration manifest names;
                 \* shell: the mode of the directory the shell is in
    policy,      \* the versions of the two policy modules a migration loads
    broker,      \* the release of the running admission broker
    seat,        \* a protected session is running
    migration    \* the one that runs: kind, pc, what is to be written, what was there

migrationVars == <<release, desktop, policy, broker, seat, migration>>

-----------------------------------------------------------------------------

Parts == {"labwc", "dms", "session.py", "verify.py"}
Releases == 0 .. MaxRelease
Modes == {"0555", "0700"}
MigrationKinds == {"full", "verifier", "session", "screenshot"}
NoMigration == [pc |-> "none"]

MigrationTypeOK ==
    /\ {release, broker} \subseteq Releases /\ seat \in BOOLEAN
    /\ {desktop.files, desktop.receipt, desktop.link} \subseteq [Parts -> Releases]
    /\ desktop.shell \in Modes
    /\ policy \in [display : Releases, usbguard : Releases]
    /\ migration.pc \in {"none", "checked", "assembled", "commit", "undo", "refresh"}

MigrationInit ==
    LET first == [p \in Parts |-> 0] IN
    /\ release = 0 /\ broker = 0 /\ seat = FALSE
    /\ desktop = [files |-> first, receipt |-> first, link |-> first, shell |-> "0555"]
    /\ policy = [display |-> 0, usbguard |-> 0] /\ migration = NoMigration

\* What each kind writes, in the order of the code; the shell and the seven
\* files that are replaced between dms and session.py are one part with dms.
Payload(kind) ==
    CASE kind = "full" -> <<"dms", "session.py", "verify.py">> [] kind = "verifier" -> <<"verify.py">>
      [] kind = "session" -> <<"session.py">> [] OTHER -> <<"labwc">>
CommitSteps(kind) ==
    (IF kind = "screenshot" THEN <<"policy">> ELSE <<>>) \o Payload(kind) \o <<"receipt", "link">>

\* Fault: a file that the migration replaces is not written back.
UndoForgets(kind) == SubSeq(Payload(kind), 2, Len(Payload(kind))) \o <<"receipt", "link">>

UndoSteps(kind) ==
    Payload(kind) \o <<"receipt", "link">> \o (IF kind = "screenshot" THEN <<"policy">> ELSE <<>>)

\* trusted_tree; verify_admin_tree and the digest of desktop.json in it.
Bound == desktop.files = desktop.receipt
Linked == desktop.link = desktop.receipt

\* What updated_receipts takes for granted.
ReceiptsAgree == Bound /\ Linked

\* No session and no process of an enrolled account.
Quiescent == ~seat

-----------------------------------------------------------------------------
(* The world.                                                               *)

\* The running broker is the release before until it is restarted.
ReleaseInstalled ==
    /\ release < MaxRelease /\ release' = release + 1
    /\ UNCHANGED <<desktop, policy, broker, seat, migration>>

\* The seat is verified against the receipt; without greetd, stopped for the
\* screenshot migration, nobody logs in.
Login ==
    /\ ~seat /\ Bound /\ (migration.pc # "none" => migration.kind # "screenshot")
    /\ seat' = TRUE
    /\ UNCHANGED <<release, desktop, policy, broker, migration>>

Logout ==
    /\ seat /\ seat' = FALSE
    /\ UNCHANGED <<release, desktop, policy, broker, migration>>

-----------------------------------------------------------------------------
(* A migration.                                                             *)

Target(kind, r) == [p \in Parts |-> IF \E i \in DOMAIN Payload(kind) : Payload(kind)[i] = p THEN r ELSE desktop.files[p]]

Begin(kind) ==
    /\ migration.pc = "none" /\ Quiescent
    /\ migration' = [pc |-> IF kind = "full" THEN "checked" ELSE "assembled", kind |-> kind, release |-> release]
    /\ UNCHANGED <<release, desktop, policy, broker, seat>>

\* The receipts, the quiescent desktop and the new inputs are checked.
StartMigration(kind) == kind # "screenshot" /\ Bound /\ Begin(kind)

StartScreenshotMigration == ReceiptsAgree /\ Begin("screenshot")

\* assemble.py takes up to a minute.
AssembleShell ==
    /\ migration.pc = "checked" /\ migration' = [migration EXCEPT !.pc = "assembled"]
    /\ UNCHANGED <<release, desktop, policy, broker, seat>>

\* The USB policy is loaded, the old files are kept; nothing is written when
\* the new ones are the same.
PrepareCommit ==
    LET target == Target(migration.kind, migration.release) IN
    /\ migration.pc = "assembled"
    /\ migration.kind # "full" => Quiescent
    /\ policy' = IF migration.kind = "full" THEN [policy EXCEPT !.usbguard = migration.release] ELSE policy
    /\ migration' =
        IF target = desktop.files /\ migration.kind # "screenshot" THEN [pc |-> "refresh", kind |-> migration.kind]
        ELSE [pc |-> "commit", kind |-> migration.kind, todo |-> CommitSteps(migration.kind), target |-> target,
              old |-> desktop, oldPolicy |-> policy'.display, newPolicy |-> migration.release]
    /\ UNCHANGED <<release, desktop, broker, seat>>

\* One atomic_write, rename or semodule.  The shell's directory is part of dms.
Write(step, files, link, display, mode) ==
    /\ desktop' = CASE step \in Parts -> [desktop EXCEPT !.files[step] = files[step],
                                                         !.shell = IF step = "dms" THEN mode ELSE @]
                    [] step = "receipt" -> [desktop EXCEPT !.receipt = files]
                    [] step = "link" -> [desktop EXCEPT !.link = link]
                    [] OTHER -> desktop
    /\ policy' = IF step = "policy" THEN [policy EXCEPT !.display = display] ELSE policy
    /\ migration' = [migration EXCEPT !.todo = Tail(@)]
    /\ UNCHANGED <<release, broker, seat>>

CommitStep ==
    /\ migration.pc = "commit" /\ migration.todo # <<>>
    /\ Write(Head(migration.todo), migration.target, migration.target, migration.newPolicy, "0555")

\* Everything is read back.
Finish ==
    /\ migration.pc = "commit" /\ migration.todo = <<>> /\ ReceiptsAgree
    /\ migration' = IF migration.kind = "screenshot" THEN NoMigration ELSE [pc |-> "refresh", kind |-> migration.kind]
    /\ UNCHANGED <<release, desktop, policy, broker, seat>>

\* A step or the readback fails: the except branch.
MigrationFails ==
    /\ migration.pc \in {"checked", "assembled", "commit"}
    /\ migration' = IF migration.pc # "commit" THEN NoMigration
                    ELSE [migration EXCEPT !.pc = "undo", !.todo = UndoSteps(migration.kind)]
    /\ UNCHANGED <<release, desktop, policy, broker, seat>>

\* The kept copy of the shell was made 0700, and copytree gives that mode to
\* what it writes; only the owner is set after it.
UndoStep ==
    /\ migration.pc = "undo" /\ migration.todo # <<>>
    /\ Write(Head(migration.todo), migration.old.receipt, migration.old.link, migration.oldPolicy, "0700")

Undone ==
    /\ migration.pc = "undo" /\ migration.todo = <<>>
    /\ migration' = NoMigration
    /\ UNCHANGED <<release, desktop, policy, broker, seat>>

\* refresh_installed_broker, which may fail after everything was replaced.
RefreshBroker ==
    /\ migration.pc = "refresh" /\ migration' = NoMigration
    /\ broker' \in {broker, release}
    /\ UNCHANGED <<release, desktop, policy, seat>>

\* The power fails, or the undoing itself does: the backup is lost with it.
MigrationDies ==
    /\ migration.pc \in {"commit", "undo", "refresh"} /\ migration' = NoMigration
    /\ seat' \in (IF migration.pc = "undo" THEN {seat, FALSE} ELSE {FALSE})
    /\ UNCHANGED <<release, desktop, policy, broker>>

MigrationNext ==
    \/ ReleaseInstalled \/ Login \/ Logout
    \/ StartScreenshotMigration \/ \E kind \in MigrationKinds : StartMigration(kind)
    \/ AssembleShell \/ PrepareCommit \/ CommitStep \/ Finish \/ MigrationFails \/ UndoStep \/ Undone \/ RefreshBroker \/ MigrationDies

MigrationSpec == MigrationInit /\ [][MigrationNext]_migrationVars

-----------------------------------------------------------------------------

(* "as one rollback-capable operation": a migration that gives up after a    *)
(* failed step leaves every file, the receipts that bind them and the        *)
(* display policy as it found them, whichever step failed, and the shell's   *)
(* directory closed to the session when it had replaced the shell (the       *)
(* except branches of migrate, migrate_verifier_only, migrate-screenshot).   *)
UndoneIsAsBefore ==
    [][Undone => /\ desktop' = [migration.old EXCEPT !.shell = IF migration.kind = "full" THEN "0700" ELSE @]
                 /\ policy'.display = migration.oldPolicy]_migrationVars

(* "The currently selected shell is restored from the verified backup": what *)
(* the session could read before, it can read after.  The code does not keep *)
(* this (the backup is made 0700 and copied back with its mode).             *)
ShellIsGivenBack ==
    [][Undone => desktop'.shell = migration.old.shell]_migrationVars

(* "It refuses to touch a running protected desktop" (the module's           *)
(* docstring): nothing is replaced once a session has begun.                 *)
CommitsOnQuietDesktop ==
    [][PrepareCommit /\ migration'.pc = "commit" => ~seat]_migrationVars
=============================================================================
