---------------------------- MODULE NetworkRules ----------------------------
(***************************************************************************)
(* Reviewed edits of the network policy (network_rule_transactions.py,      *)
(* PolicyStore of network_rules.py, network_firewall.py and the dispatch of *)
(* network_policy_service.py).  A change is prepared against one revision,  *)
(* its user authenticates outside every lock, and it is applied to firewalld *)
(* and the policy file under the file lock, with a journal in the policy    *)
(* file while firewalld is being changed.  The service, firewalld and the   *)
(* writes can fail between any two steps.                                   *)
(*                                                                         *)
(* A rule is a model value: a permanent incoming rule has one native entry  *)
(* on each plane of firewalld, one with an end (15 minutes, an hour, or the *)
(* current boot) only a runtime entry, an                                   *)
(* application rule none.  A native entry names the rule's position among   *)
(* the incoming rules, its priority.  The code keeps one list of all rules  *)
(* and reads it by provider; here each provider has its own list.           *)
(***************************************************************************)
EXTENDS Naturals, Sequences, FiniteSets, SequencesExt

CONSTANTS
    PermanentRules, TimedRules, BootRules, ApplicationRules,
    Reviews,       \* transaction tokens; at most 32 pending in the code
    MaxRevision    \* bound on the edits

ASSUME NetworkConstants ==
    /\ IsFiniteSet(Reviews) /\ MaxRevision \in Nat
    /\ IsFiniteSet(PermanentRules \cup TimedRules \cup BootRules \cup ApplicationRules)
    /\ PermanentRules \cap (TimedRules \cup BootRules) = {} /\ TimedRules \cap BootRules = {}
    /\ ApplicationRules \cap (PermanentRules \cup TimedRules \cup BootRules) = {}

VARIABLES
    policy_file,   \* the policy, or Unreadable
    last_good,     \* its .last-good.json copy
    native,        \* the entries firewalld has
    expired,       \* timed rules past expires_at, or of an earlier boot
    pending,       \* RuleManager.pending, in memory
    undo,          \* RuleManager.undo, in memory
    running,       \* the service is up: recover() succeeded
    applying       \* what the holder of the file lock has left to do

networkVars == <<policy_file, last_good, native, expired, pending, undo, running, applying>>

-----------------------------------------------------------------------------

IncomingRules == PermanentRules \cup TimedRules \cup BootRules
AllRules == IncomingRules \cup ApplicationRules

\* firewall_pending, while it is in the policy: the entries a change touches
\* and those that were there.
NoJournal == [open |-> FALSE, records |-> {}, present |-> {}]
Journaled(p) == p.journal.open

\* Revisions begin at 1 here.
NoRules == [incoming |-> <<>>, application |-> <<>>]
Unreadable == [revision |-> 0, rules |-> NoRules, disabled |-> {}, journal |-> NoJournal]

RuleProviders == {"incoming", "application"}
Own(provider) == IF provider = "incoming" THEN IncomingRules ELSE ApplicationRules
Orders(provider) == UNION {SetToSeqs(s) : s \in SUBSET Own(provider)}

\* lifecycle(rule) = 'SAVED'.
Lives(rule, disabled) == rule \notin disabled /\ rule \notin expired

\* rich_rules: the planes of a rule.
Planes(rule) == IF rule \in PermanentRules THEN {"runtime", "permanent"} ELSE {"runtime"}

\* Firewall.entries: the native entries of a list of rules.
Entries(rules, disabled) ==
    LET incoming == rules.incoming IN
    UNION {{[rule |-> incoming[i], position |-> i, plane |-> p] : p \in Planes(incoming[i])} :
             i \in {j \in DOMAIN incoming : Lives(incoming[j], disabled)}}

AllEntries == [rule : IncomingRules, position : 1..Cardinality(IncomingRules), plane : {"runtime", "permanent"}]

\* PolicyStore.read: the file, else the copy.
Policy == IF policy_file = Unreadable THEN last_good ELSE policy_file

NoReview == [state |-> "none", before |-> Unreadable, rules |-> NoRules, disabled |-> {},
             incoming |-> FALSE, native_before |-> {}, cancelled |-> FALSE]
Unlocked == [by |-> "nobody", doing |-> "nothing", base |-> Unreadable, remove |-> {}, add |-> {}, records |-> {}, present |-> {}]
NoUndo == [revision |-> 0, before |-> Unreadable, incoming |-> FALSE]

PolicyOK(p) ==
    /\ p.revision \in 0..MaxRevision /\ p.disabled \subseteq AllRules
    /\ \A provider \in RuleProviders : p.rules[provider] \in Orders(provider)
    /\ p.journal.present \subseteq p.journal.records /\ p.journal.records \subseteq AllEntries

NetworkRulesTypeOK ==
    /\ PolicyOK(policy_file) /\ PolicyOK(last_good)
    /\ native \subseteq AllEntries /\ expired \subseteq TimedRules \cup BootRules
    /\ running \in BOOLEAN
    /\ \A t \in Reviews : pending[t].state \in {"none", "review", "authenticating", "locked"}
    /\ applying.by \in Reviews \cup {"nobody"}
    /\ applying.doing \in {"nothing", "replace", "save", "roll back"}

\* An installation whose firewall agrees with its policy.
NetworkRulesInit ==
    /\ expired = {}
    /\ \E rules \in {NoRules} \cup 
                   {[NoRules EXCEPT !.incoming = <<p, t>>] : p \in PermanentRules, t \in TimedRules \cup BootRules} :
         /\ policy_file = [revision |-> 1, rules |-> rules, disabled |-> {}, journal |-> NoJournal]
         /\ native = Entries(rules, {})
    /\ last_good = policy_file
    /\ pending = [t \in Reviews |-> NoReview]
    /\ undo = NoUndo /\ running = TRUE /\ applying = Unlocked

-----------------------------------------------------------------------------
(* PolicyStore.write: the previous policy to the copy, the new one to the   *)
(* file, the new one to the copy.  Each is an atomic replacement.           *)

Written(new) ==
    /\ policy_file' = new
    /\ last_good' \in {new, Policy}   \* the last replacement may fail

\* The first or the second replacement fails.
NotWritten == UNCHANGED policy_file /\ last_good' \in {last_good, Policy}

Revised(p, rules, disabled, journal) ==
    [revision |-> p.revision + 1, rules |-> rules, disabled |-> disabled, journal |-> journal]

-----------------------------------------------------------------------------
(* Review.                                                                  *)

\* candidate['rules'].insert, at a position counted among the siblings.
Moved(list, i, j) == InsertAt(RemoveAt(list, i), j, list[i])

\* The results of one command of prepare: create, update, delete, enable,
\* move, and undo of the last change while the policy is the one it left.
Commands(provider) ==
    LET list == Policy.rules[provider]
        disabled == Policy.disabled
        Edited(l) == [Policy.rules EXCEPT ![provider] = l]
        absent == Own(provider) \ ToSet(list)
    IN {<<Edited(Append(list, r)), disabled>> : r \in absent}
       \cup {<<Edited([list EXCEPT ![i] = r]), disabled \ {list[i]}>> : i \in DOMAIN list, r \in absent}
       \cup {<<Edited(RemoveAt(list, i)), disabled \ {list[i]}>> : i \in DOMAIN list}
       \cup {<<Policy.rules, IF r \in disabled THEN disabled \ {r} ELSE disabled \cup {r}>> : r \in ToSet(list)}
       \cup {<<Edited(Moved(list, i, j)), disabled>> : i, j \in DOMAIN list}
       \cup (IF undo # NoUndo /\ undo.revision = Policy.revision /\ undo.incoming = (provider = "incoming") THEN {<<undo.before.rules, undo.before.disabled>>} ELSE {})

\* Firewall.capture: of the entries the change touches, those that are there.
Changed(old, new) == (old \ new) \cup (new \ old)
Capture(before, rules, disabled) ==
    native \cap Changed(Entries(before.rules, before.disabled), Entries(rules, disabled))

\* RuleManager.prepare; refused while a journal waits for recovery.
Prepare(t, provider) ==
    /\ running /\ pending[t] = NoReview
    /\ ~Journaled(Policy)
    /\ Policy.revision + (IF provider = "incoming" THEN 2 ELSE 1) <= MaxRevision
    /\ \E c \in Commands(provider) :
         pending' = [pending EXCEPT ![t] =
            [state |-> "review", before |-> Policy, rules |-> c[1], disabled |-> c[2],
             incoming |-> provider = "incoming", cancelled |-> FALSE,
             native_before |-> IF provider = "incoming" THEN Capture(Policy, c[1], c[2]) ELSE {}]]
    /\ UNCHANGED <<policy_file, last_good, native, expired, undo, running, applying>>

\* RuleManager.cancel: it marks the review, whatever apply is doing with it.
Cancel(t) ==
    /\ running /\ pending[t] # NoReview /\ ~pending[t].cancelled
    /\ pending' = [pending EXCEPT ![t].cancelled = TRUE]
    /\ UNCHANGED <<policy_file, last_good, native, expired, undo, running, applying>>

\* The review's 180 seconds are over; a cancelled one is only forgotten then.
ReviewExpires(t) ==
    /\ pending[t].state = "review"
    /\ pending' = [pending EXCEPT ![t] = NoReview]
    /\ UNCHANGED <<policy_file, last_good, native, expired, undo, running, applying>>

UndoExpires ==
    /\ undo # NoUndo
    /\ undo' = NoUndo
    /\ UNCHANGED <<policy_file, last_good, native, expired, pending, running, applying>>

-----------------------------------------------------------------------------
(* Apply.                                                                   *)

\* The first block of apply and the start of authorize.
BeginApply(t) ==
    /\ running /\ pending[t].state = "review" /\ ~pending[t].cancelled
    /\ pending' = [pending EXCEPT ![t].state = "authenticating"]
    /\ UNCHANGED <<policy_file, last_good, native, expired, undo, running, applying>>

\* authorize raises, or the deadline passed meanwhile.
Refuse(t) ==
    /\ pending[t].state = "authenticating"
    /\ pending' = [pending EXCEPT ![t] = NoReview]
    /\ UNCHANGED <<policy_file, last_good, native, expired, undo, running, applying>>

\* Fault: the revision is not compared again after authentication.
StillReviewedAnyRevision(t) ==
    /\ ~pending[t].cancelled
    /\ pending[t].incoming => Capture(pending[t].before, pending[t].rules, pending[t].disabled) = pending[t].native_before

StillReviewed(t) ==
    /\ ~pending[t].cancelled
    /\ Policy.revision = pending[t].before.revision
    /\ pending[t].incoming => Capture(pending[t].before, pending[t].rules, pending[t].disabled) = pending[t].native_before

\* The file lock, the checks and the journal.  A review that is no longer the
\* reviewed one, and a journal that cannot be written, end it.
LockAndJournal(t) ==
    LET r == pending[t]
        old == Entries(r.before.rules, r.before.disabled)
        new == Entries(r.rules, r.disabled)
        journal == [open |-> TRUE, records |-> Changed(old, new), present |-> native \cap Changed(old, new)]
        started == [by |-> t, doing |-> "replace", base |-> r.before, remove |-> old \ new, add |-> new \ old,
                    records |-> journal.records, present |-> journal.present]
    IN /\ r.state = "authenticating" /\ applying = Unlocked
       /\ IF ~StillReviewed(t)
          THEN /\ pending' = [pending EXCEPT ![t] = NoReview]
               /\ UNCHANGED <<policy_file, last_good, applying, undo>>
          ELSE IF ~r.incoming
          THEN /\ applying' = [started EXCEPT !.doing = "save"]
               /\ pending' = [pending EXCEPT ![t].state = "locked"]
               /\ UNCHANGED <<policy_file, last_good, undo>>
          ELSE \/ /\ Written(Revised(Policy, Policy.rules, Policy.disabled, journal))
                  /\ applying' = started
                  /\ pending' = [pending EXCEPT ![t].state = "locked"]
                  /\ undo' = NoUndo   \* refused at every later revision
               \/ /\ NotWritten
                  /\ pending' = [pending EXCEPT ![t] = NoReview]
                  /\ UNCHANGED <<applying, undo>>
       /\ UNCHANGED <<native, expired, running>>

\* The permanent plane sorts before the runtime plane.
FirstOf(entries) ==
    {e \in entries : e.plane = "permanent" \/ [e EXCEPT !.plane = "permanent"] \notin entries}

\* Firewall.replace, one entry: first what goes, then what comes.  An entry
\* that is there already is not adopted; a call may fail.
ReplaceEntry ==
    /\ applying.doing = "replace" /\ applying.remove \cup applying.add # {}
    /\ \/ \E e \in FirstOf(applying.remove) :
            /\ native' = native \ {e}
            /\ applying' = [applying EXCEPT !.remove = @ \ {e}]
       \/ /\ applying.remove = {}
          /\ \E e \in FirstOf(applying.add) :
               IF e \in native THEN applying' = [applying EXCEPT !.doing = "roll back"] /\ UNCHANGED native
               ELSE /\ native' = IF e.rule \in expired THEN native ELSE native \cup {e}
                    /\ applying' = [applying EXCEPT !.add = @ \ {e}]
       \/ applying' = [applying EXCEPT !.doing = "roll back"] /\ UNCHANGED native
    /\ UNCHANGED <<policy_file, last_good, expired, pending, undo, running>>

Replaced ==
    /\ applying.doing = "replace" /\ applying.remove \cup applying.add = {}
    /\ applying' = [applying EXCEPT !.doing = "save"]
    /\ UNCHANGED <<policy_file, last_good, native, expired, pending, undo, running>>

\* store.write(after): a failure of an application change leaves nothing to
\* roll back.  Success issues an undo reference.
Save ==
    LET t == applying.by
        after == Revised(Policy, pending[t].rules, pending[t].disabled, NoJournal)
    IN /\ applying.doing = "save"
       /\ \/ /\ Written(after)
             /\ undo' = [revision |-> after.revision, before |-> pending[t].before, incoming |-> pending[t].incoming]
             /\ pending' = [pending EXCEPT ![t] = NoReview] /\ applying' = Unlocked
          \/ /\ NotWritten /\ UNCHANGED undo
             /\ IF pending[t].incoming
                THEN applying' = [applying EXCEPT !.doing = "roll back"] /\ UNCHANGED pending
                ELSE applying' = Unlocked /\ pending' = [pending EXCEPT ![t] = NoReview]
       /\ UNCHANGED <<native, expired, running>>

\* Firewall.restore: a recorded entry is as it was, unless its expires_at has
\* passed.  A boot rule has none, whatever the boot.
Restored(records, present) == (native \ records) \cup {e \in present : e.rule \notin expired \cap TimedRules}

\* What a restore that stops half-way may leave.
PartlyRestored(records, present) ==
    {(native \ records) \cup s : s \in
        {x \in SUBSET records : \A e \in records :
            (e \in native <=> e \in Restored(records, present)) => (e \in x <=> e \in native)}}

\* The except clause of apply.  It ends with firewalld and the policy as they
\* were, or with the journal kept.
RollBack ==
    LET records == applying.records
        before == applying.base
    IN /\ applying.doing = "roll back"
       /\ \/ /\ native' = Restored(records, applying.present)
             /\ Written(Revised(Policy, before.rules, before.disabled, NoJournal))
          \/ /\ native' \in PartlyRestored(records, applying.present)
             /\ NotWritten
       /\ pending' = [pending EXCEPT ![applying.by] = NoReview]
       /\ applying' = Unlocked
       /\ UNCHANGED <<expired, undo, running>>

-----------------------------------------------------------------------------
(* The service, firewalld, time and the disk.                               *)

ServiceDies ==
    /\ running' = FALSE
    /\ pending' = [t \in Reviews |-> NoReview] /\ undo' = NoUndo /\ applying' = Unlocked
    /\ UNCHANGED <<policy_file, last_good, native, expired>>

\* Fault: recovery clears the journal without restoring firewalld.
RecoveredNative(journal) == native
Recovered(journal) == Restored(journal.records, journal.present)

\* RuleManager.recover in the constructor: an exception ends the service.
Recover ==
    LET journal == Policy.journal IN
    /\ ~running
    /\ IF ~Journaled(Policy)
       THEN running' = TRUE /\ UNCHANGED <<policy_file, last_good, native>>
       ELSE \/ /\ Policy.revision < MaxRevision
               /\ native' = Recovered(journal)
               /\ Written(Revised(Policy, Policy.rules, Policy.disabled, NoJournal))
               /\ running' = TRUE
            \/ /\ native' \in PartlyRestored(journal.records, journal.present)
               /\ NotWritten /\ UNCHANGED running
    /\ UNCHANGED <<expired, pending, undo, applying>>

\* What firewalld has after a start: its permanent configuration.
Reloaded(entries) ==
    LET permanent == {e \in entries : e.plane = "permanent"}
    IN permanent \cup {[e EXCEPT !.plane = "runtime"] : e \in permanent}

FirewalldRestarts ==
    /\ native' = Reloaded(native) /\ native' # native
    /\ UNCHANGED <<policy_file, last_good, expired, pending, undo, running, applying>>

\* The boot_id is another one: the boot rules that are saved have ended.
Reboot ==
    /\ ~running
    /\ native' = Reloaded(native)
    /\ expired' = expired \cup (BootRules \cap (ToSet(policy_file.rules.incoming) \cup ToSet(last_good.rules.incoming)))
    /\ <<native', expired'>> # <<native, expired>>
    /\ UNCHANGED <<policy_file, last_good, pending, undo, running, applying>>

\* expires_at passes: firewalld drops the entry it was given a timeout for.
RuleExpires(rule) ==
    /\ rule \in TimedRules \ expired
    /\ expired' = expired \cup {rule}
    /\ native' = {e \in native : e.rule # rule}
    /\ UNCHANGED <<policy_file, last_good, pending, undo, running, applying>>

\* The policy file is damaged while the service is down, and the copy is used:
\* the same policy, or the journal its last write replaced.  A copy from before
\* the journal is a second fault, which backup_error reports.
FileDamaged ==
    /\ ~running /\ policy_file # Unreadable
    /\ last_good = policy_file \/ Journaled(last_good)
    /\ policy_file' = Unreadable
    /\ UNCHANGED <<last_good, native, expired, pending, undo, running, applying>>

NetworkRulesNext ==
    \/ ReplaceEntry \/ Replaced \/ Save \/ RollBack \/ UndoExpires
    \/ ServiceDies \/ Recover \/ FirewalldRestarts \/ Reboot \/ FileDamaged
    \/ \E rule \in TimedRules : RuleExpires(rule)
    \/ \E t \in Reviews :
         \/ Cancel(t) \/ ReviewExpires(t) \/ BeginApply(t) \/ Refuse(t) \/ LockAndJournal(t)
         \/ \E provider \in RuleProviders : Prepare(t, provider)

NetworkRulesSpec == NetworkRulesInit /\ [][NetworkRulesNext]_networkVars

-----------------------------------------------------------------------------

Settled == running /\ applying = Unlocked /\ ~Journaled(Policy)

(* Whatever failed, whenever the service, firewalld or the system restarted  *)
(* and whichever copy of the policy was read: once the service runs and no   *)
(* change is under way, firewalld's permanent entries are those of the saved *)
(* policy, its permanent rules are loaded, and, but for boot rules of an     *)
(* earlier boot, nothing is loaded the policy does not say; or the journal   *)
(* is there and edits are refused (recover, apply).                          *)
FirewallFollowsPolicy ==
    Settled =>
        LET saved == Entries(Policy.rules, Policy.disabled)
            permanent == {e \in saved : e.rule \in PermanentRules}
        IN permanent \subseteq native /\ {e \in native : e.rule \notin BootRules \cap expired} \subseteq saved

(* "Boot rules bind to kernel boot identity" (NETWORK_RULES.md): none is     *)
(* loaded in a later boot.  restore looks only at expires_at, so recover     *)
(* loads one whose change the reboot interrupted.                            *)
BootRulesEnd == Settled => \A e \in native : e.rule \notin BootRules \cap expired

(* No update is lost: a change that is saved replaces exactly the policy its *)
(* user reviewed it against, although other changes, undo, failures and      *)
(* roll-backs happen while the user authenticates (apply).                   *)
SavedOnReviewedPolicy ==
    [][\A t \in Reviews :
         applying.by = t /\ applying.doing = "save" /\ undo' # undo =>
            Policy.rules = pending[t].before.rules /\ Policy.disabled = pending[t].before.disabled]_networkVars
=============================================================================
