--------------------------- MODULE NetworkProofs ---------------------------
(***************************************************************************)
(* The network services for any set of rules, reviews, providers and        *)
(* networks: the firewall follows the saved policy through every failure,   *)
(* a saved change replaces the policy that was reviewed, the resolver keeps *)
(* no setting without a record of it, and managed DNS is decided by the     *)
(* saved rules.                                                             *)
(***************************************************************************)
EXTENDS MCNetwork, WellFoundedInduction, TLAPS

-----------------------------------------------------------------------------
(* Native entries.                                                          *)

EntryType == [rule : IncomingRules, position : Nat, plane : {"runtime", "permanent"}]
RulesType == [incoming : Seq(IncomingRules), application : Seq(ApplicationRules)]
PolicyType ==
    [revision : Nat, rules : RulesType, disabled : SUBSET AllRules,
     journal : [open : BOOLEAN, records : SUBSET EntryType, present : SUBSET EntryType]]

ReviewType ==
    [state : {"none", "review", "authenticating", "locked"}, before : PolicyType,
     rules : RulesType, disabled : SUBSET AllRules, incoming : BOOLEAN,
     native_before : SUBSET EntryType, cancelled : BOOLEAN]
ApplyingType ==
    [by : Reviews \cup {"nobody"}, doing : {"nothing", "replace", "save", "roll back"}, base : PolicyType,
     remove : SUBSET EntryType, add : SUBSET EntryType, records : SUBSET EntryType, present : SUBSET EntryType]

\* Entries, with the expired rules as an argument.
EntriesAt(rules, disabled, past) ==
    {e \in EntryType :
        /\ e.position \in DOMAIN rules.incoming /\ e.rule = rules.incoming[e.position]
        /\ e.rule \notin disabled /\ e.rule \notin past
        /\ e.plane \in Planes(e.rule)}

\* The same entry on another plane.
On(plane, e) == [e EXCEPT !.plane = plane]

\* What is left when rules expire.
Without(gone, entries) == {e \in entries : e.rule \notin gone}

\* What firewalld has, but for the boot rules of an earlier boot.
InForce == {e \in native : e.rule \notin BootRules \cap expired}

Lasting(entries) == {e \in entries : e.rule \in PermanentRules}

\* Only permanent rules are on the permanent plane.
PlanesFit(entries) == \A e \in entries : e.plane = "permanent" => e.rule \in PermanentRules

\* A permanent rule is there on both planes or on neither.
Twinned(entries) ==
    \A e \in entries : e.rule \in PermanentRules => \A plane \in {"runtime", "permanent"} : On(plane, e) \in entries

\* What is on the permanent plane is on the runtime plane too.
RuntimeLast(entries) == \A e \in entries : e.plane = "permanent" => On("runtime", e) \in entries

-----------------------------------------------------------------------------
(* The invariant of the policy and its firewall.                            *)

NetworkRows ==
    /\ policy_file \in PolicyType /\ last_good \in PolicyType
    /\ native \subseteq EntryType /\ expired \subseteq TimedRules \cup BootRules
    /\ pending \in [Reviews -> ReviewType]
    /\ undo \in [revision : Nat, before : PolicyType, incoming : BOOLEAN]
    /\ running \in BOOLEAN
    /\ applying \in ApplyingType

Says(p) == EntriesAt(p.rules, p.disabled, expired)

\* firewalld agrees with a policy, up to the runtime entries it may have lost.
Agrees(entries, loaded) == Lasting(entries) \subseteq loaded /\ loaded \subseteq entries

\* Undoing the journal makes firewalld agree: outside the journaled entries
\* it agrees now, and the journal says how the others were.
Recoverable(entries, records, present, loaded, past) ==
    /\ PlanesFit(records) /\ Twinned(records) /\ records \subseteq EntryType /\ present \subseteq records
    /\ Lasting(entries) \ records \subseteq loaded /\ loaded \ records \subseteq entries
    /\ Lasting(entries) \cap records \subseteq present
    /\ \A e \in present : e.rule \in past \/ e \in entries

JournalHolds(p) == Journaled(p) => Recoverable(Says(p), p.journal.records, p.journal.present, InForce, expired)

FirewallInv ==
    /\ ~Journaled(Policy) => Agrees(Says(Policy), InForce)
    /\ JournalHolds(Policy) /\ JournalHolds(last_good)
    /\ Journaled(Policy) /\ Journaled(last_good) => last_good = Policy

SameIncoming(rules1, disabled1, rules2, disabled2) ==
    /\ rules1.incoming = rules2.incoming
    /\ disabled1 \ ApplicationRules = disabled2 \ ApplicationRules

\* A review is of the policy of its revision; an application change and its
\* undo leave the incoming rules alone.
ReviewHolds(r) ==
    /\ r.before.revision <= Policy.revision
    /\ r.before.revision = Policy.revision => r.before = Policy
    /\ ~Journaled(r.before)
    /\ ~r.incoming => SameIncoming(r.before.rules, r.before.disabled, r.rules, r.disabled)

ReviewsInv ==
    /\ \A t \in Reviews : pending[t].state # "none" => ReviewHolds(pending[t])
    /\ undo.revision <= Policy.revision
    /\ undo.revision = Policy.revision /\ ~undo.incoming /\ undo # NoUndo =>
         SameIncoming(undo.before.rules, undo.before.disabled, Policy.rules, Policy.disabled)
    /\ ~running => applying = Unlocked /\ undo = NoUndo /\ \A t \in Reviews : pending[t] = NoReview

\* Half-way through Firewall.replace: outside the journal old and new are the
\* same; inside it, what is left to remove and to add is all that is wrong.
ReplaceInv(old, new, a, loaded, past) ==
    /\ old \ a.records = new \ a.records
    /\ loaded \cap a.records \subseteq a.remove \cup new
    /\ Lasting(new) \cap a.records \subseteq loaded \cup a.add
    /\ a.remove \cap new = {} /\ a.remove \subseteq a.records /\ a.add \subseteq a.records
    /\ \A e \in a.add : e.rule \in past \/ e \in new
    /\ RuntimeLast(a.remove) /\ RuntimeLast(a.add)

\* The holder of the lock works on the policy it reviewed.
ApplyInv ==
    applying.doing # "nothing" =>
        LET r == pending[applying.by] IN
        /\ applying.by \in Reviews /\ r.state = "locked"
        /\ applying.base = r.before
        /\ Policy.rules = r.before.rules /\ Policy.disabled = r.before.disabled
        /\ r.incoming => Policy.journal = [open |-> TRUE, records |-> applying.records, present |-> applying.present]
        /\ ~r.incoming => ~Journaled(Policy) /\ applying.doing = "save"
        /\ r.incoming /\ applying.doing \in {"replace", "save"} =>
             ReplaceInv(Says(r.before), EntriesAt(r.rules, r.disabled, expired), applying, InForce, expired)
        /\ applying.doing = "save" /\ r.incoming => applying.remove \cup applying.add = {}

NetworkInv == NetworkRows /\ FirewallInv /\ ReviewsInv /\ ApplyInv

-----------------------------------------------------------------------------
(* Lemmas on entries.                                                       *)

(* Another plane changes nothing else of an entry.                           *)
LEMMA Planed ==
    ASSUME NEW e \in EntryType, NEW plane \in {"runtime", "permanent"}
    PROVE  /\ On(plane, e) \in EntryType /\ On(plane, e).rule = e.rule /\ On(plane, e).position = e.position
           /\ On(plane, e).plane = plane /\ (e.plane = plane => On(plane, e) = e)
           /\ \A other \in {"runtime", "permanent"} : On(other, On(plane, e)) = On(other, e)
<1>1. On(plane, e) = [rule |-> e.rule, position |-> e.position, plane |-> plane]
  BY DEF On, EntryType
<1>2. \A other \in {"runtime", "permanent"}, d \in EntryType :
        On(other, d) = [rule |-> d.rule, position |-> d.position, plane |-> other]
  BY DEF On, EntryType
<1>3. e = [rule |-> e.rule, position |-> e.position, plane |-> e.plane]
  BY DEF EntryType
<1> QED  BY <1>1, <1>2, <1>3 DEF EntryType

(* Firewall.entries, for the rules not yet expired.                          *)
LEMMA EntriesAreAt ==
    ASSUME NEW rules \in RulesType, NEW disabled
    PROVE  Entries(rules, disabled) = EntriesAt(rules, disabled, expired)
<1> DEFINE incoming == rules.incoming
           Row(i, p) == [rule |-> incoming[i], position |-> i, plane |-> p]
<1>1. incoming \in Seq(IncomingRules) /\ DOMAIN incoming \subseteq Nat
  BY DEF RulesType
<1>2. \A i \in DOMAIN incoming : incoming[i] \in IncomingRules /\ Planes(incoming[i]) \subseteq {"runtime", "permanent"}
  BY <1>1 DEF Planes
<1>3. ASSUME NEW e \in Entries(rules, disabled)
      PROVE  e \in EntriesAt(rules, disabled, expired)
  <2>1. PICK i \in DOMAIN incoming : Lives(incoming[i], disabled) /\ \E p \in Planes(incoming[i]) : e = Row(i, p)
    BY <1>3 DEF Entries
  <2>2. PICK p \in Planes(incoming[i]) : e = Row(i, p)
    BY <2>1
  <2>3. e \in EntryType
    BY <1>1, <1>2, <2>1, <2>2 DEF EntryType
  <2> QED  BY <2>1, <2>2, <2>3 DEF EntriesAt, Lives
<1>4. ASSUME NEW e \in EntriesAt(rules, disabled, expired)
      PROVE  e \in Entries(rules, disabled)
  <2>1. e = Row(e.position, e.plane)
    BY DEF EntriesAt, EntryType
  <2>2. e.position \in DOMAIN incoming /\ Lives(incoming[e.position], disabled) /\ e.plane \in Planes(incoming[e.position])
    BY DEF EntriesAt, Lives
  <2> QED  BY <2>1, <2>2 DEF Entries
<1> QED  BY <1>3, <1>4

(* The entries of a policy are permanent only for permanent rules, and those *)
(* have both planes.                                                         *)
LEMMA EntriesFit ==
    ASSUME NEW rules, NEW disabled, NEW past
    PROVE  LET entries == EntriesAt(rules, disabled, past) IN
           entries \subseteq EntryType /\ PlanesFit(entries) /\ Twinned(entries)
<1> DEFINE entries == EntriesAt(rules, disabled, past)
<1>1. entries \subseteq EntryType
  BY DEF EntriesAt
<1>2. PlanesFit(entries)
  BY DEF EntriesAt, PlanesFit, Planes
<1>3. ASSUME NEW e \in entries, e.rule \in PermanentRules, NEW plane \in {"runtime", "permanent"}
      PROVE  On(plane, e) \in entries
  <2>1. On(plane, e) \in EntryType /\ On(plane, e).rule = e.rule /\ On(plane, e).position = e.position /\ On(plane, e).plane = plane
    BY <1>1, Planed
  <2> HIDE DEF entries
  <2>2. plane \in Planes(e.rule)
    BY <1>3 DEF Planes
  <2> QED  BY <1>3, <2>1, <2>2 DEF entries, EntriesAt
<1> QED  BY <1>1, <1>2, <1>3 DEF Twinned

(* When rules expire, exactly their entries go.                              *)
LEMMA EntriesExpire ==
    ASSUME NEW rules, NEW disabled, NEW past, NEW gone
    PROVE  EntriesAt(rules, disabled, past \cup gone) = Without(gone, EntriesAt(rules, disabled, past))
  BY DEF EntriesAt, Without

(* The application rules have no part in the firewall.                       *)
LEMMA SameEntries ==
    ASSUME NEW rules1 \in RulesType, NEW rules2 \in RulesType, NEW disabled1, NEW disabled2, NEW past,
           SameIncoming(rules1, disabled1, rules2, disabled2)
    PROVE  EntriesAt(rules1, disabled1, past) = EntriesAt(rules2, disabled2, past)
<1>1. ASSUME NEW e \in EntryType PROVE e.rule \in disabled1 <=> e.rule \in disabled2
  BY <1>1, NetworkConstants DEF SameIncoming, EntryType, IncomingRules
<1> QED  BY <1>1 DEF EntriesAt, SameIncoming

(* A restart of firewalld, which reloads what is permanent, keeps it in      *)
(* agreement, recoverable, and as far as a change has come.                  *)
LEMMA ReloadKeeps ==
    ASSUME NEW entries, entries \subseteq EntryType, PlanesFit(entries), Twinned(entries),
           NEW loaded, loaded \subseteq EntryType
    PROVE  /\ Reloaded(loaded) \subseteq EntryType
           /\ Agrees(entries, loaded) => Agrees(entries, Reloaded(loaded))
           /\ \A records, present, past : Recoverable(entries, records, present, loaded, past) =>
                                          Recoverable(entries, records, present, Reloaded(loaded), past)
           /\ \A old, a, present, past :
                 Recoverable(old, a.records, present, loaded, past) /\ PlanesFit(old) /\ ReplaceInv(old, entries, a, loaded, past) =>
                 ReplaceInv(old, entries, a, Reloaded(loaded), past)
<1>1. \A e \in EntryType : e.plane = "runtime" \/ e.plane = "permanent"
  BY DEF EntryType
<1>2. \A e \in Reloaded(loaded) : \/ e \in loaded /\ e.plane = "permanent"
                                  \/ \E x \in loaded : x.plane = "permanent" /\ e = On("runtime", x)
  BY DEF Reloaded, On
<1>3. \A e \in loaded : e.plane = "permanent" => e \in Reloaded(loaded) /\ On("runtime", e) \in Reloaded(loaded)
  BY DEF Reloaded, On
<1>4. Reloaded(loaded) \subseteq EntryType
  BY <1>2, Planed
<1>5. \A e \in EntryType : e.plane = "runtime" => On("runtime", On("permanent", e)) = e
  BY Planed
<1>6. \A e \in EntryType : On("permanent", e).plane = "permanent" /\ On("permanent", e).rule = e.rule
                           /\ On("runtime", e).plane = "runtime" /\ On("runtime", e).rule = e.rule
                           /\ On("permanent", e) \in EntryType /\ On("runtime", e) \in EntryType
                           /\ (e.plane = "permanent" => On("permanent", On("runtime", e)) = e)
  BY Planed
<1>7. ASSUME Agrees(entries, loaded) PROVE Agrees(entries, Reloaded(loaded))
  BY <1>1, <1>2, <1>3, <1>5, <1>6, <1>7, SMTT(30) DEF Agrees, Lasting, PlanesFit, Twinned
<1>8. ASSUME NEW records, NEW present, NEW past, Recoverable(entries, records, present, loaded, past)
      PROVE  Recoverable(entries, records, present, Reloaded(loaded), past)
  <2>1. ASSUME NEW e \in Lasting(entries) \ records PROVE e \in Reloaded(loaded)
    BY <1>1, <1>3, <1>5, <1>6, <1>8, <2>1 DEF Recoverable, Lasting, PlanesFit, Twinned
  <2>2. ASSUME NEW e \in Reloaded(loaded) \ records PROVE e \in entries
    BY <1>1, <1>2, <1>6, <1>8, <2>2 DEF Recoverable, PlanesFit, Twinned
  <2> QED  BY <1>8, <2>1, <2>2 DEF Recoverable
<1>9. ASSUME NEW old, NEW a, NEW present, NEW past, PlanesFit(old),
             Recoverable(old, a.records, present, loaded, past), ReplaceInv(old, entries, a, loaded, past)
      PROVE  ReplaceInv(old, entries, a, Reloaded(loaded), past)
  <2>1. ASSUME NEW e \in Reloaded(loaded) \cap a.records PROVE e \in a.remove \cup entries
    <3>1. CASE e \in loaded
      BY <1>9, <2>1, <3>1 DEF ReplaceInv
    <3>2. CASE \E x \in loaded : x.plane = "permanent" /\ e = On("runtime", x)
      <4>1. PICK x \in loaded : x.plane = "permanent" /\ e = On("runtime", x)
        BY <3>2
      <4>2. x.rule \in PermanentRules /\ e.rule = x.rule /\ On("permanent", e) = x
        BY <1>6, <1>9, <4>1 DEF Recoverable, PlanesFit
      <4>3. x \in a.records
        BY <1>9, <2>1, <4>2 DEF Recoverable, Twinned
      <4>4. x \in a.remove \cup entries
        BY <1>9, <4>3 DEF ReplaceInv
      <4> QED  BY <1>9, <4>1, <4>2, <4>4 DEF ReplaceInv, RuntimeLast, Twinned
    <3> QED  BY <1>2, <2>1, <3>1, <3>2
  <2>2. ASSUME NEW e \in Lasting(entries) \cap a.records PROVE e \in Reloaded(loaded) \cup a.add
    BY <1>1, <1>3, <1>5, <1>6, <1>9, <2>2 DEF Recoverable, ReplaceInv, Lasting, PlanesFit, Twinned, RuntimeLast
  <2> QED  BY <1>9, <2>1, <2>2 DEF ReplaceInv
<1> QED  BY <1>4, <1>7, <1>8, <1>9

(* When rules expire, firewalld and the policy lose the same entries.        *)
LEMMA ExpiryKeeps ==
    ASSUME NEW entries, NEW loaded, NEW past, NEW gone, gone \cap PermanentRules = {}
    PROVE  /\ Agrees(entries, loaded) => Agrees(Without(gone, entries), Without(gone, loaded))
           /\ \A records, present : Recoverable(entries, records, present, loaded, past) =>
                                    Recoverable(Without(gone, entries), records, present, Without(gone, loaded), past \cup gone)
           /\ \A old, a : ReplaceInv(old, entries, a, loaded, past) =>
                           ReplaceInv(Without(gone, old), Without(gone, entries), a, Without(gone, loaded), past \cup gone)
<1>1. \A s : Lasting(Without(gone, s)) = Lasting(s)
  BY DEF Lasting, Without
<1>2. ASSUME NEW old, NEW a, ReplaceInv(old, entries, a, loaded, past)
      PROVE  ReplaceInv(Without(gone, old), Without(gone, entries), a,
                        Without(gone, loaded), past \cup gone)
  BY <1>1, <1>2 DEF ReplaceInv, Lasting, Without
<1>3. Agrees(entries, loaded) => Agrees(Without(gone, entries), Without(gone, loaded))
  BY DEF Agrees, Lasting, Without
<1>4. ASSUME NEW records, NEW present, Recoverable(entries, records, present, loaded, past)
      PROVE  Recoverable(Without(gone, entries), records, present, Without(gone, loaded), past \cup gone)
  BY <1>4 DEF Recoverable, Lasting, Without
<1> QED  BY <1>2, <1>3, <1>4

(* Firewall.restore of the journal makes firewalld agree with the policy.    *)
LEMMA RestoreAgrees ==
    ASSUME NEW entries, NEW records, NEW present, NEW loaded, NEW past, past \cap PermanentRules = {},
           Recoverable(entries, records, present, loaded, past)
    PROVE  Agrees(entries, (loaded \ records) \cup {e \in present : e.rule \notin past})
  BY DEF Recoverable, Agrees, Lasting

(* Changes to the journaled entries alone can still be undone.               *)
LEMMA InsideTheJournal ==
    ASSUME NEW entries, NEW records, NEW present, NEW loaded, NEW past, NEW next,
           Recoverable(entries, records, present, loaded, past), next \ records = loaded \ records
    PROVE  Recoverable(entries, records, present, next, past)
<1>1. Lasting(entries) \ records \subseteq next /\ next \ records \subseteq entries
  BY DEF Recoverable, Lasting
<1> QED  BY <1>1 DEF Recoverable

(* A change begins with a journal from which firewalld is recoverable.       *)
LEMMA ChangeBegins ==
    ASSUME NEW old, NEW new, NEW loaded, NEW past, NEW a,
           old \subseteq EntryType, PlanesFit(old), Twinned(old), new \subseteq EntryType, PlanesFit(new), Twinned(new),
           Agrees(old, loaded), a.records = Changed(old, new), a.remove = old \ new, a.add = new \ old
    PROVE  /\ Recoverable(old, a.records, loaded \cap a.records, loaded, past)
           /\ ReplaceInv(old, new, a, loaded, past)
<1>1. Twinned(a.records) /\ PlanesFit(a.records) /\ a.records \subseteq EntryType
  <2>1. \A e \in EntryType : \A plane \in {"runtime", "permanent"} : \A other \in {"runtime", "permanent"} :
          /\ On(plane, e).rule = e.rule /\ On(other, On(plane, e)) = On(other, e)
          /\ (e.plane = plane => On(plane, e) = e)
    BY Planed
  <2>2. \A e \in EntryType : e.plane \in {"runtime", "permanent"}
    BY DEF EntryType
  <2>3. \A s, u : Twinned(s) /\ Twinned(u) /\ s \subseteq EntryType /\ u \subseteq EntryType => Twinned(s \ u)
    BY <2>1, <2>2 DEF Twinned
  <2>4. Twinned(a.records)
    BY <2>3 DEF Twinned, Changed
  <2> QED  BY <2>4 DEF PlanesFit, Changed
<1>2. Recoverable(old, a.records, loaded \cap a.records, loaded, past)
  BY <1>1 DEF Recoverable, Agrees, Lasting, Changed
<1>3. RuntimeLast(a.remove) /\ RuntimeLast(a.add)
  <2>1. \A e \in EntryType : e.plane = "permanent" => On("permanent", On("runtime", e)) = e /\ On("runtime", e).rule = e.rule
    BY Planed
  <2> QED  BY <2>1 DEF RuntimeLast, Twinned, PlanesFit
<1> QED  BY <1>2, <1>3 DEF ReplaceInv, Agrees, Lasting, Changed

(* When nothing is left to remove or to add, firewalld agrees with the new   *)
(* policy.                                                                   *)
LEMMA ChangeEnds ==
    ASSUME NEW old, NEW new, NEW loaded, NEW past, NEW a, NEW present,
           Recoverable(old, a.records, present, loaded, past), ReplaceInv(old, new, a, loaded, past),
           a.remove \cup a.add = {}
    PROVE  Agrees(new, loaded)
  BY DEF Recoverable, ReplaceInv, Agrees, Lasting

(* What is in force moves with what firewalld has.                           *)
LEMMA ForceMoves ==
    ASSUME NetworkRows, expired' = expired
    PROVE  /\ InForce \subseteq EntryType
           /\ native' = native => InForce' = InForce
           /\ \A records : native' \ records = native \ records => InForce' \ records = InForce \ records
           /\ \A e : native' = native \ {e} => InForce' = InForce \ {e}
           /\ \A e : native' = native \cup {e} /\ e.rule \notin expired => InForce' = InForce \cup {e}
           /\ \A records, present :
                native' = (native \ records) \cup {e \in present : e.rule \notin expired \cap TimedRules} =>
                InForce' = (InForce \ records) \cup {e \in present : e.rule \notin expired}
<1>1. InForce' = {e \in native' : e.rule \notin BootRules \cap expired}
  BY DEF InForce
<1>2. \A r \in expired : r \notin TimedRules => r \in BootRules
  BY DEF NetworkRows
<1>3. ASSUME NEW records, NEW present,
             native' = (native \ records) \cup {e \in present : e.rule \notin expired \cap TimedRules}
      PROVE  InForce' = (InForce \ records) \cup {e \in present : e.rule \notin expired}
  BY <1>1, <1>2, <1>3, NetworkConstants DEF InForce
<1> QED  BY <1>1, <1>3 DEF InForce, NetworkRows

-----------------------------------------------------------------------------
(* Writing the policy.                                                      *)

(* The policy that is read has its type.                                     *)
LEMMA PolicyTyped == NetworkRows => Policy \in PolicyType /\ Policy.revision \in Nat
  BY DEF NetworkRows, Policy, PolicyType

(* The empty values have their types.                                        *)
LEMMA EmptyTyped ==
    /\ NoRules \in RulesType /\ Unreadable \in PolicyType /\ Unreadable.revision = 0
    /\ NoReview.state = "none" /\ NoReview.before = Unreadable
    /\ NoReview \in ReviewType
    /\ NoUndo \in [revision : Nat, before : PolicyType, incoming : BOOLEAN] /\ NoUndo.revision = 0
    /\ Unlocked \in ApplyingType /\ Unlocked.doing = "nothing"
<1>1. <<>> \in Seq(IncomingRules) /\ <<>> \in Seq(ApplicationRules)
  OBVIOUS
<1>2. NoRules \in RulesType
  BY <1>1 DEF NoRules, RulesType
<1>3. Unreadable \in PolicyType /\ Unreadable.revision = 0
  BY <1>2 DEF Unreadable, PolicyType, NoJournal
<1> QED  BY <1>2, <1>3 DEF NoReview, NoUndo, Unlocked, ReviewType, ApplyingType

(* A policy written is the policy read; the copy is it or the one before.    *)
LEMMA WrittenIsRead ==
    ASSUME NetworkRows, NEW new \in PolicyType, new.revision # 0, Written(new)
    PROVE  /\ Policy' = new /\ policy_file' = new
           /\ last_good' = new \/ last_good' = Policy
           /\ policy_file' \in PolicyType /\ last_good' \in PolicyType
  BY PolicyTyped, EmptyTyped DEF Written, Policy, Unreadable

(* A write that failed changes nothing that is read.                         *)
LEMMA NotWrittenIsKept ==
    ASSUME NetworkRows, NotWritten
    PROVE  /\ Policy' = Policy /\ policy_file' = policy_file
           /\ last_good' = last_good \/ last_good' = Policy
           /\ last_good' \in PolicyType
  BY PolicyTyped DEF NotWritten, Policy, NetworkRows

(* The next revision of a policy.                                            *)
LEMMA RevisedIsLater ==
    ASSUME NetworkRows, NEW rules \in RulesType, NEW disabled \in SUBSET AllRules,
           NEW notes \in [open : BOOLEAN, records : SUBSET EntryType, present : SUBSET EntryType]
    PROVE  LET new == Revised(Policy, rules, disabled, notes) IN
           /\ new \in PolicyType /\ new.revision # 0 /\ new.revision > Policy.revision
           /\ new.rules = rules /\ new.disabled = disabled /\ new.journal = notes
           /\ \A k \in Nat : k <= Policy.revision => k < new.revision
<1>1. Policy.revision \in Nat
  BY PolicyTyped
<1>2. Policy.revision + 1 \in Nat /\ Policy.revision + 1 # 0 /\ Policy.revision + 1 > Policy.revision
  BY <1>1
<1>3. \A k \in Nat : k <= Policy.revision => k < Policy.revision + 1
  BY <1>1
<1> QED  BY <1>2, <1>3 DEF Revised, PolicyType

-----------------------------------------------------------------------------
(* Steps in memory.                                                         *)

\* The same review at another stage.
SameReview(r, s) ==
    /\ s.before = r.before /\ s.rules = r.rules /\ s.disabled = r.disabled /\ s.incoming = r.incoming
    /\ r.state # "none"
    /\ r.state = "locked" => s.state = "locked"

(* Reviews and undo references that come, move on and go outside the file    *)
(* lock disturb nothing.                                                     *)
LEMMA MemoryStep ==
    ASSUME NetworkInv, UNCHANGED <<policy_file, last_good, native, expired, running, applying>>,
           undo' = undo \/ undo' = NoUndo, pending' \in [Reviews -> ReviewType],
           \A t \in Reviews :
              \/ pending'[t] = pending[t]
              \/ pending[t].state # "locked" /\ pending'[t] = NoReview
              \/ running /\ pending[t].state # "locked" /\ (pending'[t].state = "none" \/ ReviewHolds(pending'[t]))
              \/ running /\ SameReview(pending[t], pending'[t])
    PROVE  NetworkInv'
<1>1. NetworkRows /\ FirewallInv /\ ReviewsInv /\ ApplyInv
  BY DEF NetworkInv
<1>2. NetworkRows'
  BY <1>1, EmptyTyped DEF NetworkRows
<1>3. Policy' = Policy /\ InForce' = InForce /\ \A p : Says(p)' = EntriesAt(p'.rules, p'.disabled, expired)
  BY DEF Policy, Says, InForce
<1>4. FirewallInv'
  BY <1>1, <1>3 DEF FirewallInv, JournalHolds, Journaled, Agrees, Recoverable, Says
<1>5. ReviewsInv'
  <2>1. ASSUME NEW t \in Reviews, pending'[t].state # "none" PROVE ReviewHolds(pending[t])'
    <3>1. CASE pending'[t] = pending[t]
      BY <1>1, <1>3, <2>1, <3>1 DEF ReviewsInv, ReviewHolds
    <3>2. CASE ReviewHolds(pending'[t])
      BY <1>3, <3>2 DEF ReviewHolds
    <3>3. CASE SameReview(pending[t], pending'[t])
      BY <1>1, <1>3, <3>3 DEF SameReview, ReviewsInv, ReviewHolds
    <3> QED  BY <2>1, <3>1, <3>2, <3>3, EmptyTyped
  <2>2. undo'.revision <= Policy'.revision
    <3>1. Policy.revision \in Nat /\ undo.revision <= Policy.revision
      BY <1>1, PolicyTyped DEF ReviewsInv
    <3>2. 0 <= Policy.revision
      BY <3>1
    <3> QED  BY <1>3, <3>1, <3>2, EmptyTyped
  <2>3. undo'.revision = Policy'.revision /\ ~undo'.incoming /\ undo' # NoUndo =>
         SameIncoming(undo'.before.rules, undo'.before.disabled, Policy'.rules, Policy'.disabled)
    BY <1>1, <1>3 DEF ReviewsInv
  <2>4. ASSUME ~running' PROVE applying' = Unlocked /\ undo' = NoUndo /\ \A t \in Reviews : pending'[t] = NoReview
    BY <1>1, <2>4 DEF ReviewsInv
  <2> QED  BY <2>1, <2>2, <2>3, <2>4 DEF ReviewsInv
<1>6. ApplyInv'
  <2> SUFFICES ASSUME applying.doing # "nothing" PROVE ApplyInv'
    BY DEF ApplyInv
  <2> DEFINE t == applying.by
  <2>1. t \in Reviews /\ pending[t].state = "locked"
    BY <1>1 DEF ApplyInv
  <2>2. SameReview(pending[t], pending'[t])
    BY <2>1 DEF SameReview
  <2> QED  BY <1>1, <1>3, <2>1, <2>2 DEF ApplyInv, SameReview, ReplaceInv, Says, Journaled
<1> QED  BY <1>2, <1>4, <1>5, <1>6 DEF NetworkInv

(* Moving a rule in its list, and taking it out, keep a list of such rules.  *)
LEMMA ListsStay ==
    ASSUME NEW S, NEW list \in Seq(S), NEW i \in DOMAIN list, NEW j \in DOMAIN list
    PROVE  RemoveAt(list, i) \in Seq(S) /\ Moved(list, i, j) \in Seq(S)
<1>1. i \in 1 .. Len(list) /\ j \in 1 .. Len(list) /\ Len(list) \in Nat /\ list[i] \in S
  OBVIOUS
<1>2. SubSeq(list, 1, i - 1) \in Seq(S) /\ SubSeq(list, i + 1, Len(list)) \in Seq(S)
     /\ Len(SubSeq(list, 1, i - 1)) = i - 1 /\ Len(SubSeq(list, i + 1, Len(list))) = Len(list) - i
  BY <1>1
<1> DEFINE left == SubSeq(list, 1, i - 1)
           right == SubSeq(list, i + 1, Len(list))
<1> HIDE DEF left, right
<1>a. left \in Seq(S) /\ right \in Seq(S) /\ Len(left) = i - 1 /\ Len(right) = Len(list) - i
  BY <1>2 DEF left, right
<1>b. left \o right \in Seq(S) /\ Len(left \o right) = Len(left) + Len(right)
  BY <1>a, SMTT(30)
<1>c. (i - 1) + (Len(list) - i) = Len(list) - 1
  BY <1>1
<1>3. RemoveAt(list, i) \in Seq(S) /\ Len(RemoveAt(list, i)) = Len(list) - 1
  BY <1>a, <1>b, <1>c DEF RemoveAt, left, right
<1> DEFINE rest == RemoveAt(list, i)
<1> HIDE DEF rest
<1>4. rest \in Seq(S) /\ Len(rest) = Len(list) - 1
  BY <1>3 DEF rest
<1>5. SubSeq(rest, 1, j - 1) \in Seq(S) /\ SubSeq(rest, j, Len(rest)) \in Seq(S) /\ <<list[i]>> \in Seq(S)
  BY <1>1, <1>4
<1>6. InsertAt(rest, j, list[i]) \in Seq(S)
  BY <1>5 DEF InsertAt
<1> QED  BY <1>3, <1>6 DEF Moved, rest

(* A list put into the policy of a provider.                                 *)
LEMMA EditedTyped ==
    ASSUME NEW rules \in RulesType, NEW provider \in RuleProviders, NEW list \in Seq(Own(provider))
    PROVE  /\ rules[provider] \in Seq(Own(provider)) /\ [rules EXCEPT ![provider] = list] \in RulesType
           /\ provider = "application" => [rules EXCEPT ![provider] = list].incoming = rules.incoming
<1>1. CASE provider = "incoming"
  BY <1>1 DEF RulesType, Own
<1>2. CASE provider = "application"
  BY <1>2 DEF RulesType, Own
<1> QED  BY <1>1, <1>2 DEF RuleProviders

(* A command yields a policy, and one on application rules leaves the        *)
(* incoming ones as they were.                                               *)
LEMMA CommandsTyped ==
    ASSUME NetworkRows, ReviewsInv, NEW provider \in RuleProviders, NEW c \in Commands(provider)
    PROVE  /\ c[1] \in RulesType /\ c[2] \in SUBSET AllRules
           /\ provider = "application" => SameIncoming(Policy.rules, Policy.disabled, c[1], c[2])
<1> DEFINE list == Policy.rules[provider]
           disabled == Policy.disabled
           Edited(l) == [Policy.rules EXCEPT ![provider] = l]
           absent == Own(provider) \ ToSet(list)
           same(d) == provider = "application" => d \ ApplicationRules = disabled \ ApplicationRules
<1>1. Policy.rules \in RulesType /\ disabled \in SUBSET AllRules
  BY PolicyTyped DEF PolicyType
<1>2. list \in Seq(Own(provider)) /\ Own(provider) \subseteq AllRules
  <2>1. <<>> \in Seq(Own(provider)) /\ Own(provider) \subseteq AllRules
    BY DEF Own, AllRules
  <2> QED  BY <1>1, <2>1, EditedTyped
<1>3. provider = "application" => Own(provider) = ApplicationRules
  BY DEF Own
<1> HIDE DEF list, disabled
<1>4. \A i \in DOMAIN list : list[i] \in Own(provider)
  BY <1>2
<1>5. ToSet(list) \subseteq Own(provider)
  BY <1>4 DEF ToSet
<1>6. \A i \in DOMAIN list : disabled \ {list[i]} \in SUBSET AllRules /\ same(disabled \ {list[i]})
  BY <1>1, <1>3, <1>4
<1>7. \A r \in ToSet(list) : LET d == IF r \in disabled THEN disabled \ {r} ELSE disabled \cup {r} IN
                             d \in SUBSET AllRules /\ same(d)
  BY <1>1, <1>2, <1>3, <1>5
<1>8. ASSUME NEW l \in Seq(Own(provider)), NEW d \in SUBSET AllRules, same(d), c = <<Edited(l), d>>
      PROVE  /\ c[1] \in RulesType /\ c[2] \in SUBSET AllRules
             /\ provider = "application" => SameIncoming(Policy.rules, disabled, c[1], c[2])
  BY <1>1, <1>8, EditedTyped DEF SameIncoming
<1>9. \/ \E r \in absent : c = <<Edited(Append(list, r)), disabled>>
      \/ \E i \in DOMAIN list, r \in absent : c = <<Edited([list EXCEPT ![i] = r]), disabled \ {list[i]}>>
      \/ \E i \in DOMAIN list : c = <<Edited(RemoveAt(list, i)), disabled \ {list[i]}>>
      \/ \E r \in ToSet(list) : c = <<Policy.rules, IF r \in disabled THEN disabled \ {r} ELSE disabled \cup {r}>>
      \/ \E i, j \in DOMAIN list : c = <<Edited(Moved(list, i, j)), disabled>>
      \/ /\ undo # NoUndo /\ undo.revision = Policy.revision /\ undo.incoming = (provider = "incoming")
         /\ c = <<undo.before.rules, undo.before.disabled>>
  BY DEF Commands, list, disabled
<1>10. ASSUME NEW r \in absent, c = <<Edited(Append(list, r)), disabled>>
       PROVE  Append(list, r) \in Seq(Own(provider))
  BY <1>2
<1>11. ASSUME NEW i \in DOMAIN list, NEW r \in absent PROVE [list EXCEPT ![i] = r] \in Seq(Own(provider))
  BY <1>2
<1>12. ASSUME NEW i \in DOMAIN list, NEW j \in DOMAIN list
       PROVE  RemoveAt(list, i) \in Seq(Own(provider)) /\ Moved(list, i, j) \in Seq(Own(provider))
  BY <1>2, ListsStay
<1>13. CASE \E r \in absent : c = <<Edited(Append(list, r)), disabled>>
  BY <1>1, <1>8, <1>10, <1>13 DEF disabled
<1>14. CASE \E i \in DOMAIN list, r \in absent : c = <<Edited([list EXCEPT ![i] = r]), disabled \ {list[i]}>>
  BY <1>6, <1>8, <1>11, <1>14 DEF disabled
<1>15. CASE \E i \in DOMAIN list : c = <<Edited(RemoveAt(list, i)), disabled \ {list[i]}>>
  BY <1>6, <1>8, <1>12, <1>15 DEF disabled
<1>16. CASE \E r \in ToSet(list) : c = <<Policy.rules, IF r \in disabled THEN disabled \ {r} ELSE disabled \cup {r}>>
  BY <1>1, <1>7, <1>16 DEF SameIncoming, disabled
<1>17. CASE \E i, j \in DOMAIN list : c = <<Edited(Moved(list, i, j)), disabled>>
  BY <1>1, <1>8, <1>12, <1>17 DEF disabled
<1>18. CASE /\ undo # NoUndo /\ undo.revision = Policy.revision /\ undo.incoming = (provider = "incoming")
            /\ c = <<undo.before.rules, undo.before.disabled>>
  <2>1. c[1] = undo.before.rules /\ c[2] = undo.before.disabled
    BY <1>18
  <2>2. undo.before \in PolicyType
    BY DEF NetworkRows
  <2>3. provider = "application" => ~undo.incoming
    BY <1>18
  <2>4. provider = "application" => SameIncoming(undo.before.rules, undo.before.disabled, Policy.rules, disabled)
    BY <1>18, <2>3 DEF ReviewsInv, disabled
  <2> QED  BY <2>1, <2>2, <2>4 DEF PolicyType, SameIncoming, disabled
<1> QED  BY <1>9, <1>13, <1>14, <1>15, <1>16, <1>17, <1>18

(* RuleManager.prepare.                                                      *)
LEMMA PrepareKeeps ==
    ASSUME NetworkInv, NEW t \in Reviews, NEW provider \in RuleProviders, Prepare(t, provider)
    PROVE  NetworkInv'
<1>1. NetworkRows /\ ReviewsInv
  BY DEF NetworkInv
<1>2. PICK c \in Commands(provider) :
        pending' = [pending EXCEPT ![t] =
            [state |-> "review", before |-> Policy, rules |-> c[1], disabled |-> c[2],
             incoming |-> provider = "incoming", cancelled |-> FALSE,
             native_before |-> IF provider = "incoming" THEN Capture(Policy, c[1], c[2]) ELSE {}]]
  BY Zenon DEF Prepare
<1> DEFINE captured == IF provider = "incoming" THEN Capture(Policy, c[1], c[2]) ELSE {}
           r == [state |-> "review", before |-> Policy, rules |-> c[1], disabled |-> c[2],
                 incoming |-> provider = "incoming", cancelled |-> FALSE, native_before |-> captured]
<1>3. captured \in SUBSET EntryType
  BY <1>1 DEF Capture, NetworkRows
<1> HIDE DEF captured
<1>4. Policy \in PolicyType /\ Policy.revision \in Nat
  BY <1>1, PolicyTyped
<1>5. c[1] \in RulesType /\ c[2] \in SUBSET AllRules
     /\ (provider = "application" => SameIncoming(Policy.rules, Policy.disabled, c[1], c[2]))
  BY <1>1, CommandsTyped
<1>6. r \in ReviewType
  BY <1>3, <1>4, <1>5 DEF ReviewType
<1>7. Policy.revision <= Policy.revision
  BY <1>4
<1>8. ~Journaled(Policy) /\ running /\ pending[t] = NoReview
  BY DEF Prepare
<1>9. r.before = Policy /\ r.rules = c[1] /\ r.disabled = c[2] /\ (r.incoming <=> provider = "incoming")
  OBVIOUS
<1>10. pending' = [pending EXCEPT ![t] = r]
  BY <1>2 DEF captured
<1> HIDE DEF r
<1>11. ReviewHolds(r)
  BY <1>5, <1>7, <1>8, <1>9 DEF ReviewHolds, RuleProviders
<1>12. pending' \in [Reviews -> ReviewType] /\ pending'[t] = r /\ \A u \in Reviews \ {t} : pending'[u] = pending[u]
  BY <1>1, <1>6, <1>10 DEF NetworkRows
<1>13. UNCHANGED <<policy_file, last_good, native, expired, running, applying>> /\ undo' = undo
  BY DEF Prepare
<1> QED  BY <1>8, <1>11, <1>12, <1>13, EmptyTyped, MemoryStep

(* cancel, the deadlines, and the start and the failure of authentication.   *)
LEMMA StagesKeep ==
    ASSUME NetworkInv, NEW t \in Reviews, Cancel(t) \/ ReviewExpires(t) \/ BeginApply(t) \/ Refuse(t) \/ UndoExpires
    PROVE  NetworkInv'
<1>1. NetworkRows /\ ReviewsInv /\ pending \in [Reviews -> ReviewType] /\ pending[t] \in ReviewType
  BY DEF NetworkInv, NetworkRows
<1>2. UNCHANGED <<policy_file, last_good, native, expired, running, applying>> /\ (undo' = undo \/ undo' = NoUndo)
  BY DEF Cancel, ReviewExpires, BeginApply, Refuse, UndoExpires
<1>3. CASE Cancel(t)
  <2>1. pending' = [pending EXCEPT ![t] = [pending[t] EXCEPT !.cancelled = TRUE]] /\ running /\ pending[t] # NoReview
    BY <1>3 DEF Cancel
  <2>2. [pending[t] EXCEPT !.cancelled = TRUE] \in ReviewType
    BY <1>1 DEF ReviewType
  <2>3. CASE pending[t].state = "none"
    <3>1. [pending[t] EXCEPT !.cancelled = TRUE].state = "none"
      BY <1>1, <2>3 DEF ReviewType
    <3>2. pending' \in [Reviews -> ReviewType] /\ pending'[t].state = "none" /\ \A u \in Reviews \ {t} : pending'[u] = pending[u]
      BY <1>1, <2>1, <2>2, <3>1
    <3> QED  BY <1>2, <2>1, <2>3, <3>2, MemoryStep
  <2>4. CASE pending[t].state # "none"
    <3>1. SameReview(pending[t], [pending[t] EXCEPT !.cancelled = TRUE])
      BY <1>1, <2>4 DEF SameReview, ReviewType
    <3>2. pending' \in [Reviews -> ReviewType] /\ SameReview(pending[t], pending'[t])
          /\ \A u \in Reviews \ {t} : pending'[u] = pending[u]
      BY <1>1, <2>1, <2>2, <3>1
    <3> QED  BY <1>2, <2>1, <3>2, MemoryStep
  <2> QED  BY <2>3, <2>4
<1>4. CASE ReviewExpires(t) \/ Refuse(t)
  <2>1. pending' = [pending EXCEPT ![t] = NoReview] /\ pending[t].state # "locked"
    BY <1>4 DEF ReviewExpires, Refuse
  <2>2. pending' \in [Reviews -> ReviewType] /\ pending'[t] = NoReview /\ \A u \in Reviews \ {t} : pending'[u] = pending[u]
    BY <1>1, <2>1, EmptyTyped
  <2> QED  BY <1>2, <2>1, <2>2, MemoryStep
<1>5. CASE BeginApply(t)
  <2>1. pending' = [pending EXCEPT ![t] = [pending[t] EXCEPT !.state = "authenticating"]] /\ running /\ pending[t].state = "review"
    BY <1>5 DEF BeginApply
  <2>2. [pending[t] EXCEPT !.state = "authenticating"] \in ReviewType
        /\ SameReview(pending[t], [pending[t] EXCEPT !.state = "authenticating"])
    BY <1>1, <2>1 DEF ReviewType, SameReview
  <2>3. pending' \in [Reviews -> ReviewType] /\ SameReview(pending[t], pending'[t])
        /\ \A u \in Reviews \ {t} : pending'[u] = pending[u]
    BY <1>1, <2>1, <2>2
  <2> QED  BY <1>2, <2>1, <2>3, MemoryStep
<1>6. CASE UndoExpires
  <2>1. pending' = pending
    BY <1>6 DEF UndoExpires
  <2> QED  BY <1>1, <1>2, <2>1, MemoryStep
<1> QED  BY <1>3, <1>4, <1>5, <1>6

-----------------------------------------------------------------------------
(* Steps of firewalld, of time, of the disk and of the service.             *)

(* What a policy says is made of entries with their planes.                  *)
LEMMA SaysFits ==
    \A p : Says(p) \subseteq EntryType /\ PlanesFit(Says(p)) /\ Twinned(Says(p))
  BY EntriesFit DEF Says

(* What is in force after firewalld starts again is what was, reloaded.      *)
LEMMA ReloadsInForce ==
    ASSUME native \subseteq EntryType, NEW past
    PROVE  {e \in Reloaded(native) : e.rule \notin past} = Reloaded({e \in native : e.rule \notin past})
<1>1. \A e \in native : On("runtime", e).rule = e.rule /\ e \in EntryType
  BY Planed
<1>2. \A s, e : e \in Reloaded(s) <=> \/ e \in s /\ e.plane = "permanent"
                                   \/ \E x \in s : x.plane = "permanent" /\ e = On("runtime", x)
  BY DEF Reloaded, On
<1> QED  BY <1>1, <1>2

(* firewalld starts again.                                                   *)
LEMMA RestartKeeps ==
    ASSUME NetworkInv, FirewalldRestarts
    PROVE  NetworkInv'
<1>1. NetworkRows /\ FirewallInv /\ ReviewsInv /\ ApplyInv
  BY DEF NetworkInv
<1>2. native' = Reloaded(native) /\ UNCHANGED <<policy_file, last_good, expired, pending, undo, running, applying>>
  BY DEF FirewalldRestarts
<1>3. native \subseteq EntryType /\ InForce \subseteq EntryType
  BY <1>1 DEF NetworkRows, InForce
<1>4. native' \subseteq EntryType /\ InForce' = Reloaded(InForce)
  BY <1>2, <1>3, ReloadsInForce, ReloadKeeps, SaysFits DEF InForce
<1>5. NetworkRows'
  BY <1>1, <1>2, <1>4 DEF NetworkRows
<1>6. Policy' = Policy
  BY <1>2 DEF Policy
<1>7. ReviewsInv'
  BY <1>1, <1>2, <1>6 DEF ReviewsInv, ReviewHolds
<1>8. \A p : Agrees(Says(p), InForce) => Agrees(Says(p), Reloaded(InForce))
  BY <1>3, ReloadKeeps, SaysFits
<1>9. \A p : JournalHolds(p) /\ Journaled(p) =>
             Recoverable(Says(p), p.journal.records, p.journal.present, Reloaded(InForce), expired)
  BY <1>3, ReloadKeeps, SaysFits DEF JournalHolds
<1>10. FirewallInv'
  <2>1. Says(Policy)' = Says(Policy) /\ Says(last_good)' = Says(last_good)
    BY <1>2, <1>6 DEF Says
  <2>2. (~Journaled(Policy) => Agrees(Says(Policy), InForce))'
    BY <1>1, <1>2, <1>4, <1>6, <1>8, <2>1 DEF FirewallInv
  <2>3. JournalHolds(Policy)' /\ JournalHolds(last_good)'
    BY <1>1, <1>2, <1>4, <1>6, <1>9, <2>1 DEF FirewallInv, JournalHolds
  <2> QED  BY <1>1, <1>2, <1>6, <2>2, <2>3 DEF FirewallInv
<1>11. ASSUME applying.doing \in {"replace", "save"}, pending[applying.by].incoming
       PROVE  LET r == pending[applying.by] IN
              ReplaceInv(Says(r.before), EntriesAt(r.rules, r.disabled, expired), applying, Reloaded(InForce), expired)
  <2> DEFINE r == pending[applying.by]
             new == EntriesAt(r.rules, r.disabled, expired)
  <2>1. ReplaceInv(Says(r.before), new, applying, InForce, expired)
    BY <1>1, <1>11 DEF ApplyInv
  <2>2. Policy.journal = [open |-> TRUE, records |-> applying.records, present |-> applying.present]
        /\ Says(Policy) = Says(r.before)
    BY <1>1, <1>11 DEF ApplyInv, Says
  <2>3. Recoverable(Says(r.before), applying.records, applying.present, InForce, expired)
    BY <1>1, <2>2 DEF FirewallInv, JournalHolds, Journaled
  <2>4. new \subseteq EntryType /\ PlanesFit(new) /\ Twinned(new)
    BY EntriesFit
  <2> HIDE DEF new
  <2> QED  BY <1>3, <2>1, <2>3, <2>4, ReloadKeeps, SaysFits DEF new
<1>12. ApplyInv'
  <2>1. Says(pending[applying.by].before)' = Says(pending[applying.by].before)
    BY <1>2 DEF Says
  <2> QED  BY <1>1, <1>2, <1>4, <1>6, <1>11, <2>1 DEF ApplyInv, Journaled
<1> QED  BY <1>5, <1>7, <1>10, <1>12 DEF NetworkInv

(* A timed rule expires.                                                     *)
LEMMA ExpiresKeeps ==
    ASSUME NetworkInv, NEW rule \in TimedRules, RuleExpires(rule)
    PROVE  NetworkInv'
<1>1. NetworkRows /\ FirewallInv /\ ReviewsInv /\ ApplyInv
  BY DEF NetworkInv
<1>2. native' = Without({rule}, native) /\ InForce' = Without({rule}, InForce) /\ expired' = expired \cup {rule}
     /\ UNCHANGED <<policy_file, last_good, pending, undo, running, applying>>
  BY NetworkConstants DEF RuleExpires, Without, InForce
<1>3. {rule} \cap PermanentRules = {}
  BY NetworkConstants
<1>4. NetworkRows'
  BY <1>1, <1>2 DEF NetworkRows, Without
<1>5. Policy' = Policy
  BY <1>2 DEF Policy
<1>6. ReviewsInv'
  BY <1>1, <1>2, <1>5 DEF ReviewsInv, ReviewHolds
<1>7. \A rules, disabled : EntriesAt(rules, disabled, expired') = Without({rule}, EntriesAt(rules, disabled, expired))
  BY <1>2, EntriesExpire
<1>8. Says(Policy)' = Without({rule}, Says(Policy)) /\ Says(last_good)' = Without({rule}, Says(last_good))
     /\ Says(pending[applying.by].before)' = Without({rule}, Says(pending[applying.by].before))
  BY <1>2, <1>5, <1>7 DEF Says
<1>9. FirewallInv'
  <2>1. (~Journaled(Policy) => Agrees(Says(Policy), InForce))'
    BY <1>1, <1>2, <1>3, <1>5, <1>8, ExpiryKeeps DEF FirewallInv
  <2>2. JournalHolds(Policy)' /\ JournalHolds(last_good)'
    BY <1>1, <1>2, <1>3, <1>5, <1>8, ExpiryKeeps DEF FirewallInv, JournalHolds
  <2> QED  BY <1>1, <1>2, <1>5, <2>1, <2>2 DEF FirewallInv
<1>10. ASSUME applying.doing \in {"replace", "save"}, pending[applying.by].incoming
       PROVE  LET r == pending[applying.by] IN
              ReplaceInv(Without({rule}, Says(r.before)), Without({rule}, EntriesAt(r.rules, r.disabled, expired)), applying, InForce', expired')
  BY <1>1, <1>2, <1>3, <1>10, ExpiryKeeps DEF ApplyInv
<1>11. ApplyInv'
  BY <1>1, <1>2, <1>5, <1>7, <1>8, <1>10 DEF ApplyInv, Journaled
<1> QED  BY <1>4, <1>6, <1>9, <1>11 DEF NetworkInv

(* The service dies, or the policy file is damaged while it is down.         *)
LEMMA FailuresKeep ==
    ASSUME NetworkInv, ServiceDies \/ FileDamaged
    PROVE  NetworkInv'
<1>1. NetworkRows /\ FirewallInv /\ ReviewsInv /\ ApplyInv
  BY DEF NetworkInv
<1>2. CASE ServiceDies
  <2>1. /\ UNCHANGED <<policy_file, last_good, native, expired>> /\ running' = FALSE
        /\ undo' = NoUndo /\ applying' = Unlocked /\ \A t \in Reviews : pending'[t] = NoReview
        /\ pending' \in [Reviews -> ReviewType]
    BY <1>2, EmptyTyped DEF ServiceDies
  <2>2. NetworkRows'
    BY <1>1, <2>1, EmptyTyped DEF NetworkRows
  <2>3. Policy' = Policy /\ InForce' = InForce
    BY <2>1 DEF Policy, InForce
  <2>4. FirewallInv'
    BY <1>1, <2>1, <2>3 DEF FirewallInv, JournalHolds, Journaled, Says
  <2>5. 0 <= Policy.revision
    BY <1>1, PolicyTyped
  <2>6. ReviewsInv'
    BY <2>1, <2>3, <2>5, EmptyTyped DEF ReviewsInv
  <2>7. ApplyInv'
    BY <2>1, EmptyTyped DEF ApplyInv
  <2> QED  BY <2>2, <2>4, <2>6, <2>7 DEF NetworkInv
<1>3. CASE FileDamaged
  <2>1. /\ UNCHANGED <<last_good, native, expired, pending, undo, running, applying>> /\ ~running
        /\ policy_file' = Unreadable /\ policy_file # Unreadable /\ (last_good = policy_file \/ Journaled(last_good))
    BY <1>3 DEF FileDamaged
  <2>2. NetworkRows'
    BY <1>1, <2>1, EmptyTyped DEF NetworkRows
  <2>3. Policy' = last_good /\ (last_good = Policy \/ Journaled(last_good)) /\ InForce' = InForce
    BY <2>1 DEF Policy, InForce
  <2>4. FirewallInv'
    BY <1>1, <2>1, <2>3 DEF FirewallInv, JournalHolds, Journaled, Says
  <2>5. 0 <= last_good.revision
    <3>1. last_good.revision \in Nat
      BY <1>1 DEF NetworkRows, PolicyType
    <3> QED  BY <3>1
  <2>6. ReviewsInv'
    BY <1>1, <2>1, <2>3, <2>5, EmptyTyped DEF ReviewsInv
  <2>7. ApplyInv'
    BY <1>1, <2>1, EmptyTyped DEF ApplyInv, ReviewsInv
  <2> QED  BY <2>2, <2>4, <2>6, <2>7 DEF NetworkInv
<1> QED  BY <1>2, <1>3

(* The system starts again: firewalld reloads, and the boot rules end.       *)
LEMMA RebootKeeps ==
    ASSUME NetworkInv, Reboot
    PROVE  NetworkInv'
<1> DEFINE gone == BootRules \cap (ToSet(policy_file.rules.incoming) \cup ToSet(last_good.rules.incoming))
<1>1. NetworkRows /\ FirewallInv /\ ReviewsInv /\ ApplyInv
  BY DEF NetworkInv
<1>2. native' = Reloaded(native) /\ expired' = expired \cup gone /\ ~running
     /\ UNCHANGED <<policy_file, last_good, pending, undo, running, applying>>
  BY DEF Reboot
<1>3. gone \subseteq BootRules /\ gone \cap PermanentRules = {}
  BY NetworkConstants
<1> HIDE DEF gone
<1>4. native \subseteq EntryType /\ InForce \subseteq EntryType
  BY <1>1 DEF NetworkRows, InForce
<1>5. native' \subseteq EntryType
  BY <1>2, <1>4, ReloadKeeps, SaysFits
<1>6. InForce' = Without(gone, Reloaded(InForce))
  <2>1. InForce' = {e \in Reloaded(native) : e.rule \notin BootRules \cap expired /\ e.rule \notin gone}
    BY <1>2, <1>3 DEF InForce
  <2>2. {e \in Reloaded(native) : e.rule \notin BootRules \cap expired} = Reloaded(InForce)
    BY <1>4, ReloadsInForce DEF InForce
  <2> QED  BY <2>1, <2>2 DEF Without
<1>7. NetworkRows'
  BY <1>1, <1>2, <1>3, <1>5 DEF NetworkRows
<1>8. Policy' = Policy
  BY <1>2 DEF Policy
<1>9. \A p : EntriesAt(p.rules, p.disabled, expired') = Without(gone, Says(p))
  BY <1>2, EntriesExpire DEF Says
<1>10. \A p : Agrees(Says(p), InForce) => Agrees(Without(gone, Says(p)), InForce')
  BY <1>3, <1>4, <1>6, ReloadKeeps, SaysFits, ExpiryKeeps
<1>11. \A p : JournalHolds(p) /\ Journaled(p) =>
             Recoverable(Without(gone, Says(p)), p.journal.records, p.journal.present, InForce', expired')
  <2>1. \A p : JournalHolds(p) /\ Journaled(p) =>
             Recoverable(Says(p), p.journal.records, p.journal.present, Reloaded(InForce), expired)
    BY <1>4, ReloadKeeps, SaysFits DEF JournalHolds
  <2> QED  BY <1>2, <1>3, <1>6, <2>1, ExpiryKeeps
<1>12. FirewallInv'
  <2>1. Says(Policy)' = Without(gone, Says(Policy)) /\ Says(last_good)' = Without(gone, Says(last_good))
    BY <1>2, <1>8, <1>9 DEF Says
  <2>2. (~Journaled(Policy) => Agrees(Says(Policy), InForce))'
    BY <1>1, <1>8, <1>10, <2>1 DEF FirewallInv
  <2>3. JournalHolds(Policy)' /\ JournalHolds(last_good)'
    BY <1>1, <1>2, <1>8, <1>11, <2>1 DEF FirewallInv, JournalHolds
  <2> QED  BY <1>1, <1>2, <1>8, <2>2, <2>3 DEF FirewallInv
<1>13. ReviewsInv'
  BY <1>1, <1>2, <1>8 DEF ReviewsInv, ReviewHolds
<1>14. ApplyInv'
  BY <1>1, <1>2, EmptyTyped DEF ApplyInv, ReviewsInv
<1> QED  BY <1>7, <1>12, <1>13, <1>14 DEF NetworkInv

-----------------------------------------------------------------------------
(* Steps that write the policy.                                             *)

(* A policy without a journal is written when firewalld agrees with it; the  *)
(* copy may still be the journaled one.                                      *)
LEMMA CommitKeepsFirewall ==
    ASSUME NetworkRows, expired' = expired, NEW new \in PolicyType, new.revision # 0, Written(new),
           ~Journaled(new), Agrees(Says(new), InForce'),
           Journaled(Policy) => Recoverable(Says(Policy), Policy.journal.records, Policy.journal.present, InForce', expired)
    PROVE  FirewallInv'
<1>1. Policy' = new /\ (last_good' = new \/ last_good' = Policy)
  BY WrittenIsRead
<1>2. \A p : EntriesAt(p.rules, p.disabled, expired') = Says(p)
  BY DEF Says
<1>3. Says(Policy)' = Says(new) /\ (last_good' = Policy => Says(last_good)' = Says(Policy))
  BY <1>1 DEF Says
<1>4. (~Journaled(Policy))' /\ Agrees(Says(Policy), InForce)'
  BY <1>1, <1>3 DEF Journaled, Agrees
<1>5. JournalHolds(last_good)'
  BY <1>1, <1>3 DEF JournalHolds, Journaled
<1> QED  BY <1>4, <1>5 DEF FirewallInv, JournalHolds

(* A write fails: firewalld may have changed where the journal says so.      *)
LEMMA FailureKeepsFirewall ==
    ASSUME NetworkRows, FirewallInv, expired' = expired, Policy' = Policy,
           last_good' = last_good \/ last_good' = Policy,
           ~Journaled(Policy) => native' = native,
           Journaled(Policy) => native' \ Policy.journal.records = native \ Policy.journal.records
    PROVE  FirewallInv'
<1>0. /\ ~Journaled(Policy) => InForce' = InForce
      /\ Journaled(Policy) => InForce' \ Policy.journal.records = InForce \ Policy.journal.records
  BY ForceMoves
<1>1. Says(Policy)' = Says(Policy) /\ \A p : EntriesAt(p.rules, p.disabled, expired') = Says(p)
  BY DEF Says
<1>2. CASE Journaled(Policy)
  <2>1. Recoverable(Says(Policy), Policy.journal.records, Policy.journal.present, InForce', expired)
    BY <1>0, <1>2, InsideTheJournal DEF FirewallInv, JournalHolds
  <2>2. JournalHolds(Policy)'
    BY <1>1, <2>1 DEF JournalHolds
  <2>3. Journaled(last_good)' => last_good' = Policy
    BY <1>2 DEF FirewallInv, Journaled
  <2>4. JournalHolds(last_good)'
    BY <2>1, <2>3 DEF JournalHolds, Says
  <2> QED  BY <1>2, <2>2, <2>3, <2>4 DEF FirewallInv, Journaled
<1>3. CASE ~Journaled(Policy)
  <2>1. InForce' = InForce
    BY <1>0, <1>3
  <2>2. JournalHolds(last_good)'
    BY <1>3, <2>1 DEF FirewallInv, JournalHolds, Says, Journaled
  <2> QED  BY <1>1, <1>3, <2>1, <2>2 DEF FirewallInv, JournalHolds, Journaled
<1> QED  BY <1>2, <1>3

(* A later revision outdates every review and every undo reference.          *)
LEMMA RevisionMoves ==
    ASSUME NetworkRows, ReviewsInv, \A k \in Nat : k <= Policy.revision => k < Policy'.revision, Policy'.revision \in Nat,
           running', undo' = undo \/ undo' = NoUndo,
           \A t \in Reviews : pending'[t].state = "none" \/ SameReview(pending[t], pending'[t])
    PROVE  ReviewsInv'
<1>1. Policy.revision \in Nat /\ undo.revision \in Nat
  BY PolicyTyped DEF NetworkRows
<1>2. ASSUME NEW t \in Reviews, pending'[t].state # "none" PROVE ReviewHolds(pending[t])'
  <2>1. SameReview(pending[t], pending'[t]) /\ ReviewHolds(pending[t])
    BY <1>2 DEF ReviewsInv, SameReview
  <2>2. pending[t].before.revision \in Nat /\ pending[t].before.revision <= Policy.revision
    BY <2>1 DEF NetworkRows, ReviewType, PolicyType, ReviewHolds
  <2>3. pending[t].before.revision < Policy'.revision
    BY <2>2
  <2>4. pending[t].before.revision <= Policy'.revision /\ pending[t].before.revision # Policy'.revision
    BY <2>2, <2>3
  <2> QED  BY <2>1, <2>4 DEF SameReview, ReviewHolds, Journaled
<1>3. undo'.revision < Policy'.revision
  <2>1. undo.revision <= Policy.revision /\ 0 <= Policy.revision
    BY <1>1 DEF ReviewsInv
  <2> QED  BY <1>1, <2>1, EmptyTyped
<1>4. undo'.revision \in Nat
  BY <1>1, EmptyTyped
<1>5. undo'.revision <= Policy'.revision /\ undo'.revision # Policy'.revision
  BY <1>3, <1>4
<1> QED  BY <1>2, <1>5 DEF ReviewsInv

(* recover, when the service starts.                                         *)
LEMMA RecoverKeeps ==
    ASSUME NetworkInv, Recover
    PROVE  NetworkInv'
<1>1. NetworkRows /\ FirewallInv /\ ReviewsInv /\ ApplyInv
  BY DEF NetworkInv
<1>2. ~running /\ UNCHANGED <<expired, pending, undo, applying>> /\ expired \cap PermanentRules = {}
  BY <1>1, NetworkConstants DEF Recover, NetworkRows
<1>3. applying' = Unlocked /\ undo' = NoUndo /\ \A t \in Reviews : pending'[t] = NoReview /\ pending'[t].state = "none"
  BY <1>1, <1>2, EmptyTyped DEF ReviewsInv
<1>4. ApplyInv'
  BY <1>3, EmptyTyped DEF ApplyInv
<1> DEFINE records == Policy.journal.records
           present == Policy.journal.present
           new == Revised(Policy, Policy.rules, Policy.disabled, NoJournal)
<1>5. Policy \in PolicyType /\ records \subseteq EntryType /\ present \subseteq EntryType /\ native \subseteq EntryType
  BY <1>1, PolicyTyped DEF PolicyType, NetworkRows
<1>6. CASE ~Journaled(Policy)
  <2>1. running' = TRUE /\ UNCHANGED <<policy_file, last_good, native>>
    BY <1>6 DEF Recover
  <2>2. NetworkRows'
    BY <1>1, <1>2, <2>1 DEF NetworkRows
  <2>3. Policy' = Policy
    BY <2>1 DEF Policy
  <2>4. FirewallInv'
    BY <1>1, <1>2, <2>1, <2>3, FailureKeepsFirewall
  <2>5. ReviewsInv'
    BY <1>1, <1>2, <1>3, <2>1, <2>3 DEF ReviewsInv
  <2> QED  BY <1>4, <2>2, <2>4, <2>5 DEF NetworkInv
<1>7. CASE Journaled(Policy) /\ native' = Recovered(Policy.journal) /\ Written(new) /\ running' = TRUE
  <2>1. NoJournal \in [open : BOOLEAN, records : SUBSET EntryType, present : SUBSET EntryType] /\ ~NoJournal.open
    BY DEF NoJournal
  <2>2. /\ new \in PolicyType /\ new.revision # 0 /\ new.revision > Policy.revision
        /\ new.rules = Policy.rules /\ new.disabled = Policy.disabled /\ new.journal = NoJournal
        /\ \A k \in Nat : k <= Policy.revision => k < new.revision
    BY <1>1, <1>5, <2>1, RevisedIsLater DEF PolicyType
  <2> HIDE DEF new
  <2>3. Recoverable(Says(Policy), records, present, InForce, expired)
    BY <1>1, <1>7 DEF FirewallInv, JournalHolds
  <2>4. /\ native' = (native \ records) \cup {e \in present : e.rule \notin expired \cap TimedRules}
        /\ InForce' = (InForce \ records) \cup {e \in present : e.rule \notin expired}
    <3>1. native' = (native \ records) \cup {e \in present : e.rule \notin expired \cap TimedRules}
      BY <1>7 DEF Recovered, Restored
    <3>2. expired' = expired
      BY <1>2
    <3> HIDE DEF records, present
    <3> QED  BY <1>1, <3>1, <3>2, ForceMoves
  <2>5. Agrees(Says(new), InForce') /\ Says(new) = Says(Policy)
    BY <1>2, <2>2, <2>3, <2>4, RestoreAgrees DEF Says
  <2>6. InForce' \ records = InForce \ records
    BY <2>3, <2>4 DEF Recoverable
  <2>7. Recoverable(Says(Policy), records, present, InForce', expired)
    BY <2>3, <2>6, InsideTheJournal
  <2>8. FirewallInv'
    BY <1>1, <1>2, <1>7, <2>1, <2>2, <2>5, <2>7, CommitKeepsFirewall DEF Journaled
  <2>9. Policy' = new /\ policy_file' \in PolicyType /\ last_good' \in PolicyType /\ new.revision \in Nat
    BY <1>1, <1>7, <2>2, WrittenIsRead DEF PolicyType
  <2>10. NetworkRows'
    BY <1>1, <1>2, <1>5, <1>7, <2>4, <2>9 DEF NetworkRows
  <2>11. ReviewsInv'
    BY <1>1, <1>2, <1>3, <1>7, <2>2, <2>9, RevisionMoves
  <2> QED  BY <1>4, <2>8, <2>10, <2>11 DEF NetworkInv
<1>8. CASE Journaled(Policy) /\ native' \in PartlyRestored(records, present) /\ NotWritten /\ UNCHANGED running
  <2>1. PICK s \in SUBSET records : native' = (native \ records) \cup s
    BY <1>8 DEF PartlyRestored
  <2>2. native' \subseteq EntryType /\ native' \ records = native \ records
    BY <1>5, <2>1
  <2>3. Policy' = Policy /\ policy_file' = policy_file /\ (last_good' = last_good \/ last_good' = Policy)
        /\ last_good' \in PolicyType
    BY <1>1, <1>8, NotWrittenIsKept
  <2>4. NetworkRows'
    BY <1>1, <1>2, <1>8, <2>2, <2>3 DEF NetworkRows
  <2>5. FirewallInv'
    BY <1>1, <1>2, <1>8, <2>2, <2>3, FailureKeepsFirewall
  <2>6. ReviewsInv'
    BY <1>1, <1>2, <1>3, <1>8, <2>3 DEF ReviewsInv
  <2> QED  BY <1>4, <2>4, <2>5, <2>6 DEF NetworkInv
<1> QED  BY <1>6, <1>7, <1>8 DEF Recover

(* Whoever holds the lock does so in a running service, and an incoming      *)
(* change has its journal in the policy.                                     *)
LEMMA Holder ==
    ASSUME NetworkInv, applying.doing # "nothing"
    PROVE  /\ running /\ applying.by \in Reviews /\ pending[applying.by] \in ReviewType
           /\ applying \in ApplyingType /\ native \subseteq EntryType /\ expired \cap PermanentRules = {}
           /\ Says(Policy) = Says(pending[applying.by].before)
           /\ pending[applying.by].incoming =>
                /\ Journaled(Policy) /\ Policy.journal.records = applying.records /\ Policy.journal.present = applying.present
                /\ Recoverable(Says(Policy), applying.records, applying.present, InForce, expired)
<1>1. NetworkRows /\ FirewallInv /\ ReviewsInv /\ ApplyInv
  BY DEF NetworkInv
<1>2. running
  BY <1>1, EmptyTyped DEF ReviewsInv
<1>3. applying.by \in Reviews /\ Says(Policy) = Says(pending[applying.by].before)
  BY <1>1 DEF ApplyInv, Says
<1>4. ASSUME pending[applying.by].incoming
      PROVE  Journaled(Policy) /\ Policy.journal.records = applying.records /\ Policy.journal.present = applying.present
  BY <1>1, <1>4 DEF ApplyInv, Journaled
<1>5. expired \cap PermanentRules = {}
  BY <1>1, NetworkConstants DEF NetworkRows
<1> QED  BY <1>1, <1>2, <1>3, <1>4, <1>5 DEF NetworkRows, FirewallInv, JournalHolds

(* The except clause of apply.                                               *)
LEMMA RollBackKeeps ==
    ASSUME NetworkInv, RollBack
    PROVE  NetworkInv'
<1> DEFINE t == applying.by
           records == applying.records
           present == applying.present
           before == applying.base
           new == Revised(Policy, before.rules, before.disabled, NoJournal)
<1>1. NetworkRows /\ FirewallInv /\ ReviewsInv /\ ApplyInv
  BY DEF NetworkInv
<1>2. applying.doing = "roll back" /\ pending' = [pending EXCEPT ![t] = NoReview] /\ applying' = Unlocked
     /\ UNCHANGED <<expired, undo, running>>
  BY DEF RollBack
<1>3. /\ running /\ t \in Reviews /\ pending[t] \in ReviewType
      /\ applying \in ApplyingType /\ native \subseteq EntryType /\ expired \cap PermanentRules = {}
  BY <1>2, Holder
<1>4. pending[t].incoming /\ before = pending[t].before /\ Policy.rules = before.rules /\ Policy.disabled = before.disabled
  BY <1>1, <1>2 DEF ApplyInv
<1>5. /\ Journaled(Policy) /\ Policy.journal.records = records /\ Policy.journal.present = present
      /\ Recoverable(Says(Policy), records, present, InForce, expired)
  BY <1>2, <1>4, Holder
<1>6. pending' \in [Reviews -> ReviewType] /\ pending'[t] = NoReview /\ \A u \in Reviews \ {t} : pending'[u] = pending[u]
  BY <1>1, <1>2, <1>3, EmptyTyped DEF NetworkRows
<1>7. ApplyInv'
  BY <1>2, EmptyTyped DEF ApplyInv
<1>8. applying' \in ApplyingType /\ records \subseteq EntryType /\ present \subseteq EntryType /\ before \in PolicyType
  BY <1>2, <1>3, EmptyTyped DEF ApplyingType
<1>9. CASE native' = Restored(records, present) /\ Written(new)
  <2>1. NoJournal \in [open : BOOLEAN, records : SUBSET EntryType, present : SUBSET EntryType] /\ ~NoJournal.open
    BY DEF NoJournal
  <2>2. /\ new \in PolicyType /\ new.revision # 0 /\ new.revision > Policy.revision
        /\ new.rules = Policy.rules /\ new.disabled = Policy.disabled /\ new.journal = NoJournal
        /\ \A k \in Nat : k <= Policy.revision => k < new.revision
    <3>1. before.rules \in RulesType /\ before.disabled \in SUBSET AllRules
      BY <1>8 DEF PolicyType
    <3> QED  BY <1>1, <1>4, <2>1, <3>1, RevisedIsLater
  <2> HIDE DEF new
  <2>4. /\ native' = (native \ records) \cup {e \in present : e.rule \notin expired \cap TimedRules}
        /\ InForce' = (InForce \ records) \cup {e \in present : e.rule \notin expired}
    BY <1>1, <1>2, <1>9, ForceMoves DEF Restored
  <2>5. Agrees(Says(new), InForce') /\ Says(new) = Says(Policy)
    BY <1>3, <1>5, <2>2, <2>4, RestoreAgrees DEF Says
  <2>6. InForce' \ records = InForce \ records
    BY <1>5, <2>4 DEF Recoverable
  <2>7. Recoverable(Says(Policy), records, present, InForce', expired)
    BY <1>5, <2>6, InsideTheJournal
  <2>8. FirewallInv'
    BY <1>1, <1>2, <1>5, <1>9, <2>1, <2>2, <2>5, <2>7, CommitKeepsFirewall DEF Journaled
  <2>9. Policy' = new /\ policy_file' \in PolicyType /\ last_good' \in PolicyType /\ new.revision \in Nat
    BY <1>1, <1>9, <2>2, WrittenIsRead DEF PolicyType
  <2>10. NetworkRows'
    BY <1>1, <1>2, <1>3, <1>6, <1>8, <2>4, <2>9 DEF NetworkRows
  <2>11. \A u \in Reviews : pending'[u].state = "none" \/ SameReview(pending[u], pending'[u])
    BY <1>6, EmptyTyped DEF SameReview
  <2>12. ReviewsInv'
    BY <1>1, <1>2, <1>3, <2>2, <2>9, <2>11, RevisionMoves
  <2> QED  BY <1>7, <2>8, <2>10, <2>12 DEF NetworkInv
<1>10. CASE native' \in PartlyRestored(records, present) /\ NotWritten
  <2>1. PICK s \in SUBSET records : native' = (native \ records) \cup s
    BY <1>10 DEF PartlyRestored
  <2>2. native' \subseteq EntryType /\ native' \ records = native \ records
    BY <1>3, <1>8, <2>1
  <2>3. Policy' = Policy /\ policy_file' = policy_file /\ (last_good' = last_good \/ last_good' = Policy)
        /\ last_good' \in PolicyType
    BY <1>1, <1>10, NotWrittenIsKept
  <2>4. NetworkRows'
    BY <1>1, <1>2, <1>6, <1>8, <2>2, <2>3 DEF NetworkRows
  <2>5. FirewallInv'
    BY <1>1, <1>2, <1>5, <2>2, <2>3, FailureKeepsFirewall
  <2>6. ReviewsInv'
    BY <1>1, <1>2, <1>3, <1>6, <2>3, EmptyTyped DEF ReviewsInv, ReviewHolds
  <2> QED  BY <1>7, <2>4, <2>5, <2>6 DEF NetworkInv
<1> QED  BY <1>9, <1>10 DEF RollBack

(* Firewall.replace, one entry or the end of it.                             *)
LEMMA ReplaceKeeps ==
    ASSUME NetworkInv, ReplaceEntry \/ Replaced
    PROVE  NetworkInv'
<1> DEFINE t == applying.by
           r == pending[t]
           old == Says(r.before)
           new == EntriesAt(r.rules, r.disabled, expired)
<1>1. NetworkRows /\ FirewallInv /\ ReviewsInv /\ ApplyInv
  BY DEF NetworkInv
<1>2. applying.doing = "replace" /\ UNCHANGED <<policy_file, last_good, expired, pending, undo, running>>
  BY DEF ReplaceEntry, Replaced
<1>3. /\ running /\ t \in Reviews /\ r \in ReviewType
      /\ applying \in ApplyingType /\ native \subseteq EntryType /\ expired \cap PermanentRules = {}
  BY <1>2, Holder
<1>4. r.incoming /\ ReplaceInv(old, new, applying, InForce, expired)
  BY <1>1, <1>2 DEF ApplyInv
<1>5. Journaled(Policy) /\ Policy.journal.records = applying.records
  BY <1>2, <1>4, Holder
<1>6. Policy' = Policy
  BY <1>2 DEF Policy
<1>7. native' = native => InForce' = InForce
  BY <1>1, <1>2, ForceMoves
<1> HIDE DEF old, new
<1>8. ASSUME applying' \in ApplyingType, applying'.by = t, applying'.base = applying.base,
             applying'.records = applying.records, applying'.present = applying.present,
             applying'.doing # "nothing",
             native' \subseteq EntryType, native' \ applying.records = native \ applying.records,
             applying'.doing # "roll back" => ReplaceInv(old, new, applying', InForce', expired),
             applying'.doing = "save" => applying'.remove \cup applying'.add = {}
      PROVE  NetworkInv'
  <2>1. NetworkRows'
    BY <1>1, <1>2, <1>8 DEF NetworkRows
  <2>2. FirewallInv'
    BY <1>1, <1>2, <1>5, <1>6, <1>8, FailureKeepsFirewall
  <2>3. ReviewsInv'
    BY <1>1, <1>2, <1>3, <1>6 DEF ReviewsInv, ReviewHolds
  <2>4. ApplyInv'
    <3>1. pending'[applying'.by] = r /\ EntriesAt(r.before.rules, r.before.disabled, expired') = old
          /\ EntriesAt(r.rules, r.disabled, expired') = new
      BY <1>2, <1>8 DEF Says, old, new
    <3> QED  BY <1>1, <1>2, <1>4, <1>6, <1>8, <3>1 DEF ApplyInv, Journaled, Says
  <2> QED  BY <2>1, <2>2, <2>3, <2>4 DEF NetworkInv
<1>9. CASE applying' = [applying EXCEPT !.doing = "roll back"] /\ UNCHANGED native
  BY <1>3, <1>7, <1>8, <1>9 DEF ApplyingType
<1>10. CASE Replaced
  <2>1. applying' = [applying EXCEPT !.doing = "save"] /\ UNCHANGED native /\ applying.remove \cup applying.add = {}
    BY <1>10 DEF Replaced
  <2>2. applying' \in ApplyingType /\ applying'.by = t /\ applying'.base = applying.base /\ applying'.doing = "save"
        /\ applying'.records = applying.records /\ applying'.present = applying.present
        /\ applying'.remove = applying.remove /\ applying'.add = applying.add
    BY <1>3, <2>1 DEF ApplyingType
  <2>3. ReplaceInv(old, new, applying', InForce', expired)
    BY <1>4, <1>7, <2>1, <2>2 DEF ReplaceInv
  <2> QED  BY <1>3, <1>8, <2>1, <2>2, <2>3
<1>11. \A e \in EntryType : e.plane = "permanent" =>
         On("runtime", e) # e /\ On("runtime", e).plane = "runtime" /\ [On("runtime", e) EXCEPT !.plane = "permanent"] = e
  <2>1. \A e \in EntryType : e.plane = "permanent" =>
           On("runtime", e).plane = "runtime" /\ On("permanent", On("runtime", e)) = e
    BY Planed
  <2> QED  BY <2>1 DEF On
<1>12. ASSUME NEW s \in SUBSET EntryType, RuntimeLast(s), NEW e \in FirstOf(s) PROVE RuntimeLast(s \ {e}) /\ e \in s
  BY <1>11, <1>12 DEF RuntimeLast, FirstOf
<1>13. applying.remove \in SUBSET EntryType /\ applying.add \in SUBSET EntryType /\ applying.records \in SUBSET EntryType
  BY <1>3 DEF ApplyingType
<1>14. CASE \E e \in FirstOf(applying.remove) :
             native' = native \ {e} /\ applying' = [applying EXCEPT !.remove = @ \ {e}]
  <2>1. PICK e \in FirstOf(applying.remove) :
             native' = native \ {e} /\ applying' = [applying EXCEPT !.remove = @ \ {e}]
    BY <1>14
  <2>2. RuntimeLast(applying.remove \ {e}) /\ e \in applying.remove /\ e \in applying.records /\ e \notin new
    BY <1>4, <1>12, <1>13, <2>1 DEF ReplaceInv
  <2>3. applying' \in ApplyingType /\ applying'.by = t /\ applying'.base = applying.base /\ applying'.doing = "replace"
        /\ applying'.records = applying.records /\ applying'.present = applying.present
        /\ applying'.remove = applying.remove \ {e} /\ applying'.add = applying.add
    BY <1>2, <1>3, <1>13, <2>1 DEF ApplyingType
  <2>4. ReplaceInv(old, new, applying', InForce', expired)
    <3>1. InForce' = InForce \ {e}
      BY <1>1, <1>2, <2>1, ForceMoves
    <3> QED  BY <1>4, <2>2, <2>3, <3>1 DEF ReplaceInv, Lasting
  <2>5. native' \subseteq EntryType /\ native' \ applying.records = native \ applying.records
    BY <1>3, <2>1, <2>2
  <2> QED  BY <1>8, <2>3, <2>4, <2>5
<1>15. CASE applying.remove = {} /\ \E e \in FirstOf(applying.add) :
             /\ e \notin native
             /\ native' = (IF e.rule \in expired THEN native ELSE native \cup {e})
             /\ applying' = [applying EXCEPT !.add = @ \ {e}]
  <2>1. PICK e \in FirstOf(applying.add) :
             /\ native' = (IF e.rule \in expired THEN native ELSE native \cup {e})
             /\ applying' = [applying EXCEPT !.add = @ \ {e}]
    BY <1>15
  <2>2. RuntimeLast(applying.add \ {e}) /\ e \in applying.add /\ e \in applying.records /\ (e.rule \in expired \/ e \in new)
    BY <1>4, <1>12, <1>13, <2>1 DEF ReplaceInv
  <2>3. applying' \in ApplyingType /\ applying'.by = t /\ applying'.base = applying.base /\ applying'.doing = "replace"
        /\ applying'.records = applying.records /\ applying'.present = applying.present
        /\ applying'.remove = applying.remove /\ applying'.add = applying.add \ {e}
    BY <1>2, <1>3, <1>13, <2>1 DEF ApplyingType
  <2>4. ReplaceInv(old, new, applying', InForce', expired)
    <3>1. InForce' = IF e.rule \in expired THEN InForce ELSE InForce \cup {e}
      BY <1>1, <1>2, <1>7, <2>1, ForceMoves
    <3> QED  BY <1>3, <1>4, <2>2, <2>3, <3>1 DEF ReplaceInv, Lasting
  <2>5. native' \subseteq EntryType /\ native' \ applying.records = native \ applying.records
    BY <1>3, <1>13, <2>1, <2>2
  <2> QED  BY <1>8, <2>3, <2>4, <2>5
<1>16. ReplaceEntry =>
         \/ applying' = [applying EXCEPT !.doing = "roll back"] /\ UNCHANGED native
         \/ \E e \in FirstOf(applying.remove) : native' = native \ {e} /\ applying' = [applying EXCEPT !.remove = @ \ {e}]
         \/ applying.remove = {} /\ \E e \in FirstOf(applying.add) :
              /\ e \notin native
              /\ native' = (IF e.rule \in expired THEN native ELSE native \cup {e})
              /\ applying' = [applying EXCEPT !.add = @ \ {e}]
  BY Zenon DEF ReplaceEntry
<1> QED  BY <1>9, <1>10, <1>14, <1>15, <1>16

(* store.write(after).                                                       *)
LEMMA SaveKeeps ==
    ASSUME NetworkInv, Save
    PROVE  NetworkInv'
<1> DEFINE t == applying.by
           r == pending[t]
           after == Revised(Policy, r.rules, r.disabled, NoJournal)
<1>1. NetworkRows /\ FirewallInv /\ ReviewsInv /\ ApplyInv
  BY DEF NetworkInv
<1>2. applying.doing = "save" /\ UNCHANGED <<native, expired, running>>
  BY DEF Save
<1>3. /\ running /\ t \in Reviews /\ r \in ReviewType
      /\ applying \in ApplyingType /\ native \subseteq EntryType /\ expired \cap PermanentRules = {}
      /\ Says(Policy) = Says(r.before)
  BY <1>2, Holder
<1>4. r.rules \in RulesType /\ r.disabled \in SUBSET AllRules /\ r.before \in PolicyType /\ r.incoming \in BOOLEAN
     /\ r.before.rules \in RulesType /\ r.before.disabled \in SUBSET AllRules
  BY <1>3 DEF ReviewType, PolicyType
<1>5. Policy.rules = r.before.rules /\ Policy.disabled = r.before.disabled /\ applying.base = r.before /\ ReviewHolds(r)
  BY <1>1, <1>2, <1>3 DEF ApplyInv, ReviewsInv
<1>9. InForce' = InForce
  BY <1>1, <1>2, ForceMoves
<1>6. CASE /\ Written(after)
           /\ undo' = [revision |-> after.revision, before |-> r.before, incoming |-> r.incoming]
           /\ pending' = [pending EXCEPT ![t] = NoReview] /\ applying' = Unlocked
  <2>1. NoJournal \in [open : BOOLEAN, records : SUBSET EntryType, present : SUBSET EntryType] /\ ~NoJournal.open
    BY DEF NoJournal
  <2>2. /\ after \in PolicyType /\ after.revision # 0 /\ after.revision > Policy.revision
        /\ after.rules = r.rules /\ after.disabled = r.disabled /\ after.journal = NoJournal
        /\ \A k \in Nat : k <= Policy.revision => k < after.revision
    BY <1>1, <1>4, <2>1, RevisedIsLater
  <2> HIDE DEF after
  <2>3. Agrees(Says(after), InForce)
    <3>1. CASE r.incoming
      <4>1. Recoverable(Says(r.before), applying.records, applying.present, InForce, expired)
        BY <1>2, <1>3, <3>1, Holder
      <4>2. ReplaceInv(Says(r.before), EntriesAt(r.rules, r.disabled, expired), applying, InForce, expired)
            /\ applying.remove \cup applying.add = {}
        BY <1>1, <1>2, <3>1 DEF ApplyInv
      <4>3. Agrees(EntriesAt(r.rules, r.disabled, expired), InForce)
        BY <4>1, <4>2, ChangeEnds
      <4> QED  BY <2>2, <4>3 DEF Says
    <3>2. CASE ~r.incoming
      <4>1. SameIncoming(r.before.rules, r.before.disabled, r.rules, r.disabled)
        BY <1>5, <3>2 DEF ReviewHolds
      <4>2. Says(after) = Says(r.before)
        BY <1>4, <2>2, <4>1, SameEntries DEF Says
      <4>3. Agrees(Says(Policy), InForce)
        BY <1>1, <1>2, <3>2 DEF ApplyInv, FirewallInv
      <4> QED  BY <1>3, <4>2, <4>3
    <3> QED  BY <3>1, <3>2
  <2>4. Journaled(Policy) => Recoverable(Says(Policy), Policy.journal.records, Policy.journal.present, InForce', expired)
    BY <1>1, <1>2, <1>9 DEF FirewallInv, JournalHolds
  <2>5. FirewallInv'
    BY <1>1, <1>2, <1>6, <1>9, <2>1, <2>2, <2>3, <2>4, CommitKeepsFirewall DEF Journaled
  <2>6. Policy' = after /\ policy_file' \in PolicyType /\ last_good' \in PolicyType /\ after.revision \in Nat
    BY <1>1, <1>6, <2>2, WrittenIsRead DEF PolicyType
  <2>7. pending' \in [Reviews -> ReviewType] /\ pending'[t] = NoReview /\ \A u \in Reviews \ {t} : pending'[u] = pending[u]
    BY <1>1, <1>3, <1>6, EmptyTyped DEF NetworkRows
  <2>8. undo' \in [revision : Nat, before : PolicyType, incoming : BOOLEAN]
        /\ undo'.revision = after.revision /\ undo'.before = r.before /\ undo'.incoming = r.incoming
    BY <1>4, <1>6, <2>6
  <2>9. NetworkRows'
    BY <1>1, <1>2, <1>6, <2>6, <2>7, <2>8, EmptyTyped DEF NetworkRows
  <2>10. ReviewsInv'
    <3>1. ASSUME NEW u \in Reviews, pending'[u].state # "none" PROVE ReviewHolds(pending[u])'
      <4>1. pending'[u] = pending[u] /\ ReviewHolds(pending[u])
        BY <1>1, <2>7, <3>1, EmptyTyped DEF ReviewsInv
      <4>2. pending[u].before.revision \in Nat /\ pending[u].before.revision <= Policy.revision
        BY <1>1, <4>1 DEF NetworkRows, ReviewType, PolicyType, ReviewHolds
      <4>3. pending[u].before.revision < after.revision
        BY <2>2, <4>2
      <4>4. pending[u].before.revision <= after.revision /\ pending[u].before.revision # after.revision
        BY <2>6, <4>2, <4>3
      <4> QED  BY <2>6, <4>1, <4>4 DEF ReviewHolds, Journaled
    <3>2. undo'.revision <= Policy'.revision
      BY <2>6, <2>8
    <3>3. ~undo'.incoming => SameIncoming(undo'.before.rules, undo'.before.disabled, Policy'.rules, Policy'.disabled)
      BY <1>5, <2>2, <2>6, <2>8 DEF ReviewHolds
    <3> QED  BY <1>2, <1>3, <3>1, <3>2, <3>3 DEF ReviewsInv
  <2>11. ApplyInv'
    BY <1>6, EmptyTyped DEF ApplyInv
  <2> QED  BY <2>5, <2>9, <2>10, <2>11 DEF NetworkInv
<1>7. CASE NotWritten /\ UNCHANGED undo
  <2>1. Policy' = Policy /\ policy_file' = policy_file /\ (last_good' = last_good \/ last_good' = Policy)
        /\ last_good' \in PolicyType
    BY <1>1, <1>7, NotWrittenIsKept
  <2>2. FirewallInv'
    BY <1>1, <1>2, <2>1, FailureKeepsFirewall
  <2>3. CASE r.incoming /\ applying' = [applying EXCEPT !.doing = "roll back"] /\ UNCHANGED pending
    <3>1. applying' \in ApplyingType /\ applying'.by = t /\ applying'.base = applying.base /\ applying'.doing = "roll back"
          /\ applying'.records = applying.records /\ applying'.present = applying.present
      BY <1>3, <2>3 DEF ApplyingType
    <3>2. NetworkRows'
      BY <1>1, <1>2, <1>7, <2>1, <2>3, <3>1 DEF NetworkRows
    <3>3. ReviewsInv'
      BY <1>1, <1>2, <1>3, <1>7, <2>1, <2>3 DEF ReviewsInv, ReviewHolds
    <3>4. ApplyInv'
      BY <1>1, <1>2, <2>1, <2>3, <3>1 DEF ApplyInv
    <3> QED  BY <2>2, <3>2, <3>3, <3>4 DEF NetworkInv
  <2>4. CASE applying' = Unlocked /\ pending' = [pending EXCEPT ![t] = NoReview]
    <3>1. pending' \in [Reviews -> ReviewType] /\ pending'[t] = NoReview /\ \A u \in Reviews \ {t} : pending'[u] = pending[u]
      BY <1>1, <1>3, <2>4, EmptyTyped DEF NetworkRows
    <3>2. NetworkRows'
      BY <1>1, <1>2, <1>7, <2>1, <2>4, <3>1, EmptyTyped DEF NetworkRows
    <3>3. ReviewsInv'
      BY <1>1, <1>2, <1>3, <1>7, <2>1, <3>1, EmptyTyped DEF ReviewsInv, ReviewHolds
    <3>4. ApplyInv'
      BY <2>4, EmptyTyped DEF ApplyInv
    <3> QED  BY <2>2, <3>2, <3>3, <3>4 DEF NetworkInv
  <2> QED  BY <1>7, <2>3, <2>4, <1>6 DEF Save
<1> QED  BY <1>6, <1>7 DEF Save

(* The file lock, the checks of apply and the journal.                       *)
LEMMA LockKeeps ==
    ASSUME NetworkInv, NEW t \in Reviews, LockAndJournal(t)
    PROVE  NetworkInv'
<1> DEFINE r == pending[t]
           old == Entries(r.before.rules, r.before.disabled)
           new == Entries(r.rules, r.disabled)
           records == Changed(old, new)
           present == native \cap records
           notes == [open |-> TRUE, records |-> records, present |-> present]
           started == [by |-> t, doing |-> "replace", base |-> r.before, remove |-> old \ new, add |-> new \ old,
                       records |-> records, present |-> present]
           locked == [pending EXCEPT ![t].state = "locked"]
           next == Revised(Policy, Policy.rules, Policy.disabled, notes)
<1>1. NetworkRows /\ FirewallInv /\ ReviewsInv /\ ApplyInv
  BY DEF NetworkInv
<1>2. r.state = "authenticating" /\ applying = Unlocked /\ UNCHANGED <<native, expired, running>>
  BY DEF LockAndJournal
<1>3. r \in ReviewType /\ ReviewHolds(r) /\ native \subseteq EntryType
  BY <1>1, <1>2 DEF NetworkRows, ReviewsInv
<1>4. running
  BY <1>1, <1>2, EmptyTyped DEF ReviewsInv
<1>5. r.rules \in RulesType /\ r.before \in PolicyType /\ r.before.rules \in RulesType /\ r.incoming \in BOOLEAN
  BY <1>3 DEF ReviewType, PolicyType
<1>6. old = Says(r.before) /\ new = EntriesAt(r.rules, r.disabled, expired)
  BY <1>5, EntriesAreAt DEF Says
<1>7. old \subseteq EntryType /\ PlanesFit(old) /\ Twinned(old) /\ new \subseteq EntryType /\ PlanesFit(new) /\ Twinned(new)
  BY <1>6, SaysFits, EntriesFit
<1>8. (~StillReviewed(t) /\ pending' = [pending EXCEPT ![t] = NoReview] /\ UNCHANGED <<policy_file, last_good, applying, undo>>)
     \/ (StillReviewed(t) /\ ~r.incoming /\ applying' = [started EXCEPT !.doing = "save"] /\ pending' = locked
           /\ UNCHANGED <<policy_file, last_good, undo>>)
     \/ (StillReviewed(t) /\ r.incoming /\ Written(next) /\ applying' = started /\ pending' = locked /\ undo' = NoUndo)
     \/ (NotWritten /\ pending' = [pending EXCEPT ![t] = NoReview] /\ UNCHANGED <<applying, undo>>)
  BY DEF LockAndJournal
<1>18. native \cap Changed(old, new) = InForce \cap Changed(old, new) /\ InForce' = InForce
  <2>1. \A e \in old \cup new : e.rule \notin expired
    BY <1>6 DEF Says, EntriesAt
  <2>2. InForce' = InForce
    BY <1>2 DEF InForce
  <2> HIDE DEF old, new
  <2> QED  BY <2>1, <2>2 DEF Changed, InForce
<1> HIDE DEF old, new
<1>9. records \subseteq EntryType /\ present \subseteq EntryType
  BY <1>7 DEF Changed
<1> HIDE DEF records, present
<1>10. started \in ApplyingType /\ [started EXCEPT !.doing = "save"] \in ApplyingType
  <2>1. old \ new \subseteq EntryType /\ new \ old \subseteq EntryType
    BY <1>7
  <2> QED  BY <1>5, <1>9, <2>1 DEF ApplyingType
<1>11. locked \in [Reviews -> ReviewType] /\ SameReview(r, locked[t]) /\ locked[t].state = "locked"
      /\ \A u \in Reviews \ {t} : locked[u] = pending[u]
  <2>1. locked = [pending EXCEPT ![t] = [r EXCEPT !.state = "locked"]]
    OBVIOUS
  <2>2. [r EXCEPT !.state = "locked"] \in ReviewType /\ SameReview(r, [r EXCEPT !.state = "locked"])
        /\ [r EXCEPT !.state = "locked"].state = "locked"
    BY <1>2, <1>3 DEF ReviewType, SameReview
  <2> QED  BY <1>1, <2>1, <2>2 DEF NetworkRows
<1>12. StillReviewed(t) => r.before = Policy
  BY <1>3 DEF StillReviewed, ReviewHolds
<1>13. ASSUME pending' = [pending EXCEPT ![t] = NoReview]
       PROVE  /\ pending' \in [Reviews -> ReviewType]
              /\ pending'[t] = NoReview /\ \A u \in Reviews \ {t} : pending'[u] = pending[u]
  BY <1>1, <1>13, EmptyTyped DEF NetworkRows
<1>14. CASE pending' = [pending EXCEPT ![t] = NoReview] /\ UNCHANGED <<policy_file, last_good, applying, undo>>
  BY <1>2, <1>13, <1>14, MemoryStep
<1>15. CASE NotWritten /\ pending' = [pending EXCEPT ![t] = NoReview] /\ UNCHANGED <<applying, undo>>
  <2>1. Policy' = Policy /\ policy_file' = policy_file /\ (last_good' = last_good \/ last_good' = Policy)
        /\ last_good' \in PolicyType
    BY <1>1, <1>15, NotWrittenIsKept
  <2>2. FirewallInv'
    BY <1>1, <1>2, <2>1, FailureKeepsFirewall
  <2>3. NetworkRows'
    BY <1>1, <1>2, <1>13, <1>15, <2>1 DEF NetworkRows
  <2>4. ReviewsInv'
    BY <1>1, <1>2, <1>4, <1>13, <1>15, <2>1, EmptyTyped DEF ReviewsInv, ReviewHolds
  <2>5. ApplyInv'
    BY <1>2, <1>15, EmptyTyped DEF ApplyInv
  <2> QED  BY <2>2, <2>3, <2>4, <2>5 DEF NetworkInv
<1>16. CASE /\ StillReviewed(t) /\ ~r.incoming /\ applying' = [started EXCEPT !.doing = "save"] /\ pending' = locked
            /\ UNCHANGED <<policy_file, last_good, undo>>
  <2>1. Policy' = Policy
    BY <1>16 DEF Policy
  <2>2. FirewallInv'
    BY <1>1, <1>2, <1>16, <2>1, FailureKeepsFirewall
  <2>3. NetworkRows'
    BY <1>1, <1>2, <1>10, <1>11, <1>16 DEF NetworkRows
  <2>4. ReviewsInv'
    <3>1. ASSUME NEW u \in Reviews, pending'[u].state # "none" PROVE ReviewHolds(pending[u])'
      BY <1>1, <1>3, <1>11, <1>16, <2>1, <3>1 DEF ReviewsInv, ReviewHolds, SameReview, Journaled
    <3> QED  BY <1>1, <1>2, <1>4, <1>16, <2>1, <3>1 DEF ReviewsInv
  <2>5. applying'.by = t /\ applying'.doing = "save" /\ applying'.base = r.before
    BY <1>16
  <2>6. ApplyInv'
    BY <1>3, <1>11, <1>12, <1>16, <2>1, <2>5 DEF ApplyInv, SameReview, ReviewHolds
  <2> QED  BY <2>2, <2>3, <2>4, <2>6 DEF NetworkInv
<1>17. CASE StillReviewed(t) /\ r.incoming /\ Written(next) /\ applying' = started /\ pending' = locked /\ undo' = NoUndo
  <2>1. notes \in [open : BOOLEAN, records : SUBSET EntryType, present : SUBSET EntryType]
    BY <1>9
  <2>2. r.before = Policy /\ ~Journaled(Policy)
    BY <1>3, <1>12, <1>17 DEF ReviewHolds
  <2>3. /\ next \in PolicyType /\ next.revision # 0 /\ next.revision > Policy.revision
        /\ next.rules = Policy.rules /\ next.disabled = Policy.disabled /\ next.journal = notes
        /\ \A k \in Nat : k <= Policy.revision => k < next.revision
    <3>1. Policy.rules \in RulesType /\ Policy.disabled \in SUBSET AllRules
      BY <1>1, PolicyTyped DEF PolicyType
    <3> QED  BY <1>1, <2>1, <3>1, RevisedIsLater
  <2>4. notes.open /\ notes.records = records /\ notes.present = present
    OBVIOUS
  <2>5. started.by = t /\ started.doing = "replace" /\ started.base = r.before /\ started.records = records
        /\ started.present = present /\ started.remove = old \ new /\ started.add = new \ old
    OBVIOUS
  <2> HIDE DEF next, notes, started, locked
  <2>6. Policy' = next /\ (last_good' = next \/ last_good' = Policy) /\ next.revision \in Nat
        /\ policy_file' \in PolicyType /\ last_good' \in PolicyType
    BY <1>1, <1>17, <2>3, WrittenIsRead DEF PolicyType
  <2>7. Agrees(old, InForce)
    BY <1>1, <1>6, <2>2 DEF FirewallInv
  <2>8. Recoverable(old, records, present, InForce, expired) /\ ReplaceInv(old, new, started, InForce, expired)
    <3>1. InForce \cap started.records = present /\ started.records = Changed(old, new)
      BY <1>18, <2>5 DEF present, records
    <3>2. Recoverable(old, started.records, InForce \cap started.records, InForce, expired)
          /\ ReplaceInv(old, new, started, InForce, expired)
      BY <1>7, <2>5, <2>7, <3>1, ChangeBegins
    <3> QED  BY <2>5, <3>1, <3>2
  <2>9. Says(next) = old
    BY <1>6, <2>2, <2>3 DEF Says
  <2>10. FirewallInv'
    <3>1. Says(Policy)' = old /\ (last_good' = next => Says(last_good)' = old)
      BY <1>2, <2>6, <2>9 DEF Says
    <3>2. JournalHolds(Policy)' /\ Journaled(Policy)'
      BY <1>2, <1>18, <2>3, <2>4, <2>6, <2>8, <3>1 DEF JournalHolds, Journaled
    <3>3. JournalHolds(last_good)' /\ (Journaled(last_good)' => last_good' = next)
      BY <1>2, <1>18, <2>2, <2>3, <2>4, <2>6, <2>8, <3>1 DEF JournalHolds, Journaled
    <3> QED  BY <2>6, <3>2, <3>3 DEF FirewallInv
  <2>11. NetworkRows'
    BY <1>1, <1>2, <1>10, <1>11, <1>17, <2>6, EmptyTyped DEF NetworkRows, started
  <2>12. \A u \in Reviews : pending'[u].state = "none" \/ SameReview(pending[u], pending'[u])
    <3>1. \A u \in Reviews \ {t} : pending'[u] = pending[u]
      BY <1>11, <1>17 DEF locked
    <3>2. SameReview(pending[t], pending'[t])
      BY <1>11, <1>17 DEF locked
    <3> QED  BY <3>1, <3>2 DEF SameReview
  <2>13. ReviewsInv'
    BY <1>1, <1>2, <1>4, <1>17, <2>3, <2>6, <2>12, RevisionMoves
  <2>14. ApplyInv'
    <3>1. applying'.by = t /\ applying' = started /\ SameReview(r, pending'[t]) /\ pending'[t].state = "locked"
      BY <1>11, <1>17, <2>5 DEF locked
    <3>2. EntriesAt(r.before.rules, r.before.disabled, expired') = old /\ EntriesAt(r.rules, r.disabled, expired') = new
      BY <1>2, <1>6 DEF Says
    <3>3. Policy'.journal = [open |-> TRUE, records |-> records, present |-> present]
      BY <2>3, <2>6 DEF notes
    <3>4. Policy'.rules = r.before.rules /\ Policy'.disabled = r.before.disabled
      BY <2>2, <2>3, <2>6
    <3> QED  BY <1>2, <1>17, <1>18, <2>5, <2>8, <3>1, <3>2, <3>3, <3>4 DEF ApplyInv, SameReview, Says
  <2> QED  BY <2>10, <2>11, <2>13, <2>14 DEF NetworkInv
<1> QED  BY <1>8, <1>14, <1>15, <1>16, <1>17

(* An installation whose firewall agrees with its policy.                    *)
LEMMA NetworkStart == NetworkRulesInit => NetworkInv
<1> SUFFICES ASSUME NetworkRulesInit PROVE NetworkInv
  OBVIOUS
<1>1. PICK rules \in {NoRules} \cup {[NoRules EXCEPT !.incoming = <<p, q>>] : p \in PermanentRules, q \in TimedRules \cup BootRules} :
        /\ policy_file = [revision |-> 1, rules |-> rules, disabled |-> {}, journal |-> NoJournal]
        /\ native = Entries(rules, {})
  BY DEF NetworkRulesInit
<1>2. /\ expired = {} /\ last_good = policy_file /\ undo = NoUndo /\ running = TRUE /\ applying = Unlocked
      /\ pending = [t \in Reviews |-> NoReview]
  BY DEF NetworkRulesInit
<1>3. rules \in RulesType
  <2>1. \A s \in Seq(IncomingRules) : [NoRules EXCEPT !.incoming = s] \in RulesType
    BY EmptyTyped DEF RulesType
  <2>2. ASSUME NEW p \in PermanentRules, NEW q \in TimedRules \cup BootRules, rules = [NoRules EXCEPT !.incoming = <<p, q>>]
        PROVE  rules \in RulesType
    <3> DEFINE s == <<p, q>>
    <3>1. s \in Seq(IncomingRules)
      BY DEF IncomingRules
    <3>2. rules = [NoRules EXCEPT !.incoming = s]
      BY <2>2
    <3> HIDE DEF s
    <3> QED  BY <2>1, <3>1, <3>2
  <2> QED  BY <2>2, <1>1, EmptyTyped
<1>4. policy_file \in PolicyType /\ policy_file.revision = 1 /\ policy_file.rules = rules /\ policy_file.disabled = {}
     /\ ~Journaled(policy_file)
  BY <1>1, <1>3 DEF PolicyType, NoJournal, Journaled
<1>5. Policy = policy_file
  BY <1>4, EmptyTyped DEF Policy
<1>6. native = Says(Policy) /\ native \subseteq EntryType /\ InForce = native
  BY <1>1, <1>2, <1>3, <1>4, <1>5, EntriesAreAt, SaysFits DEF Says, InForce
<1>7. NetworkRows
  BY <1>2, <1>4, <1>6, EmptyTyped DEF NetworkRows
<1>8. FirewallInv
  BY <1>2, <1>4, <1>5, <1>6 DEF FirewallInv, JournalHolds, Agrees, Lasting
<1>9. ReviewsInv
  BY <1>2, <1>4, <1>5, EmptyTyped DEF ReviewsInv
<1>10. ApplyInv
  BY <1>2, EmptyTyped DEF ApplyInv
<1> QED  BY <1>7, <1>8, <1>9, <1>10 DEF NetworkInv

(* Every step of the service, of firewalld, of time and of the disk.         *)
LEMMA NetworkStep == NetworkInv /\ [NetworkRulesNext]_networkVars => NetworkInv'
<1> SUFFICES ASSUME NetworkInv, [NetworkRulesNext]_networkVars PROVE NetworkInv'
  OBVIOUS
<1>1. CASE UNCHANGED networkVars
  <2>1. UNCHANGED <<policy_file, last_good, native, expired, running, applying>> /\ undo' = undo /\ pending' = pending
    BY <1>1 DEF networkVars
  <2>2. pending' \in [Reviews -> ReviewType]
    BY <2>1 DEF NetworkInv, NetworkRows
  <2> QED  BY <2>1, <2>2, MemoryStep
<1>2. CASE ReplaceEntry \/ Replaced \/ Save \/ RollBack
  BY <1>2, ReplaceKeeps, SaveKeeps, RollBackKeeps
<1>3. CASE ServiceDies \/ Recover \/ FirewalldRestarts \/ Reboot \/ FileDamaged
  BY <1>3, FailuresKeep, RecoverKeeps, RestartKeeps, RebootKeeps
<1>4. CASE \E rule \in TimedRules : RuleExpires(rule)
  BY <1>4, ExpiresKeeps
<1>5. CASE UndoExpires
  <2>1. UNCHANGED <<policy_file, last_good, native, expired, running, applying>> /\ undo' = NoUndo /\ pending' = pending
    BY <1>5 DEF UndoExpires
  <2>2. pending' \in [Reviews -> ReviewType]
    BY <2>1 DEF NetworkInv, NetworkRows
  <2> QED  BY <2>1, <2>2, MemoryStep
<1>6. ASSUME NEW t \in Reviews,
             \/ Cancel(t) \/ ReviewExpires(t) \/ BeginApply(t) \/ Refuse(t) \/ LockAndJournal(t)
             \/ \E provider \in RuleProviders : Prepare(t, provider)
      PROVE  NetworkInv'
  BY <1>6, StagesKeep, LockKeeps, PrepareKeeps
<1> QED  BY <1>1, <1>2, <1>3, <1>4, <1>5, <1>6 DEF NetworkRulesNext

(* The invariant holds in every reachable state.                             *)
LEMMA NetworkAlways == NetworkRulesSpec => []NetworkInv
  BY NetworkStart, NetworkStep, PTL DEF NetworkRulesSpec

(* For any rules and any number of reviews: whatever failed, whenever the    *)
(* service, firewalld or the system restarted and whichever copy of the      *)
(* policy was read, firewalld follows the saved policy, but for boot rules   *)
(* of an earlier boot, or a journal is there (apply, recover).               *)
THEOREM FirewallFollows == NetworkRulesSpec => []FirewallFollowsPolicy
<1>1. NetworkInv => FirewallFollowsPolicy
  <2> SUFFICES ASSUME NetworkInv, ~Journaled(Policy)
               PROVE  LET wanted == Entries(Policy.rules, Policy.disabled)
                          permanent == {e \in wanted : e.rule \in PermanentRules}
                      IN permanent \subseteq native /\ InForce \subseteq wanted
    BY DEF FirewallFollowsPolicy, Settled, InForce
  <2>1. Policy.rules \in RulesType
    BY PolicyTyped DEF NetworkInv, PolicyType
  <2>2. Agrees(Entries(Policy.rules, Policy.disabled), InForce)
    BY <2>1, EntriesAreAt DEF NetworkInv, FirewallInv, Says
  <2> QED  BY <2>2 DEF Agrees, Lasting, InForce
<1> QED  BY <1>1, NetworkAlways, PTL

(* No update is lost: a change that is saved replaces exactly the policy it  *)
(* was reviewed against (apply).                                             *)
THEOREM NoLostUpdate == NetworkRulesSpec => SavedOnReviewedPolicy
<1>1. NetworkInv => \A t \in Reviews : applying.by = t /\ applying.doing = "save" =>
                      Policy.rules = pending[t].before.rules /\ Policy.disabled = pending[t].before.disabled
  BY DEF NetworkInv, ApplyInv
<1>2. NetworkInv /\ [NetworkRulesNext]_networkVars =>
        [\A t \in Reviews :
           applying.by = t /\ applying.doing = "save" /\ undo' # undo =>
              Policy.rules = pending[t].before.rules /\ Policy.disabled = pending[t].before.disabled]_networkVars
  BY <1>1
<1> QED  BY <1>2, NetworkAlways, PTL DEF NetworkRulesSpec, SavedOnReviewedPolicy

-----------------------------------------------------------------------------
(* The decisions of the control plane.                                      *)

\* What the engine can read is made of rules a user may save.
ControlPolicies == [revision : Nat, rules : Seq(UserRules), enabled : BOOLEAN, exempt : BOOLEAN]
ControlInv == \A policy \in {saved, copy, engine} : policy \in ControlPolicies

(* A nonempty set of positions has a first one.                              *)
LEMMA FirstPosition ==
    ASSUME NEW S, S \subseteq Nat, S # {}
    PROVE  Min(S) \in S
<1>1. PICK x \in S : \A y \in S : ~(<<y, x>> \in OpToRel(<, Nat))
  BY NatLessThanWellFounded, WFMin
<1>2. \A y \in S : ~(y < x)
  BY <1>1 DEF OpToRel
<1>3. \A y \in S : x <= y
  BY <1>2
<1> QED  BY <1>3 DEF Min

(* Reversing a list of rules gives one.                                      *)
LEMMA ReverseTyped ==
    ASSUME NEW S, NEW list \in Seq(S)
    PROVE  Reverse(list) \in Seq(S)
<1>1. \A i \in 1 .. Len(list) : (Len(list) - i) + 1 \in 1 .. Len(list)
  OBVIOUS
<1>2. \A i \in 1 .. Len(list) : list[(Len(list) - i) + 1] \in S
  BY <1>1
<1> QED  BY <1>2 DEF Reverse

(* Without a saved policy there are no rules.                                *)
LEMMA EmptyPolicies == Defaults \in ControlPolicies /\ Unloaded \in ControlPolicies
<1>1. << >> \in Seq(UserRules)
  OBVIOUS
<1> QED  BY <1>1 DEF Defaults, Unloaded, ControlPolicies

(* Saving, losing and reading the policy keep lists of rules.                *)
LEMMA ControlStep == ControlInv /\ [ControlNext]_controlVars => ControlInv'
<1> SUFFICES ASSUME ControlInv, [ControlNext]_controlVars PROVE ControlInv'
  OBVIOUS
<1>1. CASE UNCHANGED controlVars
  BY <1>1 DEF controlVars, ControlInv
<1>2. CASE PolicySaved
  <2> DEFINE After(b, rules, on, ex) == [revision |-> b.revision + 1, rules |-> rules, enabled |-> on, exempt |-> ex]
             Edited(b, rules) == After(b, rules, b.enabled, b.exempt)
  <2>1. PICK before \in {saved, copy} :
          /\ \/ \E rule \in UserRules : saved' = Edited(before, Append(before.rules, rule))
             \/ before.rules # <<>> /\ saved' \in {Edited(before, Tail(before.rules)), Edited(before, Reverse(before.rules))}
             \/ saved' \in {After(before, before.rules, ~before.enabled, before.exempt),
                            After(before, before.rules, before.enabled, ~before.exempt)}
          /\ copy' \in {saved', before} /\ engine' = engine
    BY <1>2 DEF PolicySaved
  <2>2. /\ before \in ControlPolicies /\ before.rules \in Seq(UserRules) /\ before.revision + 1 \in Nat
        /\ before.enabled \in BOOLEAN /\ before.exempt \in BOOLEAN
    BY DEF ControlInv, ControlPolicies
  <2>3. \A rules \in Seq(UserRules), on, ex \in BOOLEAN : After(before, rules, on, ex) \in ControlPolicies
    BY <2>2 DEF ControlPolicies
  <2> HIDE DEF After
  <2>4. /\ \A rules \in Seq(UserRules) : Edited(before, rules) \in ControlPolicies
        /\ After(before, before.rules, ~before.enabled, before.exempt) \in ControlPolicies
        /\ After(before, before.rules, before.enabled, ~before.exempt) \in ControlPolicies
    BY <2>2, <2>3
  <2> HIDE DEF Edited
  <2>5. saved' \in ControlPolicies
    <3>1. CASE \E rule \in UserRules : saved' = Edited(before, Append(before.rules, rule))
      <4>1. \A rule \in UserRules : Append(before.rules, rule) \in Seq(UserRules)
        BY <2>2
      <4> QED  BY <2>4, <3>1, <4>1
    <3>2. CASE before.rules # <<>> /\ saved' = Edited(before, Tail(before.rules))
      <4>1. Tail(before.rules) \in Seq(UserRules)
        BY <2>2, <3>2
      <4> QED  BY <2>4, <3>2, <4>1
    <3>3. CASE saved' = Edited(before, Reverse(before.rules))
      BY <2>2, <2>4, <3>3, ReverseTyped
    <3> QED  BY <2>1, <2>4, <3>1, <3>2, <3>3
  <2> QED  BY <2>1, <2>2, <2>5 DEF ControlInv
<1>3. CASE FileLost \/ FeedUpdated
  BY <1>3 DEF FileLost, FeedUpdated, ControlInv
<1>4. CASE EngineReads \/ EngineRestarts
  <2>1. engine' \in {saved, copy, engine, Unloaded} /\ UNCHANGED <<saved, copy>>
    BY <1>4 DEF EngineReads, EngineRestarts, Read
  <2> QED  BY <2>1, EmptyPolicies DEF ControlInv
<1> QED  BY <1>1, <1>2, <1>3, <1>4 DEF ControlNext

(* Whatever lists of rules the policy file and the engine hold, a decision   *)
(* lets DNS through only as the property says (select_policy_rule).          *)
LEMMA ControlHolds == ControlInv => ManagedDnsHolds
<1> SUFFICES ASSUME ControlInv, NEW facts \in Facts, NEW c \in Connections, Decision(Loaded, c, facts) = "allow"
             PROVE  /\ c.port \in DNS_POLICY_PORTS =>
                         \/ c.to = "stub"
                         \/ c.process = "systemd-resolved" /\ (c.to = "provider" \/ (c.to = "site" /\ facts # {}))
                         \/ \E rule \in ToSet(Loaded.rules) : rule.dns_exception /\ Matches(rule, c)
                    /\ c.to = "c2" /\ c.port = 443 /\ feed.listed /\ Loaded.enabled =>
                         Loaded.exempt /\ c.process = "app"
  BY DEF ManagedDnsHolds
<1> DEFINE rules == Loaded.rules
           applicable == {i \in DOMAIN rules : Applies(rules[i], c)}
<1>1. rules \in Seq(UserRules)
  BY EmptyPolicies DEF ControlInv, ControlPolicies, Loaded, Read
<1>2. ~Threat(Loaded, c)
  BY DEF Decision
<1>3. c.to = "c2" /\ c.port = 443 /\ feed.listed /\ Loaded.enabled => Loaded.exempt /\ c.process = "app"
  BY <1>2 DEF Threat
<1>4. ASSUME c.port \in DNS_POLICY_PORTS
      PROVE  \/ c.to = "stub"
             \/ c.process = "systemd-resolved" /\ (c.to = "provider" \/ (c.to = "site" /\ facts # {}))
             \/ \E rule \in ToSet(rules) : rule.dns_exception /\ Matches(rule, c)
  <2>1. CASE applicable # {}
    <3>1. applicable \subseteq Nat
      BY <1>1
    <3>2. Min(applicable) \in applicable
      BY <2>1, <3>1, FirstPosition
    <3>3. rules[Min(applicable)].action = "allow"
      BY <1>2, <2>1 DEF Decision
    <3>4. PICK i \in DOMAIN rules : Applies(rules[i], c) /\ rules[i].action = "allow"
      BY <3>2, <3>3
    <3>5. rules[i].dns_exception /\ Matches(rules[i], c) /\ rules[i] \in ToSet(rules)
      BY <1>4, <3>4 DEF Applies, ToSet
    <3> QED  BY <3>5
  <2>2. CASE applicable = {}
    <3>1. ManagedDns(c, facts)
      BY <1>2, <1>4, <2>2 DEF Decision
    <3> QED  BY <3>1 DEF ManagedDns
  <2> QED  BY <2>1, <2>2
<1> QED  BY <1>3, <1>4

(* For any rules a user may save, in any order and number, and whichever     *)
(* copy of the policy is read: DNS leaves the machine only to a managed or   *)
(* observed server or by an exception made for DNS, and while the policy     *)
(* read has the protection on, a listed destination is reached only by the   *)
(* application it exempts (select_policy_rule).                              *)
THEOREM DnsIsManaged == ControlSpec => []ManagedDnsHolds
<1>1. ControlInit => ControlInv
  BY EmptyPolicies DEF ControlInit, ControlInv
<1> QED  BY <1>1, ControlHolds, ControlStep, PTL DEF ControlSpec

(* The same beside the other network services (select_policy_rule).          *)
THEOREM DnsPolicyIsKept == NetworkingSpec => []DnsPolicyHolds
<1>1. NetworkingInit => ControlInv
  BY EmptyPolicies DEF NetworkingInit, ControlInit, ControlInv
<1>2. ASSUME ControlInv, [NetworkingNext]_networkingVars PROVE ControlInv'
  <2>1. [ControlNext]_controlVars
    BY <1>2 DEF NetworkingNext, networkingVars
  <2> QED  BY <1>2, <2>1, ControlStep
<1>3. ControlInv => DnsPolicyHolds
  BY ControlHolds DEF DnsPolicyHolds
<1> QED  BY <1>1, <1>2, <1>3, PTL DEF NetworkingSpec

-----------------------------------------------------------------------------
(* Secure DNS.                                                              *)

PassSteps ==
    {"idle", "resetting", "unpin", "forget", "link", "try", "split", "pin", "configure", "probe", "stop"}
PassType == [at : PassSteps, back : {"idle", "link", "split", "stop"}, ifindex : Nat, try : Nat]
LinkType ==
    [net : Networks \cup {NoValue}, dns : Networks \cup Providers \cup {NoValue}, whole : BOOLEAN, pinned : BOOLEAN]

\* Half-way through: there is a journal while providers are tried and while a
\* link has one of ours, so that link is not journaled; and the provider in
\* hand is one of the list.
DnsInv ==
    /\ NoOrphanScope
    /\ pass.at = "try" => journal # NotJournaled
    /\ pass.at # "try" => pass.try < Len(ProviderOrder)
    /\ link.dns \in Providers => journal # NotJournaled
    /\ pass \in PassType
    /\ link \in LinkType
    /\ journal \in [dns : Networks \cup Providers \cup {NoValue}, ifindex : Nat]
    /\ config \in Providers \cup {"absent", "reset"}

(* The machine starts disconnected, with nothing of ours in the resolver.    *)
LEMMA DnsStart == SecureDnsInit => DnsInv
<1>1. 0 < Len(ProviderOrder)
  BY SecureDnsConstants
<1>2. NoValue \notin Providers
  BY SecureDnsConstants DEF Providers
<1> QED  BY <1>1, <1>2 DEF SecureDnsInit, DnsInv, NoOrphanScope, Joined, Idle, NotJournaled, PassType, PassSteps, LinkType

(* Every provider in hand is one of the list.                                *)
LEMMA ProviderInHand ==
    ASSUME NEW k \in Nat, k < Len(ProviderOrder)
    PROVE  ProviderOrder[k + 1] \in Providers /\ ProviderOrder[k + 1] \notin {"absent", "reset", NoValue}
<1>1. k + 1 \in 1 .. Len(ProviderOrder) /\ ProviderOrder \in Seq(Providers)
  BY SecureDnsConstants DEF Providers
<1> QED  BY <1>1, SecureDnsConstants DEF Providers

(* The surroundings and the modes.                                           *)
LEMMA SurroundingsKeep ==
    ASSUME DnsInv, NetworkChanges \/ ResolvedReloads \/ ServiceCrashes \/ SetMode \/ PassFails
    PROVE  DnsInv'
<1>1. Idle \in PassType /\ Idle.at = "idle" /\ Idle.back = "idle" /\ Idle.try = 0
  BY DEF Idle, PassType, PassSteps
<1>2. 0 < Len(ProviderOrder) /\ NoValue \notin Providers /\ Networks \cap Providers = {}
  BY SecureDnsConstants DEF Providers
<1>3. CASE NetworkChanges
  <2>1. PICK n \in Networks \cup {NoValue} : link' = Joined(n)
    BY <1>3 DEF NetworkChanges
  <2>2. link' \in LinkType
        /\ link'.dns \notin Providers
    BY <1>2, <2>1 DEF Joined, LinkType
  <2> QED  BY <1>3, <2>2 DEF NetworkChanges, DnsInv, NoOrphanScope, PassType, PassSteps, LinkType
<1>4. CASE ResolvedReloads
  <2>1. {"absent", "reset"} \cap Providers = {}
    BY SecureDnsConstants DEF Providers
  <2> QED  BY <1>4, <2>1 DEF ResolvedReloads, DnsInv, NoOrphanScope, PassType, PassSteps, LinkType
<1>5. CASE ServiceCrashes \/ SetMode \/ PassFails
  <2>1. UNCHANGED <<link, journal, config, scope>> /\ (pass' = Idle \/ pass' = pass)
    BY <1>5 DEF ServiceCrashes, SetMode, PassFails, Report
  <2> QED  BY <1>1, <1>2, <2>1 DEF DnsInv, NoOrphanScope, PassType, PassSteps, LinkType
<1> QED  BY <1>3, <1>4, <1>5

(* The beginning of a pass, the removal of the scope and its journal.        *)
LEMMA RestoreKeeps ==
    ASSUME DnsInv, \/ BeginPass \/ RestoreRuntime \/ SplitRestores
                   \/ RemoveConfig \/ Unpin \/ ForgetPrivate
    PROVE  DnsInv'
<1>1. 0 < Len(ProviderOrder)
  BY SecureDnsConstants
<1>2. IfOf(link.net) \in Nat
  BY SecureDnsConstants DEF IfOf, DnsInv, PassType, PassSteps, LinkType
<1>3. ASSUME StartRestore("link") \/ StartRestore("stop") \/ StartRestore("split"), UNCHANGED <<link, journal, scope>>
      PROVE  DnsInv'
  <2>1. pass' \in PassType /\ pass'.at # "try" /\ pass'.try = 0
    BY <1>2, <1>3 DEF StartRestore, PassType, PassSteps
  <2>2. config' = config \/ config' = "reset"
    BY <1>3 DEF StartRestore
  <2> QED  BY <1>1, <1>3, <2>1, <2>2 DEF DnsInv, NoOrphanScope, PassType, PassSteps, LinkType
<1>4. CASE BeginPass
  <2>1. CASE pass' = [Idle EXCEPT !.at = "split", !.ifindex = IfOf(link.net)] /\ UNCHANGED <<config, hup>>
    <3>1. pass' = [at |-> "split", back |-> "idle", ifindex |-> IfOf(link.net), try |-> 0]
      BY <2>1 DEF Idle
    <3>2. pass' \in PassType /\ pass'.at = "split" /\ pass'.try = 0
      BY <1>2, <3>1 DEF PassType, PassSteps
    <3>3. UNCHANGED <<link, journal, scope, config>>
      BY <1>4, <2>1 DEF BeginPass
    <3> QED  BY <1>1, <3>2, <3>3 DEF DnsInv, NoOrphanScope
  <2> QED  BY <1>3, <1>4, <2>1 DEF BeginPass
<1>5. CASE RestoreRuntime \/ SplitRestores
  BY <1>3, <1>5 DEF RestoreRuntime, SplitRestores
<1>6. CASE RemoveConfig
  BY <1>6 DEF RemoveConfig, RemovalObserved, DnsInv, NoOrphanScope, PassType, PassSteps, LinkType
<1>7. CASE Unpin
  BY <1>7 DEF Unpin, DnsInv, NoOrphanScope, PassType, PassSteps, LinkType
<1>8. CASE ForgetPrivate
  BY <1>8 DEF ForgetPrivate, DnsInv, NoOrphanScope, PassType, PassSteps, LinkType
<1> QED  BY <1>4, <1>5, <1>6, <1>7, <1>8

(* The link of an ordinary network.                                          *)
LEMMA LinkKeeps ==
    ASSUME DnsInv, LinkToNetwork \/ LinkLeftAlone \/ JournalLink \/ TryProvider \/ NoProvider \/ StopRestores
    PROVE  DnsInv'
<1>1. Idle \in PassType /\ Idle.at = "idle" /\ Idle.back = "idle" /\ Idle.try = 0
  BY DEF Idle, PassType, PassSteps
<1>2. 0 < Len(ProviderOrder) /\ NoValue \notin Providers
  BY SecureDnsConstants DEF Providers
<1>3. NotJournaled \in [dns : Networks \cup Providers \cup {NoValue}, ifindex : Nat] /\ NotJournaled.dns = NoValue
  BY DEF NotJournaled
<1>4. \A dns \in Networks \cup Providers \cup {NoValue} :
        /\ Servers(dns) \in LinkType
        /\ Servers(dns).dns = dns
  BY DEF Servers, DnsInv, PassType, PassSteps, LinkType
<1>5. journal.dns \in Networks \cup Providers \cup {NoValue} /\ journal.dns \notin Providers
  BY DEF DnsInv, NoOrphanScope, PassType, PassSteps, LinkType
<1>6. CASE LinkToNetwork \/ NoProvider \/ StopRestores
  <2>1. UNCHANGED <<config, scope>> /\ pass' = Idle
    BY <1>6 DEF LinkToNetwork, NoProvider, StopRestores, Report
  <2>2. \/ link' = Servers(journal.dns) \/ link' = Servers(NoValue)
        \/ link' = link /\ journal' = journal
    BY <1>6 DEF LinkToNetwork, NoProvider, StopRestores, Restorable
  <2>3. journal' = journal \/ journal' = NotJournaled
    BY <1>6 DEF LinkToNetwork, NoProvider, StopRestores
  <2> QED  BY <1>1, <1>2, <1>3, <1>4, <1>5, <2>1, <2>2, <2>3 DEF DnsInv, NoOrphanScope, PassType, PassSteps, LinkType
<1>7. CASE LinkLeftAlone
  <2>1. UNCHANGED <<link, journal, config, scope>> /\ pass' = Idle
    BY <1>7 DEF LinkLeftAlone, Report
  <2> QED  BY <1>1, <1>2, <2>1 DEF DnsInv, NoOrphanScope, PassType, PassSteps, LinkType
<1>8. CASE JournalLink
  <2>1. UNCHANGED <<link, config, scope>> /\ pass' = [pass EXCEPT !.at = "try"] /\ Here
        /\ journal' = IF ~Managed /\ journal = NotJournaled THEN [dns |-> link.dns, ifindex |-> pass.ifindex] ELSE journal
    BY <1>8 DEF JournalLink, JournalBefore
  <2>2. pass.ifindex # 0
    BY <2>1, SecureDnsConstants DEF Here, IfOf, DnsInv, PassType, PassSteps, LinkType
  <2>3. journal' # NotJournaled
    <3>1. CASE ~Managed /\ journal = NotJournaled
      BY <2>1, <2>2, <3>1 DEF NotJournaled
    <3>2. CASE journal # NotJournaled
      BY <2>1, <3>2
    <3>3. CASE Managed
      BY <2>1, <3>3 DEF Managed, DnsInv, NoOrphanScope, PassType, PassSteps, LinkType
    <3> QED  BY <3>1, <3>2, <3>3
  <2>4. journal' \in [dns : Networks \cup Providers \cup {NoValue}, ifindex : Nat] /\ journal'.dns \notin Providers
    BY <2>1 DEF DnsInv, NoOrphanScope, PassType, PassSteps, LinkType
  <2>5. pass' \in PassType /\ pass'.at = "try" /\ pass'.back = pass.back
    BY <2>1 DEF DnsInv, PassType, PassSteps, LinkType
  <2> QED  BY <2>1, <2>3, <2>4, <2>5 DEF DnsInv, NoOrphanScope, PassType, PassSteps, LinkType
<1>9. CASE TryProvider
  <2> DEFINE key == ProviderOrder[pass.try + 1]
  <2>1. pass.at = "try" /\ pass.try \in Nat /\ pass.try < Len(ProviderOrder) /\ UNCHANGED <<journal, config, scope>>
    BY <1>9 DEF TryProvider, DnsInv, PassType, PassSteps, LinkType
  <2>2. key \in Providers
    BY <2>1, ProviderInHand
  <2>3. \/ link' = link \/ \E whole \in BOOLEAN : link' = [link EXCEPT !.dns = key, !.whole = whole]
    BY <1>9 DEF TryProvider
  <2> HIDE DEF key
  <2>4. link' \in LinkType
    BY <2>2, <2>3 DEF DnsInv, PassType, PassSteps, LinkType
  <2>5. pass' = Idle \/ pass' = [pass EXCEPT !.try = @ + 1]
    BY <1>9 DEF TryProvider, Report
  <2>6. pass' = Idle \/ (pass' \in PassType /\ pass'.at = "try" /\ pass'.back = pass.back)
    BY <2>1, <2>5 DEF DnsInv, PassType, PassSteps, LinkType
  <2>7. journal # NotJournaled
    BY <2>1 DEF DnsInv, PassType, PassSteps, LinkType
  <2> QED  BY <1>1, <1>2, <2>1, <2>4, <2>6, <2>7 DEF DnsInv, NoOrphanScope, PassType, PassSteps, LinkType
<1> QED  BY <1>6, <1>7, <1>8, <1>9

(* The scope beside a pinned link.                                           *)
LEMMA SplitKeeps ==
    ASSUME DnsInv, SplitJournals \/ SplitPins \/ SplitConfigures \/ SplitProbes
    PROVE  DnsInv'
<1>1. Idle \in PassType /\ Idle.at = "idle" /\ Idle.back = "idle" /\ Idle.try = 0
  BY DEF Idle, PassType, PassSteps
<1>2. 0 < Len(ProviderOrder)
  BY SecureDnsConstants
<1>3. CASE SplitJournals
  BY <1>3 DEF SplitJournals, DnsInv, NoOrphanScope, PassType, PassSteps, LinkType
<1>4. CASE SplitPins
  BY <1>4 DEF SplitPins, DnsInv, NoOrphanScope, PassType, PassSteps, LinkType
<1>5. CASE SplitConfigures
  <2>1. pass.try \in Nat /\ pass.try < Len(ProviderOrder) /\ pass.at = "configure"
    BY <1>5 DEF SplitConfigures, DnsInv, PassType, PassSteps, LinkType
  <2>2. config' = config \/ (config' \in Providers /\ config' # "absent")
    BY <1>5, <2>1, ProviderInHand DEF SplitConfigures
  <2> QED  BY <1>5, <2>1, <2>2 DEF SplitConfigures, DnsInv, NoOrphanScope, PassType, PassSteps, LinkType
<1>6. CASE SplitProbes
  <2>1. UNCHANGED <<link, journal, config, scope>> /\ pass.at = "probe"
    BY <1>6 DEF SplitProbes
  <2>2. pass' = Idle \/ (pass.try + 1 < Len(ProviderOrder) /\ pass' = [pass EXCEPT !.at = "configure", !.try = @ + 1])
    BY <1>6 DEF SplitProbes, Report
  <2>3. \/ pass' = Idle
        \/ pass' \in PassType /\ pass'.at = "configure" /\ pass'.try < Len(ProviderOrder)
    <3>1. pass \in PassType /\ pass.try \in Nat
      BY DEF DnsInv, PassType
    <3>2. CASE pass.try + 1 < Len(ProviderOrder) /\ pass' = [pass EXCEPT !.at = "configure", !.try = @ + 1]
      <4>1. pass' = [at |-> "configure", back |-> pass.back, ifindex |-> pass.ifindex, try |-> pass.try + 1]
        BY <3>1, <3>2 DEF PassType
      <4>2. pass.try + 1 \in Nat /\ pass.try + 1 < Len(ProviderOrder)
        BY <3>1, <3>2
      <4> QED  BY <3>1, <4>1, <4>2 DEF PassType, PassSteps
    <3> QED  BY <2>2, <3>2
  <2> QED  BY <1>1, <1>2, <2>1, <2>3 DEF DnsInv, NoOrphanScope, PassType, PassSteps, LinkType
<1> QED  BY <1>3, <1>4, <1>5, <1>6

(* For any networks and providers, wherever a pass was interrupted: the      *)
(* global scope has the drop-in that says how to empty it, and the journal   *)
(* holds no servers of GREYWARD's own (secure_dns_split.restore, _state).    *)
THEOREM ResolverIsRecorded == SecureDnsSpec => []NoOrphanScope
<1>1. DnsInv /\ [SecureDnsNext]_dnsVars => DnsInv'
  <2> SUFFICES ASSUME DnsInv, [SecureDnsNext]_dnsVars PROVE DnsInv'
    OBVIOUS
  <2>1. CASE UNCHANGED dnsVars
    BY <2>1 DEF dnsVars, DnsInv, NoOrphanScope, PassType, PassSteps, LinkType
  <2> QED  BY <2>1, SurroundingsKeep, RestoreKeeps, LinkKeeps, SplitKeeps DEF SecureDnsNext
<1>2. DnsInv => NoOrphanScope
  BY DEF DnsInv, PassType, PassSteps, LinkType
<1> QED  BY <1>1, <1>2, DnsStart, PTL DEF SecureDnsSpec
=============================================================================
