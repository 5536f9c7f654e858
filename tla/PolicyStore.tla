----------------------------- MODULE PolicyStore -----------------------------
(***************************************************************************)
(* The root-owned SQLite store of desired policy (store.rs, store_intent.rs *)
(* and the part of registry.rs it depends on).  Every write is one          *)
(* immediate transaction, so each is one step.  Two compare-and-set         *)
(* counters guard it: policy_revision for reviewed intentions and           *)
(* inventory_revision for the application registry.  Several connections    *)
(* use the store at once; a caller passes the revision it read earlier, and *)
(* StoreNext lets that be any earlier revision.                             *)
(***************************************************************************)
EXTENDS Naturals, FiniteSets

CONSTANTS
    Uids,
    ResourceRefs,             \* digests naming a reviewed directory
    Objects,                  \* a directory: boot id, device, inode, owner
    GrantRefs,
    Installations,            \* installation references; each has one owner
    InstallationOwner,        \* [Installations -> Uids]
    Providers,                \* Rpm, Flatpak, AppImage, ...
    InstallationProvider,     \* [Installations -> Providers]
    Generations,              \* content generations
    NotInstalled,             \* no registry entry
    MAX_POLICY_RESOURCES,     \* 2000 in the code
    MAX_POLICY_GRANTS,        \* 2000 in the code
    MAX_INSTALLATION_GRANTS,  \* 32 in the code
    MAX_APPLICATIONS,         \* 2000 in the code
    MaxRevision,              \* bound on policy_revision
    MaxInventory              \* bound on inventory_revision

ASSUME StoreSets ==
    /\ IsFiniteSet(ResourceRefs) /\ IsFiniteSet(GrantRefs)
    /\ InstallationOwner \in [Installations -> Uids]
    /\ InstallationProvider \in [Installations -> Providers]
    /\ NotInstalled \notin Generations
ASSUME StoreLimits ==
    /\ MAX_POLICY_RESOURCES \in Nat /\ MAX_POLICY_GRANTS \in Nat
    /\ MAX_INSTALLATION_GRANTS \in Nat /\ MAX_APPLICATIONS \in Nat /\ MaxRevision \in Nat /\ MaxInventory \in Nat

VARIABLES
    revision,            \* metadata.policy_revision
    resources,           \* table resource_intents
    grants,              \* table grant_intents
    registry,            \* table applications: the generation last observed
    inventory_revision   \* metadata.inventory_revision

policyVars == <<revision, resources, grants>>
registryVars == <<registry, inventory_revision>>
storeVars == <<policyVars, registryVars>>

-----------------------------------------------------------------------------

ResourceIntent ==
    [ref : ResourceRefs, object : Objects, owner : Uids,
     custom : BOOLEAN, policy_revision : Nat]

GrantIntent ==
    [ref : GrantRefs, owner : Uids, installation : Installations,
     generation : Generations, resources : SUBSET ResourceRefs, policy_revision : Nat]

IntentChange ==
         [kind : {"Register"}, record : ResourceIntent]
    \cup [kind : {"ProposeGrant"}, record : GrantIntent]
    \cup [kind : {"RevokeGrant"}, ref : GrantRefs]
    \cup [kind : {"RemoveCustomResource"}, ref : ResourceRefs]

StoreTypeOK ==
    /\ revision \in Nat
    /\ resources \subseteq ResourceIntent
    /\ grants \subseteq GrantIntent
    /\ registry \in [Installations -> Generations \cup {NotInstalled}]
    /\ inventory_revision \in Nat

\* initialize: "INSERT INTO metadata VALUES(1,0,1)" and empty tables.
StoreInit ==
    /\ revision = 1
    /\ resources = {}
    /\ grants = {}
    /\ registry = [i \in Installations |-> NotInstalled]
    /\ inventory_revision = 0

-----------------------------------------------------------------------------
(* Reviewed intentions *)

ValidRegistration(uid, next, r) ==
    /\ r.owner = uid
    /\ r.policy_revision = next
    /\ Cardinality(resources) < MAX_POLICY_RESOURCES
    /\ \A existing \in resources : existing.ref # r.ref /\ existing.object # r.object

ValidGrant(uid, next, g) ==
    /\ g.owner = uid
    /\ g.policy_revision = next
    /\ g.resources # {}
    /\ InstallationOwner[g.installation] = uid
    /\ registry[g.installation] = g.generation
    /\ Cardinality(grants) < MAX_POLICY_GRANTS
    /\ Cardinality({e \in grants : e.installation = g.installation}) < MAX_INSTALLATION_GRANTS
    /\ \A existing \in grants : existing.ref # g.ref
    /\ \A ref \in g.resources : \E r \in resources : r.ref = ref /\ r.owner = uid

ValidRevocation(uid, ref) == \E g \in grants : g.ref = ref /\ g.owner = uid

\* Fault: a resource is removed from under the grants that name it.
RemovalWithoutDependants(uid, ref) ==
    \E r \in resources : r.ref = ref /\ r.owner = uid /\ r.custom

ValidRemoval(uid, ref) ==
    /\ \E r \in resources : r.ref = ref /\ r.owner = uid /\ r.custom
    /\ \A g \in grants : ref \notin g.resources

ValidChange(uid, expected, change) ==
    \/ change.kind = "Register" /\ ValidRegistration(uid, expected + 1, change.record)
    \/ change.kind = "ProposeGrant" /\ ValidGrant(uid, expected + 1, change.record)
    \/ change.kind = "RevokeGrant" /\ ValidRevocation(uid, change.ref)
    \/ change.kind = "RemoveCustomResource" /\ ValidRemoval(uid, change.ref)

\* Fault: the revision is not compared.
validate_any_revision(uid, expected, change) == ValidChange(uid, expected, change)

\* validate_change: the compare half of the compare-and-set, then the rules of
\* the change itself.
validate_change(uid, expected, change) ==
    /\ revision = expected
    /\ ValidChange(uid, expected, change)

\* commit_intent_change: validated again inside the write transaction.
commit_intent_change(uid, expected, change) ==
    /\ validate_change(uid, expected, change)
    /\ revision' = expected + 1
    /\ resources' =
         CASE change.kind = "Register" -> resources \cup {change.record}
           [] change.kind = "RemoveCustomResource" ->
                {r \in resources : ~(r.ref = change.ref /\ r.owner = uid)}
           [] OTHER -> resources
    /\ grants' =
         CASE change.kind = "ProposeGrant" -> grants \cup {change.record}
           [] change.kind = "RevokeGrant" ->
                {g \in grants : ~(g.ref = change.ref /\ g.owner = uid)}
           [] OTHER -> grants
    /\ UNCHANGED registryVars

-----------------------------------------------------------------------------
(* The application registry *)

Installed(reg) == {i \in Installations : reg[i] # NotInstalled}

\* One owner's installations, of one provider or of all of them (the None of
\* reconcile_applications).
Scope(uid, providers) ==
    {i \in Installations : InstallationOwner[i] = uid /\ InstallationProvider[i] \in providers}

\* ApplicationRegistry::reconcile_scope: what was observed replaces the owner's
\* entries; what was not observed survives, unless the inventory of that scope
\* is complete.
Reconciled(uid, providers, observed, complete) ==
    [i \in Installations |->
       IF i \in DOMAIN observed THEN observed[i]
       ELSE IF complete /\ i \in Scope(uid, providers) THEN NotInstalled
       ELSE registry[i]]

\* The transaction around it.  An entry seen again with the same generation only
\* advances last_seen, which takes a new revision when the wall clock has moved
\* on by a second.
reconcile_scope(uid, providers, observed, complete, expected) ==
    /\ inventory_revision = expected
    /\ DOMAIN observed \subseteq Scope(uid, providers)
    /\ registry' = Reconciled(uid, providers, observed, complete)
    /\ Cardinality(Installed(registry')) <= MAX_APPLICATIONS
    /\ inventory_revision' \in {inventory_revision, inventory_revision + 1}
    /\ registry' # registry => inventory_revision' # inventory_revision
    /\ DOMAIN observed = {} /\ registry' = registry => inventory_revision' = inventory_revision
    /\ UNCHANGED policyVars

-----------------------------------------------------------------------------
(* Reading the policy back *)

\* What the rows and the primary keys must satisfy.
read_state ==
    /\ revision >= 1
    /\ Cardinality(resources) <= MAX_POLICY_RESOURCES
    /\ Cardinality(grants) <= MAX_POLICY_GRANTS
    /\ \A r \in resources : r.policy_revision \in 1 .. revision
    /\ \A g \in grants : /\ g.policy_revision \in 1 .. revision
                         /\ g.owner = InstallationOwner[g.installation]
    /\ \A r, s \in resources : r.ref = s.ref => r = s
    /\ \A g, h \in grants : g.ref = h.ref => g = h

validate_relations ==
    /\ \A r, s \in resources : r.object = s.object => r = s
    /\ \A g \in grants :
         /\ Cardinality({e \in grants : e.installation = g.installation}) <= MAX_INSTALLATION_GRANTS
         /\ \A ref \in g.resources : \E r \in resources : r.ref = ref /\ r.owner = g.owner

-----------------------------------------------------------------------------

\* What a client may have reviewed against revision rev.
Changes(rev) ==
         {[kind |-> "Register", record |-> r] :
            r \in [ref : ResourceRefs, object : Objects, owner : Uids,
                   custom : BOOLEAN, policy_revision : {rev + 1}]}
    \cup {[kind |-> "ProposeGrant", record |-> g] :
            g \in [ref : GrantRefs, owner : Uids, installation : Installations,
                   generation : Generations, resources : SUBSET ResourceRefs,
                   policy_revision : {rev + 1}]}
    \cup [kind : {"RevokeGrant"}, ref : GrantRefs]
    \cup [kind : {"RemoveCustomResource"}, ref : ResourceRefs]

StoreNext ==
    \/ /\ revision < MaxRevision
       /\ \E uid \in Uids, expected \in 1 .. revision : \E change \in Changes(expected) :
            commit_intent_change(uid, expected, change)
    \/ /\ \E uid \in Uids, providers \in {Providers} \cup {{p} : p \in Providers},
             expected \in 0 .. inventory_revision, complete \in BOOLEAN,
             seen \in SUBSET Installations :
            /\ seen \subseteq Scope(uid, providers)
            /\ \E observed \in [seen -> Generations] :
                 reconcile_scope(uid, providers, observed, complete, expected)
       /\ inventory_revision' <= MaxInventory

StoreSpec == StoreInit /\ [][StoreNext]_storeVars

-----------------------------------------------------------------------------
(* Properties *)

\* Every commit leaves a store that read_state accepts: a single bad committed
\* change would make it report Corrupt, so that the whole policy, every user's,
\* is unreadable and every later change impossible.
StoreReadable == read_state /\ validate_relations

\* The compare-and-set: a revision belongs to one change.  Two reviews made
\* against the same revision can never both be stored, and no record carries a
\* revision that another record or a later change also claims.
OneChangePerRevision ==
    /\ \A r, s \in resources : r.policy_revision = s.policy_revision => r = s
    /\ \A g, h \in grants : g.policy_revision = h.policy_revision => g = h
    /\ \A r \in resources, g \in grants : r.policy_revision # g.policy_revision

\* Inventory refreshes never move the reviewed policy, a policy change never
\* moves the inventory, and neither counter goes back or skips: a stale
\* revision held by a client can never become current again.
RevisionsOnlyAdvance ==
    [][/\ revision' \in {revision, revision + 1}
       /\ inventory_revision' \in {inventory_revision, inventory_revision + 1}
       /\ revision' = revision => UNCHANGED policyVars
       /\ inventory_revision' = inventory_revision => UNCHANGED registryVars
       /\ registry' # registry => UNCHANGED policyVars]_storeVars
=============================================================================
