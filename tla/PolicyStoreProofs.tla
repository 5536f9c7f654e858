------------------------- MODULE PolicyStoreProofs -------------------------
(***************************************************************************)
(* The policy store for any owners, applications, resources and limits: a   *)
(* committed change can never make the store unreadable, and a revision     *)
(* names one change.                                                        *)
(***************************************************************************)
EXTENDS PolicyStore, FiniteSetTheorems, TLAPS

\* One committed change, whatever its kind: what is added was valid at this
\* revision, what is removed was not needed by anything that stays.
Adds(uid) ==
    \/ \E r \in ResourceIntent : /\ ValidRegistration(uid, revision + 1, r)
                                 /\ resources' = resources \cup {r} /\ grants' = grants
    \/ \E g \in GrantIntent : /\ ValidGrant(uid, revision + 1, g)
                              /\ grants' = grants \cup {g} /\ resources' = resources

Removes(uid) ==
    \/ \E ref \in GrantRefs : /\ grants' = {g \in grants : ~(g.ref = ref /\ g.owner = uid)}
                              /\ resources' = resources
    \/ \E ref \in ResourceRefs : /\ ValidRemoval(uid, ref)
                                 /\ resources' = {r \in resources : ~(r.ref = ref /\ r.owner = uid)}
                                 /\ grants' = grants

\* commit_intent_change, by kind of change.
LEMMA CommitByKind ==
    ASSUME StoreTypeOK, NEW uid \in Uids, NEW expected \in 1 .. revision,
           NEW change \in Changes(expected), commit_intent_change(uid, expected, change)
    PROVE  /\ expected = revision /\ revision' = revision + 1
           /\ UNCHANGED registryVars
           /\ Adds(uid) \/ Removes(uid)
  <1> USE DEF commit_intent_change, validate_change, ValidChange
  <1>0. expected = revision /\ revision' = revision + 1 /\ UNCHANGED registryVars
    OBVIOUS
  <1>1. CASE \E r \in [ref : ResourceRefs, object : Objects, owner : Uids,
                       custom : BOOLEAN, policy_revision : {expected + 1}] :
               change = [kind |-> "Register", record |-> r]
    <2>1. PICK r \in [ref : ResourceRefs, object : Objects, owner : Uids,
                      custom : BOOLEAN, policy_revision : {expected + 1}] :
               change = [kind |-> "Register", record |-> r]
      BY <1>1
    <2>2. change.kind = "Register" /\ change.record = r
      BY <2>1
    <2>3. r \in ResourceIntent
      BY <1>0 DEF ResourceIntent, StoreTypeOK
    <2> QED BY <1>0, <2>2, <2>3 DEF Adds
  <1>2. CASE \E g \in [ref : GrantRefs, owner : Uids, installation : Installations,
                       generation : Generations, resources : SUBSET ResourceRefs,
                       policy_revision : {expected + 1}] :
               change = [kind |-> "ProposeGrant", record |-> g]
    <2>1. PICK g \in [ref : GrantRefs, owner : Uids, installation : Installations,
                      generation : Generations, resources : SUBSET ResourceRefs,
                      policy_revision : {expected + 1}] :
               change = [kind |-> "ProposeGrant", record |-> g]
      BY <1>2
    <2>2. change.kind = "ProposeGrant" /\ change.record = g
      BY <2>1
    <2>3. g \in GrantIntent
      BY <1>0 DEF GrantIntent, StoreTypeOK
    <2> QED BY <1>0, <2>2, <2>3 DEF Adds
  <1>3. CASE change \in [kind : {"RevokeGrant"}, ref : GrantRefs]
    BY <1>0, <1>3 DEF Removes
  <1>4. CASE change \in [kind : {"RemoveCustomResource"}, ref : ResourceRefs]
    BY <1>0, <1>4 DEF Removes
  <1> QED BY <1>0, <1>1, <1>2, <1>3, <1>4 DEF Changes

\* A step of the store either commits one change or refreshes the registry.
LEMMA StepByKind ==
    ASSUME StoreTypeOK, StoreNext
    PROVE  \/ /\ revision' = revision + 1 /\ UNCHANGED registryVars
              /\ \E uid \in Uids : Adds(uid) \/ Removes(uid)
           \/ /\ UNCHANGED policyVars
              /\ registry' \in [Installations -> Generations \cup {NotInstalled}]
              /\ inventory_revision' \in {inventory_revision, inventory_revision + 1}
              /\ registry' # registry => inventory_revision' # inventory_revision
  <1>1. CASE \E uid \in Uids, expected \in 1 .. revision : \E change \in Changes(expected) :
               commit_intent_change(uid, expected, change)
    BY <1>1, CommitByKind
  <1>2. ASSUME NEW uid \in Uids, NEW providers, NEW expected, NEW complete, NEW seen,
               NEW observed \in [seen -> Generations],
               reconcile_scope(uid, providers, observed, complete, expected)
        PROVE  /\ UNCHANGED policyVars
               /\ registry' \in [Installations -> Generations \cup {NotInstalled}]
               /\ inventory_revision' \in {inventory_revision, inventory_revision + 1}
               /\ registry' # registry => inventory_revision' # inventory_revision
    BY <1>2 DEF reconcile_scope, Reconciled, StoreTypeOK
  <1> QED BY <1>1, <1>2 DEF StoreNext

\* Every transaction leaves well-formed tables.
LEMMA StoreTypeInductive ==
    ASSUME StoreTypeOK, [StoreNext]_storeVars PROVE StoreTypeOK'
  <1>1. CASE UNCHANGED storeVars
    BY <1>1 DEF storeVars, policyVars, registryVars, StoreTypeOK, ResourceIntent, GrantIntent
  <1>2. CASE StoreNext
    BY <1>2, StepByKind DEF StoreTypeOK, Adds, Removes, policyVars, registryVars
  <1> QED BY <1>1, <1>2

\* The store is well-formed in every reachable state.
THEOREM StoreTypeCorrect == StoreSpec => []StoreTypeOK
  <1>1. StoreInit => StoreTypeOK
    BY DEF StoreInit, StoreTypeOK
  <1> QED BY <1>1, StoreTypeInductive, PTL DEF StoreSpec

-----------------------------------------------------------------------------
(* The store stays readable *)

\* StoreReadable counts records, so the tables must be finite; and a new record
\* takes a revision no record has, because none is ahead of the counter.
StoreInv ==
    /\ StoreTypeOK
    /\ IsFiniteSet(resources) /\ IsFiniteSet(grants)
    /\ StoreReadable
    /\ OneChangePerRevision

Holding(table, i) == {e \in table : e.installation = i}

\* A smaller table holds no more, and one record adds one.
LEMMA TableGrowth ==
    ASSUME NEW T, IsFiniteSet(T), NEW limit \in Nat
    PROVE  /\ \A S : S \subseteq T /\ Cardinality(T) <= limit =>
                 IsFiniteSet(S) /\ Cardinality(S) <= limit
           /\ \A x : Cardinality(T) < limit =>
                 IsFiniteSet(T \cup {x}) /\ Cardinality(T \cup {x}) <= limit
  <1>1. ASSUME NEW S, S \subseteq T, Cardinality(T) <= limit
        PROVE  IsFiniteSet(S) /\ Cardinality(S) <= limit
    <2>1. IsFiniteSet(S) /\ Cardinality(S) <= Cardinality(T)
      BY <1>1, FS_Subset
    <2> QED BY <1>1, <2>1, FS_CardinalityType
  <1>2. ASSUME NEW x, Cardinality(T) < limit
        PROVE  IsFiniteSet(T \cup {x}) /\ Cardinality(T \cup {x}) <= limit
    <2>1. /\ IsFiniteSet(T \cup {x}) /\ Cardinality(T) \in Nat
          /\ Cardinality(T \cup {x}) = Cardinality(T) \/ Cardinality(T \cup {x}) = Cardinality(T) + 1
      BY FS_AddElement, FS_CardinalityType
    <2> QED BY <1>2, <2>1
  <1> QED BY <1>1, <1>2

\* No stored record is ahead of the counter, so the next revision is unused.
LEMMA StoredEarlier ==
    ASSUME StoreInv
    PROVE  /\ \A r \in resources : /\ r.policy_revision \in 1 .. (revision + 1)
                                   /\ r.policy_revision # revision + 1
           /\ \A g \in grants : /\ g.policy_revision \in 1 .. (revision + 1)
                                /\ g.policy_revision # revision + 1
           /\ revision + 1 \in 1 .. (revision + 1) /\ revision + 1 >= 1
  <1>1. revision \in Nat
    BY DEF StoreInv, StoreTypeOK
  <1>2. \A n \in 1 .. revision : n \in 1 .. (revision + 1) /\ n # revision + 1
    BY <1>1
  <1>3. \A r \in resources : r.policy_revision \in 1 .. revision
    BY DEF StoreInv, StoreReadable, read_state, validate_relations
  <1>4. \A g \in grants : g.policy_revision \in 1 .. revision
    BY DEF StoreInv, StoreReadable, read_state, validate_relations
  <1> QED BY <1>1, <1>2, <1>3, <1>4

\* ProposeGrant: the limits, the unique reference and the registered resources.
LEMMA GrantKeepsReadable ==
    ASSUME StoreInv, NEW uid \in Uids, NEW g \in GrantIntent,
           ValidGrant(uid, revision + 1, g), revision' = revision + 1,
           grants' = grants \cup {g}, resources' = resources
    PROVE  IsFiniteSet(grants') /\ StoreReadable' /\ OneChangePerRevision'
  <1> USE StoreLimits DEF StoreInv, StoreTypeOK
  <1>1. IsFiniteSet(grants') /\ Cardinality(grants') <= MAX_POLICY_GRANTS
    BY TableGrowth DEF ValidGrant
  <1>2. ASSUME NEW i \in Installations,
               Cardinality(Holding(grants, i)) <= MAX_INSTALLATION_GRANTS
                 \/ i = g.installation
        PROVE  Cardinality(Holding(grants', i)) <= MAX_INSTALLATION_GRANTS
    <2>1. IsFiniteSet(Holding(grants, i))
      BY FS_Subset DEF Holding
    <2>2. CASE i = g.installation
      <3>1. Holding(grants', i) = Holding(grants, i) \cup {g}
        BY <2>2 DEF Holding
      <3>2. Cardinality(Holding(grants, i)) < MAX_INSTALLATION_GRANTS
        BY <2>2 DEF Holding, ValidGrant
      <3> QED BY <2>1, <3>1, <3>2, TableGrowth
    <2>3. CASE i # g.installation
      <3>1. Holding(grants', i) = Holding(grants, i)
        BY <2>3 DEF Holding
      <3> QED BY <1>2, <2>3, <3>1
    <2> QED BY <2>2, <2>3
  <1>3. ASSUME NEW h \in grants'
        PROVE  Cardinality({e \in grants' : e.installation = h.installation}) <= MAX_INSTALLATION_GRANTS
    <2>1. h.installation \in Installations
      BY <1>3 DEF GrantIntent
    <2>2. h \in grants => Cardinality(Holding(grants, h.installation)) <= MAX_INSTALLATION_GRANTS
      BY DEF Holding, StoreReadable, validate_relations
    <2> QED BY <1>2, <1>3, <2>1, <2>2 DEF Holding
  <1>4. ASSUME NEW h \in grants'
        PROVE  /\ h.policy_revision \in 1 .. revision'
               /\ h.owner = InstallationOwner[h.installation]
               /\ \A ref \in h.resources : \E r \in resources' : r.ref = ref /\ r.owner = h.owner
    <2>1. CASE h = g
      BY <2>1, StoredEarlier, ZenonT(40) DEF ValidGrant
    <2>2. CASE h \in grants
      <3>1. h.policy_revision \in 1 .. revision'
        BY <2>2, StoredEarlier
      <3> QED BY <2>2, <3>1, Zenon DEF StoreReadable, read_state, validate_relations
    <2> QED BY <1>4, <2>1, <2>2
  <1>5. \A h, k \in grants' : h.ref = k.ref => h = k
    BY DEF StoreReadable, read_state, validate_relations, ValidGrant
  <1>6. \A r \in resources' : r.policy_revision \in 1 .. revision'
    BY StoredEarlier
  <1>7. StoreReadable'
    BY <1>1, <1>3, <1>4, <1>5, <1>6 DEF StoreReadable, read_state, validate_relations
  <1>8. OneChangePerRevision'
    <2>1. g.policy_revision = revision + 1
      BY DEF ValidGrant
    <2> QED BY <2>1, StoredEarlier, Zenon DEF OneChangePerRevision
  <1> QED BY <1>1, <1>7, <1>8

\* Register: a new directory, its own reference and its own revision.
LEMMA RegistrationKeepsReadable ==
    ASSUME StoreInv, NEW uid \in Uids, NEW r \in ResourceIntent,
           ValidRegistration(uid, revision + 1, r), revision' = revision + 1,
           resources' = resources \cup {r}, grants' = grants
    PROVE  IsFiniteSet(resources') /\ StoreReadable' /\ OneChangePerRevision'
  <1> USE StoreLimits DEF StoreInv, StoreTypeOK
  <1>1. IsFiniteSet(resources') /\ Cardinality(resources') <= MAX_POLICY_RESOURCES
    BY TableGrowth DEF ValidRegistration
  <1>2. \A s \in resources' : s.policy_revision \in 1 .. revision'
    BY DEF StoreReadable, read_state, validate_relations, ValidRegistration, ResourceIntent
  <1>3. \A s, t \in resources' : (s.ref = t.ref \/ s.object = t.object) => s = t
    BY DEF StoreReadable, read_state, validate_relations, ValidRegistration
  <1>4. ASSUME NEW g \in grants'
        PROVE  /\ g.policy_revision \in 1 .. revision'
               /\ \A ref \in g.resources : \E s \in resources' : s.ref = ref /\ s.owner = g.owner
    <2>1. g.policy_revision \in 1 .. revision'
      BY <1>4, StoredEarlier
    <2>2. \A ref \in g.resources : \E s \in resources : s.ref = ref /\ s.owner = g.owner
      BY <1>4, Zenon DEF StoreReadable, read_state, validate_relations
    <2> QED BY <2>1, <2>2, Zenon
  <1>5. StoreReadable'
    BY <1>1, <1>2, <1>3, <1>4 DEF StoreReadable, read_state, validate_relations
  <1>6. OneChangePerRevision'
    <2>1. r.policy_revision = revision + 1
      BY DEF ValidRegistration
    <2> QED BY <2>1, StoredEarlier, Zenon DEF OneChangePerRevision
  <1> QED BY <1>1, <1>5, <1>6

\* RevokeGrant and RemoveCustomResource: what is left was readable before.
LEMMA RemovalKeepsReadable ==
    ASSUME StoreInv, NEW uid \in Uids, Removes(uid), revision' = revision + 1
    PROVE  IsFiniteSet(grants') /\ IsFiniteSet(resources') /\ StoreReadable' /\ OneChangePerRevision'
  <1> USE StoreLimits DEF StoreInv, StoreTypeOK
  <1>0. grants' \subseteq grants /\ resources' \subseteq resources
    BY DEF Removes
  <1>1. /\ IsFiniteSet(grants') /\ Cardinality(grants') <= MAX_POLICY_GRANTS
        /\ IsFiniteSet(resources') /\ Cardinality(resources') <= MAX_POLICY_RESOURCES
    BY <1>0, TableGrowth DEF StoreReadable, read_state, validate_relations
  <1>2. ASSUME NEW h \in grants'
        PROVE  Cardinality({e \in grants' : e.installation = h.installation})
                 <= MAX_INSTALLATION_GRANTS
    <2>1. IsFiniteSet(Holding(grants, h.installation))
      BY FS_Subset DEF Holding
    <2>2. Cardinality(Holding(grants, h.installation)) <= MAX_INSTALLATION_GRANTS
      BY <1>0 DEF Holding, StoreReadable, read_state, validate_relations
    <2>3. Holding(grants', h.installation) \subseteq Holding(grants, h.installation)
      BY <1>0 DEF Holding
    <2> QED BY <2>1, <2>2, <2>3, TableGrowth DEF Holding
  <1>3. ASSUME NEW h \in grants', NEW ref \in h.resources
        PROVE  \E r \in resources' : r.ref = ref /\ r.owner = h.owner
    <2>1. h \in grants
      BY <1>0
    <2>2. PICK r \in resources : r.ref = ref /\ r.owner = h.owner
      BY <2>1, Zenon DEF StoreReadable, read_state, validate_relations
    <2>3. r \in resources'
      BY <2>1, <2>2, Zenon DEF Removes, ValidRemoval
    <2> QED BY <2>2, <2>3, Zenon
  <1>4. /\ \A h \in grants' : h.policy_revision \in 1 .. revision'
        /\ \A r \in resources' : r.policy_revision \in 1 .. revision'
    BY <1>0, StoredEarlier
  <1>5. StoreReadable'
    <2>1. /\ \A h \in grants' : h.owner = InstallationOwner[h.installation]
          /\ \A r, s \in resources' : (r.ref = s.ref \/ r.object = s.object) => r = s
          /\ \A h, k \in grants' : h.ref = k.ref => h = k
      BY <1>0, Zenon DEF StoreReadable, read_state, validate_relations
    <2>2. revision' >= 1
      BY StoredEarlier
    <2> QED BY <1>1, <1>2, <1>3, <1>4, <2>1, <2>2, Zenon DEF StoreReadable, read_state, validate_relations
  <1>6. OneChangePerRevision'
    BY <1>0 DEF OneChangePerRevision
  <1> QED BY <1>1, <1>5, <1>6

\* StoreInv is inductive.
LEMMA StoreInvInductive ==
    ASSUME StoreInv, [StoreNext]_storeVars PROVE StoreInv'
  <1>0. StoreTypeOK'
    BY StoreTypeInductive DEF StoreInv
  <1>1. CASE UNCHANGED policyVars
    BY <1>0, <1>1 DEF StoreInv, policyVars, StoreReadable, read_state, validate_relations, OneChangePerRevision
  <1>2. ASSUME NEW uid \in Uids, Adds(uid), revision' = revision + 1 PROVE StoreInv'
    BY <1>0, <1>2, GrantKeepsReadable, RegistrationKeepsReadable DEF Adds, StoreInv
  <1>3. ASSUME NEW uid \in Uids, Removes(uid), revision' = revision + 1 PROVE StoreInv'
    BY <1>0, <1>3, RemovalKeepsReadable DEF StoreInv
  <1> QED BY <1>1, <1>2, <1>3, StepByKind DEF StoreInv, storeVars

\* StoreInv holds in every reachable state of the store.
LEMMA StoreInvariant == StoreSpec => []StoreInv
  <1>1. StoreInit => StoreInv
    BY FS_EmptySet, StoreLimits DEF StoreInit, StoreInv, StoreTypeOK, StoreReadable, read_state, validate_relations, OneChangePerRevision
  <1> QED BY <1>1, StoreInvInductive, PTL DEF StoreSpec

\* No sequence of committed changes and inventory refreshes makes read_state
\* report Corrupt, whatever the limits, the owners and the applications.
THEOREM Readable == StoreSpec => []StoreReadable
  BY StoreInvariant, PTL DEF StoreInv

\* The compare-and-set gives every stored record a revision of its own.
THEOREM UniqueRevisions == StoreSpec => []OneChangePerRevision
  BY StoreInvariant, PTL DEF StoreInv

\* Neither counter goes back or skips, and neither write moves the other's data.
THEOREM Monotone == StoreSpec => RevisionsOnlyAdvance
  <1> DEFINE Advance ==
         /\ revision' \in {revision, revision + 1}
         /\ inventory_revision' \in {inventory_revision, inventory_revision + 1}
         /\ revision' = revision => UNCHANGED policyVars
         /\ inventory_revision' = inventory_revision => UNCHANGED registryVars
         /\ registry' # registry => UNCHANGED policyVars
  <1>1. ASSUME StoreTypeOK, [StoreNext]_storeVars PROVE [Advance]_storeVars
    BY <1>1, StepByKind DEF StoreTypeOK, policyVars, registryVars
  <1> QED BY <1>1, StoreTypeCorrect, PTL DEF StoreSpec, RevisionsOnlyAdvance
=============================================================================
