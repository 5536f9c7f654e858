---------------------------- MODULE UpdateHistory ----------------------------
(***************************************************************************)
(* The update center's evidence history (update_center.py).  snapshot reads  *)
(* the records of the snapshot before, asks each provider, appends a history *)
(* entry for each record whose version changed, writes the history and then  *)
(* the records.  It runs in the refresh threads and in the apply worker at   *)
(* the same time, without a lock, and the process may end anywhere.          *)
(* Records of different providers do not meet: the model follows one item    *)
(* of one provider.  A provider lists the item under one id while an update  *)
(* is pending and, some of them, under another one when none is.  The id     *)
(* does not tell apart what is installed side by side: the branches of a     *)
(* Flatpak, the kernels rpm keeps.                                           *)
(***************************************************************************)
EXTENDS Naturals, Sequences, SequencesExt

CONSTANTS
    Snapshots,     \* the threads that may run snapshot
    MaxVersion,    \* the versions of the item; one may be put back
    MaxInstalls,   \* bound on the changes of what is installed
    MAX_HISTORY    \* entries kept

ASSUME HistoryConstants == MaxVersion \in Nat \ {0} /\ MaxInstalls \in Nat /\ MAX_HISTORY \in Nat \ {0}

VARIABLES
    provider,    \* the provider of the item
    installs,    \* the versions that are installed, after those before them
    offered,     \* the provider has an update
    recorded,    \* previous-records.json: the versions under each id, in order
    evidence,    \* history.json
    taking       \* each snapshot that is being taken

historyVars == <<provider, installs, offered, recorded, evidence, taking>>

-----------------------------------------------------------------------------

UpdateProviders == {"DNF5", "rpm-ostree", "Flatpak", "fwupd", "freshclam"}
SideBySide == {"DNF5", "Flatpak"}
RecordIds == {"item", "settled"}
ItemVersions == 1 .. MaxVersion
NoRecords == [i \in RecordIds |-> <<>>]
NotTaken == [pc |-> "none", before |-> NoRecords, seen |-> NoRecords, loaded |-> <<>>]

HistoryTypeOK ==
    LET Records == [RecordIds -> SeqOf(ItemVersions, MaxVersion)]
        History == SeqOf([from : ItemVersions, to : ItemVersions], MAX_HISTORY)
    IN /\ provider \in UpdateProviders /\ offered \in BOOLEAN
       /\ installs \in SeqOf(SUBSET ItemVersions, MaxInstalls)
       /\ recorded \in Records /\ evidence \in History
       /\ taking \in [Snapshots -> [pc : {"none", "collect", "history", "write", "records"},
                                  before : Records, seen : Records, loaded : History]]

HistoryInit ==
    /\ provider \in UpdateProviders
    /\ installs = <<{1}>> /\ offered = FALSE /\ recorded = NoRecords /\ evidence = <<>>
    /\ taking = [s \in Snapshots |-> NotTaken]

-----------------------------------------------------------------------------
(* What the providers answer: a set of possible records of the item.         *)

Current == installs[Len(installs)]
Under(id, list) == [NoRecords EXCEPT ![id] = list]
OneUnder(id) == {Under(id, <<v>>) : v \in Current}

\* A command that is missing, fails, takes too long or prints no JSON.
NoAnswer == {NoRecords}

\* Only packages with an update are listed, with the version rpm names last for
\* the name and the architecture; without its answer the version is not known.
dnf5 == NoAnswer \cup IF offered THEN OneUnder("item") ELSE {}

\* The booted deployment is listed in any case.
rpm_ostree == NoAnswer \cup OneUnder("item")

\* Every installed branch, whatever remote-ls says.
flatpak == NoAnswer \cup {Under("item", list) : list \in SetToSeqs(Current)}

\* Releases, or when there are none the devices, under another id.
fwupd == NoAnswer \cup OneUnder(IF offered THEN "item" ELSE "settled")

freshclam == NoAnswer \cup OneUnder("item")

Collected ==
    CASE provider = "DNF5" -> dnf5 [] provider = "rpm-ostree" -> rpm_ostree [] provider = "Flatpak" -> flatpak
      [] provider = "fwupd" -> fwupd [] OTHER -> freshclam

-----------------------------------------------------------------------------
(* snapshot.                                                                 *)

\* A file that is being written is empty for a moment, and reads as no list.
BeingWritten(pc) == \E s \in Snapshots : taking[s].pc = pc
Read(file, pc, nothing) == {file} \cup IF BeingWritten(pc) THEN {nothing} ELSE {}

\* load_previous_records comes before the providers are asked.
LoadPreviousRecords(s) ==
    /\ taking[s].pc = "none"
    /\ \E before \in Read(recorded, "records", NoRecords) :
         taking' = [taking EXCEPT ![s] = [NotTaken EXCEPT !.pc = "collect", !.before = before]]
    /\ UNCHANGED <<provider, installs, offered, recorded, evidence>>

CollectRecords(s) ==
    /\ taking[s].pc = "collect"
    /\ \E seen \in Collected : taking' = [taking EXCEPT ![s].pc = "history", ![s].seen = seen]
    /\ UNCHANGED <<provider, installs, offered, recorded, evidence>>

\* Fault: the earlier records are read when the new ones have been collected.
BeforeReadLate(s) == recorded

Before(s) == taking[s].before

\* old = {id: item}: the last record under an id is compared with each new one.
Changes(before, seen) ==
    SetToSeq(UNION {{[from |-> Last(before[i]), to |-> v] : v \in ToSet(seen[i]) \ {Last(before[i])}} :
                        i \in {j \in RecordIds : before[j] # <<>>}})

Newest(entries) == SubSeq(entries, IF Len(entries) > MAX_HISTORY THEN Len(entries) - MAX_HISTORY + 1 ELSE 1, Len(entries))

LoadHistory(s) ==
    /\ taking[s].pc = "history"
    /\ \E loaded \in Read(evidence, "write", <<>>) :
         taking' = [taking EXCEPT ![s].pc = "write", ![s].loaded = Newest(loaded \o Changes(Before(s), taking[s].seen))]
    /\ UNCHANGED <<provider, installs, offered, recorded, evidence>>

\* A write that fails is passed over.
WriteHistory(s) ==
    /\ taking[s].pc = "write"
    /\ evidence' \in {evidence, taking[s].loaded}
    /\ taking' = [taking EXCEPT ![s].pc = "records", ![s].loaded = <<>>]
    /\ UNCHANGED <<provider, installs, offered, recorded>>

WritePreviousRecords(s) ==
    /\ taking[s].pc = "records"
    /\ recorded' \in {recorded, taking[s].seen}
    /\ taking' = [taking EXCEPT ![s] = NotTaken]
    /\ UNCHANGED <<provider, installs, offered, evidence>>

-----------------------------------------------------------------------------
(* The world.                                                               *)

VersionOffered ==
    /\ ~offered /\ offered' = TRUE
    /\ UNCHANGED <<provider, installs, recorded, evidence, taking>>

\* Another version, newer or older, in place of the one installed or beside it.
VersionInstalled ==
    /\ Len(installs) < MaxInstalls
    /\ \E versions \in SUBSET ItemVersions \ {{}, Current} :
         /\ provider \in SideBySide \/ \E v \in ItemVersions : versions = {v}
         /\ installs' = Append(installs, versions)
    /\ offered' \in BOOLEAN
    /\ UNCHANGED <<provider, recorded, evidence, taking>>

UpdateCenterDies ==
    /\ \E s \in Snapshots : taking[s] # NotTaken
    /\ taking' = [s \in Snapshots |-> NotTaken]
    /\ recorded' \in Read(recorded, "records", NoRecords) /\ evidence' \in Read(evidence, "write", <<>>)
    /\ UNCHANGED <<provider, installs, offered>>

HistoryNext ==
    \/ \E s \in Snapshots : LoadPreviousRecords(s) \/ CollectRecords(s) \/ LoadHistory(s)
                         \/ WriteHistory(s) \/ WritePreviousRecords(s)
    \/ VersionOffered \/ VersionInstalled \/ UpdateCenterDies

HistorySpec == HistoryInit /\ [][HistoryNext]_historyVars

-----------------------------------------------------------------------------

(* The history tells no version that was not installed and none against the  *)
(* order of time: the version an entry ends with was installed when, or      *)
(* after, the one it begins with was, although snapshots overlap and the     *)
(* slower one overwrites the records of the faster one (snapshot,            *)
(* update_history).                                                          *)
EvidenceGoesForward ==
    \A i \in DOMAIN evidence : \E j, k \in DOMAIN installs :
        j <= k /\ evidence[i].from \in installs[j] /\ evidence[i].to \in installs[k]

(* "instead of inventing a transition" (UPDATE_CENTER_ARCHITECTURE.md): the  *)
(* version an entry begins with was gone when the one it ends with was there.*)
(* Of two branches under one id (flatpak, the old dictionary of              *)
(* update_history) neither ever replaced the other.                          *)
NoTransitionIsInvented ==
    \A i \in DOMAIN evidence : \E j, k \in DOMAIN installs :
        j < k /\ evidence[i].from \in installs[j] \ installs[k] /\ evidence[i].to \in installs[k]
=============================================================================
