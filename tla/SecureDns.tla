------------------------------ MODULE SecureDns ------------------------------
(***************************************************************************)
(* Secure DNS (secure_dns_reconciler.py, secure_dns_split.py): one pass     *)
(* over the active link puts encrypted providers into systemd-resolved,     *)
(* either on the link or, on a network with private domains, as a global    *)
(* scope beside a pinned link.  NetworkManager, resolved's reload and a     *)
(* crash come between any two steps; the files under /run remain.           *)
(***************************************************************************)
EXTENDS Naturals, Sequences, SequencesExt

CONSTANTS
    Networks,        \* networks the machine joins
    Kind,            \* of a network: "plain", "split" or "vpn"
    IfIndex,         \* of a network: the interface it is joined on
    ProviderOrder,   \* provider_order
    NoValue

ASSUME SecureDnsConstants ==
    /\ Kind \in [Networks -> {"plain", "split", "vpn"}] /\ IfIndex \in [Networks -> Nat \ {0}]
    /\ Networks \cap ToSet(ProviderOrder) = {} /\ ProviderOrder # <<>>
    /\ NoValue \notin Networks \cup ToSet(ProviderOrder) /\ ProviderOrder \in Seq(ToSet(ProviderOrder))
    /\ {"absent", "reset"} \cap ToSet(ProviderOrder) = {}

VARIABLES
    desired,     \* desired_policy of the policy file
    link,        \* the active link: network, DNS servers, whether an override is
                 \* whole (servers, DNS over TLS and DNSSEC), pinned for split DNS
    journal,     \* link.json: the DNS servers of a link before the override
    private,     \* private-link.json: the link pinned for split DNS
    config,      \* the drop-in of resolved: absent, reset or a provider
    scope,       \* resolved's global scope
    hup,         \* a SIGHUP resolved has not yet handled
    pass,        \* the pass: its step, where it returns, interface, provider
    shown        \* effective_policy of the state file

dnsVars == <<desired, link, journal, private, config, scope, hup, pass, shown>>

-----------------------------------------------------------------------------

Providers == ToSet(ProviderOrder)
MODES == {"Automatic", "Privacy", "NetworkDefault"}
Joined(n) == [net |-> n, dns |-> n, whole |-> FALSE, pinned |-> FALSE]
IfOf(n) == IF n = NoValue THEN 0 ELSE IfIndex[n]
Idle == [at |-> "idle", back |-> "idle", ifindex |-> 0, try |-> 0]

\* _managed_provider: a half applied override is not recognised.
Managed == link.dns \in Providers /\ link.whole

SecureDnsTypeOK ==
    /\ desired \in MODES
    /\ link \in [net : Networks \cup {NoValue}, dns : Networks \cup Providers \cup {NoValue}, whole : BOOLEAN, pinned : BOOLEAN]
    /\ journal \in [dns : Networks \cup Providers \cup {NoValue}, ifindex : Nat]
    /\ private \in Networks \cup {NoValue}
    /\ config \in Providers \cup {"absent", "reset"} /\ scope \in Providers \cup {NoValue}
    /\ hup \in BOOLEAN
    /\ pass.at \in {"idle", "resetting", "unpin", "forget", "link", "try", "split", "pin", "configure", "probe", "stop"}
    /\ pass.try \in 0 .. Len(ProviderOrder)
    /\ shown \in {"Disconnected", "VPNOwned", "SecureProvider", "Unavailable", "NetworkDefault"}

NotJournaled == [dns |-> NoValue, ifindex |-> 0]

SecureDnsInit ==
    /\ desired = "Automatic" /\ link = Joined(NoValue) /\ journal = NotJournaled /\ private = NoValue
    /\ config = "absent" /\ scope = NoValue /\ hup = FALSE /\ pass = Idle /\ shown = "Disconnected"

-----------------------------------------------------------------------------
(* The surroundings.                                                        *)

\* NetworkManager joins or leaves a network and pushes its servers.
NetworkChanges ==
    /\ \E n \in Networks \cup {NoValue} : n # link.net /\ link' = Joined(n)
    /\ UNCHANGED <<desired, journal, private, config, scope, hup, pass, shown>>

\* A reload leaves what the file does not mention as it was.
ResolvedReloads ==
    /\ hup /\ hup' = FALSE
    /\ scope' = IF config \in Providers THEN config ELSE IF config = "reset" THEN NoValue ELSE scope
    /\ UNCHANGED <<desired, link, journal, private, config, pass, shown>>

ServiceCrashes ==
    /\ pass # Idle /\ pass' = Idle
    /\ UNCHANGED <<desired, link, journal, private, config, scope, hup, shown>>

SetMode ==
    /\ pass = Idle
    /\ \E mode \in MODES : mode # desired /\ desired' = mode
    /\ UNCHANGED <<link, journal, private, config, scope, hup, pass, shown>>

Report(policy) == pass' = Idle /\ shown' = policy

\* An exception anywhere in the pass: refresh reports Unavailable.  The link
\* a pass works on may have gone.
PassFails ==
    /\ pass.at \in {"resetting", "unpin", "link", "split", "pin", "configure", "probe"}
    /\ Report("Unavailable")
    /\ UNCHANGED <<desired, link, journal, private, config, scope, hup>>

-----------------------------------------------------------------------------
(* secure_dns_split.restore, and the beginning of a pass.                   *)

SplitEligible == link.net # NoValue /\ Kind[link.net] = "split" /\ ~Managed

\* restore: a scope of ours is emptied first.
StartRestore(back) ==
    /\ pass' = [at |-> IF config = "absent" THEN "unpin" ELSE "resetting", back |-> back, ifindex |-> IfOf(link.net), try |-> 0]
    /\ IF config = "absent" THEN UNCHANGED <<config, hup>> ELSE config' = "reset" /\ hup' = TRUE

\* _state, from the 30 second timer, a D-Bus signal or a method.
BeginPass ==
    /\ pass = Idle
    /\ IF desired # "NetworkDefault" /\ SplitEligible
       THEN pass' = [Idle EXCEPT !.at = "split", !.ifindex = IfOf(link.net)] /\ UNCHANGED <<config, hup>>
       ELSE StartRestore("link")
    /\ UNCHANGED <<desired, link, journal, private, scope, shown>>

\* --restore, when the unit stops.
RestoreRuntime ==
    /\ pass = Idle /\ StartRestore("stop")
    /\ UNCHANGED <<desired, link, journal, private, scope, shown>>

\* Fault: the empty scope is not waited for.
RemovalNotAwaited == TRUE

\* The removal was observed before the deadline.
RemovalObserved == scope = NoValue

RemoveConfig ==
    /\ pass.at = "resetting" /\ RemovalObserved
    /\ config' = "absent" /\ hup' = TRUE
    /\ pass' = [pass EXCEPT !.at = "unpin"]
    /\ UNCHANGED <<desired, link, journal, private, scope, shown>>

\* A link that is still the one pinned gets its settings back.
Unpin ==
    /\ pass.at = "unpin"
    /\ link' = IF private # NoValue /\ private = link.net THEN [link EXCEPT !.pinned = FALSE] ELSE link
    /\ pass' = [pass EXCEPT !.at = "forget"]
    /\ UNCHANGED <<desired, journal, private, config, scope, hup, shown>>

ForgetPrivate ==
    /\ pass.at = "forget"
    /\ private' = NoValue
    /\ pass' = [pass EXCEPT !.at = pass.back]
    /\ UNCHANGED <<desired, link, journal, config, scope, hup, shown>>

-----------------------------------------------------------------------------
(* The link of an ordinary network.                                         *)

Servers(dns) == [link EXCEPT !.dns = dns, !.whole = FALSE]

Here == link.net # NoValue /\ IfOf(link.net) = pass.ifindex

\* _restore_link: only over an override of ours, on the interface journaled.
Restorable == journal # NotJournaled /\ journal.ifindex = IfOf(link.net) /\ Managed

\* NetworkDefault: the journaled servers, or Revert.
LinkToNetwork ==
    /\ pass.at = "link" /\ Here /\ Kind[link.net] # "vpn" /\ desired = "NetworkDefault"
    /\ link' = IF Restorable THEN Servers(journal.dns) ELSE IF Managed THEN Servers(NoValue) ELSE link
    /\ journal' = IF Managed THEN NotJournaled ELSE journal
    /\ Report("NetworkDefault")
    /\ UNCHANGED <<desired, private, config, scope, hup>>

\* The link is no concern of ours.
LinkLeftAlone ==
    /\ pass.at = "link"
    /\ \/ pass.ifindex = 0 /\ Report("Disconnected")
       \/ Here /\ Kind[link.net] = "vpn" /\ Report("VPNOwned")
       \/ Here /\ Kind[link.net] = "split" /\ desired # "NetworkDefault" /\ Report("Unavailable")
    /\ UNCHANGED <<desired, link, journal, private, config, scope, hup>>

\* The servers of the link are written down, unless some already are.
JournalBefore ==
    journal' = IF ~Managed /\ journal = NotJournaled
               THEN [dns |-> link.dns, ifindex |-> pass.ifindex] ELSE journal

JournalLink ==
    /\ pass.at = "link" /\ Here /\ Kind[link.net] = "plain" /\ desired # "NetworkDefault"
    /\ JournalBefore
    /\ pass' = [pass EXCEPT !.at = "try"]
    /\ UNCHANGED <<desired, link, private, config, scope, hup, shown>>

\* One candidate: applied and probed, or an error of resolved, perhaps
\* after some of the three settings.
TryProvider ==
    LET key == ProviderOrder[pass.try + 1] IN
    /\ pass.at = "try" /\ pass.try < Len(ProviderOrder)
    /\ \/ /\ Here /\ link' = [link EXCEPT !.dns = key, !.whole = TRUE]
          /\ Report("SecureProvider")
       \/ /\ \/ Here /\ \E whole \in BOOLEAN : link' = [link EXCEPT !.dns = key, !.whole = whole]
             \/ UNCHANGED link
          /\ pass' = [pass EXCEPT !.try = @ + 1] /\ UNCHANGED shown
    /\ UNCHANGED <<desired, journal, private, config, scope, hup>>

\* Nothing answered.  _restore_link of a vanished interface is an exception,
\* which also skips the Revert of the current one.
NoProvider ==
    LET gone == journal # NotJournaled /\ journal.ifindex # IfOf(link.net) IN
    /\ pass.at = "try" /\ pass.try = Len(ProviderOrder)
    /\ IF desired = "Automatic" /\ Here /\ ~gone /\ Managed
       THEN /\ link' = Servers(IF Restorable THEN journal.dns ELSE NoValue)
            /\ journal' = NotJournaled
       ELSE UNCHANGED <<link, journal>>
    /\ Report("Unavailable")
    /\ UNCHANGED <<desired, private, config, scope, hup>>

\* restore_runtime after the split part.
StopRestores ==
    /\ pass.at = "stop"
    /\ IF Restorable THEN link' = Servers(journal.dns) /\ journal' = NotJournaled
       ELSE UNCHANGED <<link, journal>>
    /\ pass' = Idle
    /\ UNCHANGED <<desired, private, config, scope, hup, shown>>

-----------------------------------------------------------------------------
(* secure_dns_split.reconcile.                                              *)

\* An interrupted removal, or a journal of another link, is cleaned up first.
SplitRestores ==
    /\ pass.at = "split" /\ Here
    /\ config = "reset" \/ (private # NoValue /\ private # link.net)
    /\ StartRestore("split")
    /\ UNCHANGED <<desired, link, journal, private, scope, shown>>

SplitJournals ==
    /\ pass.at = "split" /\ Here
    /\ config # "reset" /\ private \in {NoValue, link.net}
    /\ private' = link.net
    /\ pass' = [pass EXCEPT !.at = "pin"]
    /\ UNCHANGED <<desired, link, journal, config, scope, hup, shown>>

\* The snapshot in hand is the one just read; the link may have moved.
SplitPins ==
    /\ pass.at = "pin" /\ Here
    /\ link' = [link EXCEPT !.pinned = TRUE]
    /\ pass' = [pass EXCEPT !.at = "configure"]
    /\ UNCHANGED <<desired, journal, private, config, scope, hup, shown>>

SplitConfigures ==
    LET key == ProviderOrder[pass.try + 1] IN
    /\ pass.at = "configure"
    /\ IF config = key /\ scope = key THEN UNCHANGED <<config, hup>> ELSE config' = key /\ hup' = TRUE
    /\ pass' = [pass EXCEPT !.at = "probe"]
    /\ UNCHANGED <<desired, link, journal, private, scope, shown>>

\* The reload was observed and the provider probed; a failure keeps the scope.
SplitProbes ==
    LET key == ProviderOrder[pass.try + 1] IN
    /\ pass.at = "probe" /\ scope = key
    /\ \/ link.net = private /\ link.pinned /\ Report("SecureProvider")
       \/ IF pass.try + 1 < Len(ProviderOrder)
          THEN pass' = [pass EXCEPT !.at = "configure", !.try = @ + 1] /\ UNCHANGED shown
          ELSE Report("Unavailable")
    /\ UNCHANGED <<desired, link, journal, private, config, scope, hup>>

SecureDnsNext ==
    \/ NetworkChanges \/ ResolvedReloads \/ ServiceCrashes \/ SetMode \/ PassFails
    \/ BeginPass \/ RestoreRuntime \/ RemoveConfig \/ Unpin \/ ForgetPrivate
    \/ LinkToNetwork \/ LinkLeftAlone \/ JournalLink \/ TryProvider \/ NoProvider \/ StopRestores
    \/ SplitRestores \/ SplitJournals \/ SplitPins \/ SplitConfigures \/ SplitProbes

SecureDnsSpec == SecureDnsInit /\ [][SecureDnsNext]_dnsVars

-----------------------------------------------------------------------------

(* Wherever a pass was interrupted: the global scope has the drop-in that    *)
(* says how to empty it, and the journal never takes servers of GREYWARD's   *)
(* own, half applied perhaps, for those a link had before, which a restore   *)
(* would make lasting (restore, lines 307-309 of _state).  The journal is    *)
(* one file: it may be of another interface than the one overridden now.     *)
NoOrphanScope ==
    /\ scope # NoValue => config # "absent"
    /\ journal.dns \notin Providers

(* "Network Default uses the active NetworkManager/VPN DNS": a pass that     *)
(* reports Network Default leaves the link with the servers of the network   *)
(* it is on, or none (_state, lines 296-306).                                *)
NetworkDefaultIsTheNetworks ==
    [][LinkToNetwork => link'.dns \in {link.net, NoValue}]_dnsVars
=============================================================================
