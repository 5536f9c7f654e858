----------------------------- MODULE MCNetwork -----------------------------
(* The network services.  The firewall policy, the decisions made from it,  *)
(* the record of connections and Secure DNS are separate processes; what    *)
(* one reads of another (the saved rules, the observed servers) is an input *)
(* of its module.  part says which of them a behaviour is about, and the    *)
(* others stay as they began.                                               *)
EXTENDS NetworkRules, ControlPlane, ConnectionActivity, SecureDns, TLC

CONSTANTS
    lasting, timed, booted, app, t1, t2, h1, h2,
    home, office, dock, site, tunnel, quad9, mullvad

MCPermanent == {lasting}
MCTimed == {timed}
MCBoot == {booted}
MCApplication == {app}
MCReviews == {t1, t2}
MCThreads == {h1, h2}
MCSymmetry == Permutations(MCReviews)

MCUserRules ==
    {[action |-> "allow", process |-> "*", port |-> 0, dns_exception |-> FALSE],
     [action |-> "deny", process |-> "app", port |-> 0, dns_exception |-> FALSE],
     [action |-> "allow", process |-> "app", port |-> 53, dns_exception |-> TRUE]}

MCNetworks == {home, office, dock, site, tunnel}
MCKind == [n \in MCNetworks |-> CASE n = site -> "split" [] n = tunnel -> "vpn" [] OTHER -> "plain"]
MCIfIndex == [n \in MCNetworks |-> CASE n = dock -> 2 [] n = tunnel -> 3 [] OTHER -> 1]
MCProviderOrder == <<quad9, mullvad>>

VARIABLE part

networkingVars == <<part, networkVars, controlVars, activityVars, dnsVars>>

NetworkingInit ==
    /\ part \in {"rules", "control", "activity", "dns"}
    /\ NetworkRulesInit /\ ControlInit /\ ActivityInit /\ SecureDnsInit
    \* The parts that stay as they began are given one of their beginnings.
    /\ part # "rules" => policy_file.rules = NoRules

NetworkingNext ==
    /\ UNCHANGED part
    /\ \/ part = "rules" /\ NetworkRulesNext /\ UNCHANGED <<controlVars, activityVars, dnsVars>>
       \/ part = "control" /\ ControlNext /\ UNCHANGED <<networkVars, activityVars, dnsVars>>
       \/ part = "activity" /\ ActivityNext /\ UNCHANGED <<networkVars, controlVars, dnsVars>>
       \/ part = "dns" /\ SecureDnsNext /\ UNCHANGED <<networkVars, controlVars, activityVars>>

NetworkingSpec == NetworkingInit /\ [][NetworkingNext]_networkingVars

(* ManagedDnsHolds (ControlPlane: select_policy_rule), asked only where the  *)
(* policy it reads can change.                                               *)
DnsPolicyHolds == part = "control" => ManagedDnsHolds
=============================================================================
