---------------------------- MODULE ControlPlane ----------------------------
(***************************************************************************)
(* The OpenSnitch control plane (control_plane.py, matches of               *)
(* network_rules.py, feodo.py): the daemon asks AskRule for every           *)
(* connection, and the decision is made from                                *)
(* the saved policy, the threat feed and what the resolver observes.        *)
(***************************************************************************)
EXTENDS Naturals, Sequences, FiniteSets, FiniteSetsExt, SequencesExt

CONSTANTS
    UserRules,     \* rules a user may save
    MaxPolicies    \* bound on the revisions

\* A rule: action, process ("app" or "*"), port (0 is any), dns_exception.
ASSUME ControlPlaneConstants ==
    \A r \in UserRules : r.dns_exception => r.action = "allow" /\ r.process # "*" /\ r.port \in {53, 853}

VARIABLES
    saved, copy,   \* the policy file and its .last-good.json copy
    readable,      \* the policy file, its copy: readable or not
    engine,        \* PolicyStore.last_good of the engine
    feed           \* the Feodo snapshot: its state and whether it lists "c2"

controlVars == <<saved, copy, readable, engine, feed>>

-----------------------------------------------------------------------------

DNS_POLICY_PORTS == {53, 853}
Connections == [process : {"app", "systemd-resolved"}, port : {53, 853, 443},
                to : {"stub", "provider", "site", "c2", "other"}]

\* What resolved and NetworkManager show at the moment of a decision: the
\* site's server belongs to a VPN, a private scope or an explicit opt-out.
Facts == SUBSET {"vpn", "private", "NetworkDefault"}

\* A policy: application rules in order, threat_intel.enabled, and whether the
\* application has a threat exception for "c2".
Defaults == [revision |-> 1, rules |-> <<>>, enabled |-> TRUE, exempt |-> FALSE]
Unloaded == [Defaults EXCEPT !.revision = 0]

ControlTypeOK ==
    /\ \A policy \in {saved, copy, engine} :
         /\ policy.revision \in Nat /\ policy.rules \in Seq(UserRules)
         /\ policy.enabled \in BOOLEAN /\ policy.exempt \in BOOLEAN
    /\ readable \in [file : BOOLEAN, copy : BOOLEAN]
    /\ feed \in [state : {"INITIALIZING", "READY", "EMPTY", "STALE", "ERROR"}, listed : BOOLEAN]

ControlInit ==
    /\ saved = Defaults /\ copy = Defaults /\ engine = Unloaded
    /\ readable = [file |-> TRUE, copy |-> TRUE]
    /\ feed = [state |-> "INITIALIZING", listed |-> FALSE]

-----------------------------------------------------------------------------
(* The decision.                                                            *)

\* matches.
Matches(rule, c) == rule.process \in {"*", c.process} /\ rule.port \in {0, c.port}

\* Fault: any allow rule opens the DNS ports.
AppliesToDns(rule, c) == Matches(rule, c)

\* A generic allow says nothing about the managed DNS ports.
Applies(rule, c) ==
    Matches(rule, c) /\ ~(c.port \in DNS_POLICY_PORTS /\ rule.action = "allow" /\ ~rule.dns_exception)

\* PolicyStore.read: the file, what is in memory, the copy, or nothing.
Read ==
    IF readable.file THEN saved
    ELSE IF engine # Unloaded THEN engine
    ELSE IF readable.copy THEN copy
    ELSE Unloaded

\* load_policy: without a policy the defaults, and deny.
Loaded ==
    [default |-> IF Read = Unloaded THEN "deny" ELSE "allow",
     rules |-> Read.rules, enabled |-> Read.enabled, exempt |-> Read.exempt]

\* Tiers 1 and 2, and matching_indicator: an exact address and port, unless the
\* loaded policy has an exception for this application, address and port.
Threat(policy, c) ==
    /\ policy.enabled /\ feed.listed
    /\ c.to = "c2" /\ c.port = 443
    /\ ~(policy.exempt /\ c.process = "app")

\* The managed DNS part of select_policy_rule.
ManagedDns(c, facts) ==
    \/ c.port = 53 /\ c.to = "stub"
    \/ /\ c.process = "systemd-resolved"
       /\ \/ c.port = 853 /\ c.to = "provider"
          \/ c.port = 53 /\ c.to = "site" /\ "vpn" \in facts
          \/ c.to = "site" /\ facts \cap {"private", "NetworkDefault"} # {}

\* select_policy_rule, with the policy load_policy gave it.
Decision(policy, c, facts) ==
    LET applying_rules == {i \in DOMAIN policy.rules : Applies(policy.rules[i], c)}
    IN IF Threat(policy, c) THEN "deny"
       ELSE IF applying_rules # {} THEN policy.rules[Min(applying_rules)].action
       ELSE IF c.port \in DNS_POLICY_PORTS THEN (IF ManagedDns(c, facts) THEN "allow" ELSE "deny")
       ELSE policy.default

-----------------------------------------------------------------------------
(* Policy, feed and engine.                                                 *)

\* The policy service saves a reviewed change of the policy it reads; the last
\* replacement, of the copy, may fail.
PolicySaved ==
    \E before \in {saved, copy} :
      LET After(rules, enabled, exempt) ==
              [revision |-> before.revision + 1, rules |-> rules, enabled |-> enabled, exempt |-> exempt]
          Edited(rules) == After(rules, before.enabled, before.exempt)
      IN /\ before.revision < MaxPolicies
         /\ before = saved \/ ~readable.file
         /\ \/ \E rule \in UserRules : Len(before.rules) < 2 /\ saved' = Edited(Append(before.rules, rule))
            \/ before.rules # <<>> /\ saved' \in {Edited(Tail(before.rules)), Edited(Reverse(before.rules))}
            \/ saved' \in {After(before.rules, ~before.enabled, before.exempt), After(before.rules, before.enabled, ~before.exempt)}
         /\ copy' \in {saved', before}
         /\ readable' = [file |-> TRUE, copy |-> TRUE]
         /\ UNCHANGED <<engine, feed>>

FileLost ==
    /\ readable' \in {[readable EXCEPT !.file = FALSE], [readable EXCEPT !.copy = FALSE]}
    /\ UNCHANGED <<saved, copy, engine, feed>>

\* Every decision and every snapshot reads the policy.
EngineReads ==
    /\ engine' = Read
    /\ UNCHANGED <<saved, copy, readable, feed>>

EngineRestarts ==
    /\ engine' = Unloaded
    /\ UNCHANGED <<saved, copy, readable, feed>>

\* update_feed: a failure keeps the last indicators.
FeedUpdated ==
    /\ \/ \E listed \in BOOLEAN : feed' = [state |-> IF listed THEN "READY" ELSE "EMPTY", listed |-> listed]
       \/ feed' = [feed EXCEPT !.state = IF feed.state \in {"READY", "EMPTY", "STALE"} THEN "STALE" ELSE "ERROR"]
    /\ UNCHANGED <<saved, copy, readable, engine>>

ControlNext ==
    \/ PolicySaved \/ FileLost \/ EngineReads \/ EngineRestarts \/ FeedUpdated

ControlSpec == ControlInit /\ [][ControlNext]_controlVars

-----------------------------------------------------------------------------

(* Whatever rules the user saved, in whatever order, and whichever copy of   *)
(* the policy is read: DNS leaves the machine only from systemd-resolved to  *)
(* a managed or presently observed server, or by an exception made for DNS;  *)
(* and while that policy has the protection on, a listed destination is      *)
(* reached only by the application it exempts (select_policy_rule).          *)
ManagedDnsHolds ==
    LET policy == Loaded IN
    \A facts \in Facts, c \in Connections :
        Decision(policy, c, facts) = "allow" =>
            /\ c.port \in DNS_POLICY_PORTS =>
                 \/ c.to = "stub"
                 \/ c.process = "systemd-resolved" /\ (c.to = "provider" \/ (c.to = "site" /\ facts # {}))
                 \/ \E rule \in ToSet(policy.rules) : rule.dns_exception /\ Matches(rule, c)
            /\ c.to = "c2" /\ c.port = 443 /\ feed.listed /\ policy.enabled =>
                 policy.exempt /\ c.process = "app"
=============================================================================
