---------------------------- MODULE MCPolicyStore ----------------------------
(* Two owners, limits of two so that both tables fill, and an update of the  *)
(* installed code between a review and its commit.                           *)
EXTENDS PolicyStore, TLC

CONSTANTS u1, u2, r1, r2, d1, d2, g1, g2, i1, i2, i3, c1, c2, rpm, flatpak

MCUids == {u1, u2}
MCResourceRefs == {r1, r2}
MCObjects == {d1, d2}
MCGrantRefs == {g1, g2}
MCInstallations == {i1, i2, i3}
MCProviders == {rpm, flatpak}
MCInstallationOwner == (i1 :> u1) @@ (i2 :> u2) @@ (i3 :> u1)
MCInstallationProvider == (i1 :> rpm) @@ (i2 :> rpm) @@ (i3 :> flatpak)
MCGenerations == {c1, c2}

StoreSymmetry ==
    Permutations(MCResourceRefs) \cup Permutations(MCObjects)
      \cup Permutations(MCGrantRefs) \cup Permutations(MCGenerations)
=============================================================================
