------------------------------ MODULE MCSingleUse ------------------------------
(* Small instances of McpOAuth and ProviderToken, two protocols that let one *)
(* thing be used once: a code or a token, and the token of a provider.  They *)
(* share nothing, so a behavior is one of them.                              *)
EXTENDS McpOAuth, ProviderToken, TLC

CONSTANTS k1, k2, k3, r1, w1, w2, c1, c2

VARIABLE scene
vars == <<scene, oauthVars, providerVars>>

Symmetric == Permutations(Calls) \cup Permutations(Renewers)

Init ==
  /\ scene \in {"oauth", "provider"}
  /\ OAuthInit /\ ProviderInit

Next ==
  /\ UNCHANGED scene
  /\ \/ scene = "oauth" /\ OAuthNext /\ UNCHANGED providerVars
     \/ scene = "provider" /\ ProviderNext /\ UNCHANGED oauthVars

Spec == Init /\ [][Next]_vars

(* The variables of the two modules hold values of their types.            *)
TypeOK == OAuthTypeOK /\ ProviderTypeOK
================================================================================
