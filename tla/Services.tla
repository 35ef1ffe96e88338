------------------------------ MODULE Services ------------------------------
(***************************************************************************)
(* The services around the pod: Git over HTTP, sign-in, challenge-response    *)
(* ceremonies, key rollover, quota, the ActivityPub inbox, the Nostr relay,   *)
(* legacy notifications, pod provisioning and the quota tracker.  They share  *)
(* no state, so each behaviour explores one of them, its scene, while the     *)
(* others rest.                                                            *)
(***************************************************************************)
EXTENDS GitService, SignIn, Ceremonies, KeyRollover, QuotaStore, Inbox,
        NostrRelay, LegacySession, Provisioning

VARIABLE scene

Scenes == {"git", "sign-in", "ceremonies", "keys", "quota", "inbox", "relay", "legacy", "session", "pods", "tracker"}

vars == <<scene, gitVars, signInVars, ceremonyVars, keyVars, quotaVars,
          inboxVars, relayVars, legacyVars, sessionVars, provisionVars, trackerVars>>

\* A service that is not the scene starts in one of its initial states only.
Init ==
    /\ scene \in Scenes
    /\ GitInit /\ SignInInit /\ CeremonyInit /\ KeyInit
    /\ QuotaInit /\ (scene # "quota" => sidecar = None)
    /\ InboxInit /\ RelayInit
    /\ LegacyInit /\ (scene # "legacy" => serverOrigin = None /\ readable = {})
    /\ SessionInit
    /\ ProvisionInit /\ TrackerInit /\ (scene # "tracker" => trackerQuota = None /\ stock = 0)

OthersRest ==
    /\ IF scene = "git" THEN TRUE ELSE UNCHANGED gitVars
    /\ IF scene = "sign-in" THEN TRUE ELSE UNCHANGED signInVars
    /\ IF scene = "ceremonies" THEN TRUE ELSE UNCHANGED ceremonyVars
    /\ IF scene = "keys" THEN TRUE ELSE UNCHANGED keyVars
    /\ IF scene = "quota" THEN TRUE ELSE UNCHANGED quotaVars
    /\ IF scene = "inbox" THEN TRUE ELSE UNCHANGED inboxVars
    /\ IF scene = "relay" THEN TRUE ELSE UNCHANGED relayVars
    /\ IF scene = "legacy" THEN TRUE ELSE UNCHANGED legacyVars
    /\ IF scene = "session" THEN TRUE ELSE UNCHANGED sessionVars
    /\ IF scene = "pods" THEN TRUE ELSE UNCHANGED provisionVars
    /\ IF scene = "tracker" THEN TRUE ELSE UNCHANGED trackerVars
    /\ UNCHANGED scene

Next ==
    \/ scene = "git" /\ GitNext /\ OthersRest
    \/ scene = "sign-in" /\ SignInNext /\ OthersRest
    \/ scene = "ceremonies" /\ CeremonyNext /\ OthersRest
    \/ scene = "keys" /\ KeyNext /\ OthersRest
    \/ scene = "quota" /\ QuotaNext /\ OthersRest
    \/ scene = "inbox" /\ InboxNext /\ OthersRest
    \/ scene = "relay" /\ RelayNext /\ OthersRest
    \/ scene = "legacy" /\ LegacyNext /\ OthersRest
    \/ scene = "session" /\ SessionNext /\ OthersRest
    \/ scene = "pods" /\ ProvisionNext /\ OthersRest
    \/ scene = "tracker" /\ TrackerNext /\ OthersRest

Spec == Init /\ [][Next]_vars /\ GitFairness
=============================================================================
