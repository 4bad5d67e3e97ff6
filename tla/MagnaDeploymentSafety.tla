------------------------ MODULE MagnaDeploymentSafety ------------------------
(* What a deployment must keep, whatever dies or restarts on the way.       *)
EXTENDS MagnaDeployment

Usable ==
    LET a == manifest.apps IN
    /\ manifest.rights \in chain.rights /\ a \in chain.apps /\ a \in chain.credited /\ a \in chain.funded
    /\ manifest.token \in chain.tokens /\ manifest.portal \in chain.portals \cap chain.certified
    /\ chain.pinned[a] = manifest.portal
    /\ chain.due[a] <= l1
    /\ \A f \in DOMAIN env : env[f] = a

(* A bootstrap that ends well leaves a network that can be used: every      *)
(* contract of the manifest on the chain that runs, the consumer gateways   *)
(* past their delay, the sponsor paid and funded, the issuer pinned to the  *)
(* portal of the manifest, whose registry holds a root that is not revoked, *)
(* and three environment files of that deployment, however many attempts    *)
(* died before (bootstrap-docker-local.mjs, bootstrap-local-apps.mjs,       *)
(* bootstrap-recovery-v3-local.mjs).  The check of an earlier bootstrap     *)
(* looks at L1 only: a network whose L2 alone was lost is outside.          *)
OnlyL2Lost == manifest.net # net /\ manifest.portal \in chain.portals
CompleteIsUsable ==
    [][boot.at # "done" /\ boot'.at = "done" /\ ~OnlyL2Lost => Usable']_vars

(* The services that run were started with one deployment, and it is the    *)
(* one the manifest still names: no later attempt, refused or killed,       *)
(* rewrites part of it under them (assertFreshOutput in v6-operations.mjs,  *)
(* the owner line of fill-env-from-local-deploy.mjs).                       *)
ServicesAgree ==
    services # None =>
        /\ services.page = services.api /\ services.page = services.dapp
        /\ manifest # None /\ manifest.apps = services.page /\ manifest.portal # None

(* The two hours the chain starts behind are enough for a deployment: when  *)
(* the clock is activated L1 is not ahead of the host, so that activation   *)
(* fails only by a fault (docs/local-docker.md, Managed local clock; the    *)
(* target wait-for-inbox.mjs asks for; the gateway warp of                  *)
(* bootstrap-local-apps.mjs).                                               *)
HeadroomSuffices == boot.at = "activate" => l1 <= wall

(* While the clock is live drift does not add up: a checkpoint is ahead of   *)
(* the host by no more than the L1 blocks that came between its pacing      *)
(* check and its build, however many were built so before, when and by whom *)
(* (docs/local-docker.md:228-231; paceLocalCheckpoint, paceLocalWarp and    *)
(* activate in policy.mjs, patch.mjs:23).                                   *)
DriftDoesNotAccumulate == phase = "realtime" => anchor <= wall + Between + 1

(* A smoke test that passes has had its own purchase credited, once: not    *)
(* another's in its place, and not a second time by the replay, which may   *)
(* be included after the test has passed and whose success it would not     *)
(* report (runSmokeL1 in magna-testnet-validate.mjs:1174-1228).             *)
PassedMeansCredited ==
    /\ work.credits <= 1
    /\ work.at = "passed" => work.credits = 1
=============================================================================
