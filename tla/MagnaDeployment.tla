--------------------------- MODULE MagnaDeployment ---------------------------
(* The scripts that put a Magna network up: the Docker bootstrap over its   *)
(* wrapper, the worker that deploys rights, issuer, sponsor and consumers,  *)
(* the recovery bootstrap and the service entry points.  They work over a   *)
(* chain that is kept in memory and over files that outlive it, and any of  *)
(* them may die between two steps.  A stack is named by the attempt that    *)
(* deployed it; the clock they run on is MagnaLocalClock's.                 *)
EXTENDS MagnaLocalClock

CONSTANTS
    None,
    Delay,    \* the activation delay of a consumer gateway: 3600 seconds
    MaxRuns,  \* bound: bootstraps of a behaviour
    MaxNets,  \* bound: L2 networks of a behaviour
    MaxCredit \* bound: rights that others leave the sponsor with
ASSUME DeploymentAssumption ==
    /\ {Delay, MaxRuns, MaxNets, MaxCredit} \subseteq Nat /\ None \notin Nat
    /\ None \notin [rights : Nat, apps : Nat \cup {None}, portal : Nat \cup {None},
                    net : Nat, token : Nat]

VARIABLES
    chain,    \* what is deployed on the chains that run now
    net,      \* which L2 network runs now: its rollup on L1
    manifest, \* deployments/local-v6.json
    env,      \* the environment files of the page, the dApp and the API
    marker,   \* bootstrap-complete.json: the manifest it was written for
    boot,     \* the bootstrap process: where it is, its attempt, its Inbox claim,
              \* the L1 token it pays with and whether it is at its last outputs
    services, \* what the services were started with, None while they are down
    work      \* a smoke test of the rights stack (the balance it found, how often
              \* its message was credited, whether a claim of it waits to be
              \* included), or the page funding a wallet
stack == <<chain, net, manifest, env, marker, boot, services>>
vars == <<clockVars, stack, work>>

Run == 1 .. MaxRuns
Empty == [rights |-> {}, apps |-> {}, tokens |-> {}, portals |-> {}, certified |-> {},
          credited |-> {}, funded |-> {}, pinned |-> [a \in Run |-> None], due |-> [a \in Run |-> 0], credit |-> 0]
NoFiles == [page |-> None, dapp |-> None, api |-> None]
Rest == [at |-> "off", before |-> 0, claim |-> 0, credits |-> 0, sent |-> FALSE]

DeploymentInit ==
    /\ ClockInit /\ chain = Empty /\ net = 1 /\ manifest = None /\ env = NoFiles
    /\ marker = None /\ services = None /\ work = Rest
    /\ boot = [at |-> "off", run |-> 0, claim |-> 0, token |-> None, final |-> FALSE]

Me == boot.run
GoTo(stage) == boot' = [boot EXCEPT !.at = stage]
Stop == GoTo("off") /\ UNCHANGED clockVars
Files == <<manifest, env, marker>>
Outside == <<net, services, work>>

Settled == boot.at \in {"off", "done"}
(* compose up: services wait for the bootstrap to end well; it is run again *)
(* under services that are up when an image is rebuilt.                     *)
Begin ==
    /\ Settled /\ Me < MaxRuns /\ phase # "down"
    /\ boot' = [at |-> "check", run |-> Me + 1, claim |-> 0, token |-> None, final |-> FALSE]
    /\ UNCHANGED <<clockVars, chain, Files, Outside>>

ByItsFiles == manifest # None /\ marker = manifest /\ \A f \in DOMAIN env : env[f] # None
(* An earlier bootstrap is complete when every file is there, the marker is *)
(* of this manifest and the portal has code on L1.                          *)
Existing ==
    /\ manifest # None /\ marker = manifest /\ \A f \in DOMAIN env : env[f] # None
    /\ manifest.portal \in chain.portals
Judge ==
    /\ boot.at = "check" /\ \E reachable \in BOOLEAN : GoTo(IF Existing /\ reachable THEN "reuse" ELSE "wrapper")
    /\ UNCHANGED <<clockVars, chain, Files, Outside>>
Reuse ==
    /\ boot.at = "reuse" /\ \E f \in Faults : Activate(f)
    /\ GoTo(IF phase' = "realtime" THEN "done" ELSE "off")
    /\ UNCHANGED <<chain, Files, Outside>>

Overwrites == TRUE
(* The wrapper and the worker refuse to write over an environment file, and *)
(* the worker waits for its node.                                           *)
Fresh == env.page = None /\ env.dapp = None
Wrapper ==
    /\ boot.at = "wrapper" /\ GoTo(IF Fresh THEN "worker" ELSE "off")
    /\ UNCHANGED <<clockVars, chain, Files, Outside>>
WorkerBegins ==
    /\ boot.at = "worker"
    /\ \E ready \in BOOLEAN : GoTo(IF Fresh /\ ready THEN "token" ELSE "off")
    /\ UNCHANGED <<clockVars, chain, Files, Outside>>
(* The L1 token of the last manifest is used again when it answers on this  *)
(* chain; otherwise a new one is deployed.                                  *)
TokenAnswers == manifest # None /\ manifest.token \in chain.tokens
PaymentToken ==
    /\ boot.at = "token"
    /\ IF TokenAnswers
       THEN boot' = [boot EXCEPT !.at = "rights", !.token = manifest.token] /\ UNCHANGED <<clockVars, chain>>
       ELSE /\ L1Block /\ chain' = [chain EXCEPT !.tokens = @ \cup {Me}]
            /\ boot' = [boot EXCEPT !.at = "rights", !.token = Me]
    /\ UNCHANGED <<Files, Outside>>

(* magna-testnet-validate deploy: its preflight, then portal, registry,     *)
(* token and adapter, the whole manifest, and then its validation, whose    *)
(* failure comes too late to stop the bootstrap: it goes on with any        *)
(* manifest that has a rights stack.                                        *)
Preflight ==
    /\ boot.at = "rights" /\ boot.token \in chain.tokens /\ GoTo("deploy")
    /\ UNCHANGED <<clockVars, chain, Files, Outside>>
NewManifest == [rights |-> Me, apps |-> None, portal |-> None, net |-> net, token |-> boot.token]
HasRightsStack == manifest # None
DeployRights ==
    /\ boot.at = "deploy" /\ Checkpoint
    /\ chain' = [chain EXCEPT !.rights = @ \cup {Me}]
    /\ manifest' = NewManifest /\ GoTo("apps")
    /\ UNCHANGED <<env, marker, Outside>>
RightsFail ==
    /\ boot.at \in {"rights", "deploy"} /\ GoTo(IF HasRightsStack THEN "apps" ELSE "off")
    /\ UNCHANGED <<clockVars, chain, Files, Outside>>

(* Issuer, sponsor and consumers, and the calls that wire them: the         *)
(* consumer gateways are due a delay later.                                 *)
DeployApps ==
    /\ boot.at = "apps" /\ Checkpoint
    /\ chain' = [chain EXCEPT !.apps = @ \cup {Me}, !.due = [@ EXCEPT ![Me] = anchor' + Delay]]
    /\ GoTo("manifest") /\ UNCHANGED <<Files, Outside>>

(* syncAppBootstrapOutputs, at the checkpoint and at the end: the manifest, *)
(* then each frontend file, which only its own deployment may refresh.      *)
WriteManifest ==
    /\ boot.at = "manifest" /\ manifest' = [manifest EXCEPT !.apps = Me] /\ GoTo("page")
    /\ UNCHANGED <<clockVars, chain, env, marker, Outside>>
Owned(f) == env[f] \in {None, manifest.apps}
WriteEnv(f, next) ==
    /\ boot.at = f
    /\ IF Owned(f) THEN env' = [env EXCEPT ![f] = manifest.apps] /\ GoTo(next)
       ELSE UNCHANGED env /\ GoTo("off")
    /\ UNCHANGED <<clockVars, chain, manifest, marker, Outside>>
AfterOutputs == IF boot.final THEN "completed" ELSE "warp"

(* The hour the gateways need is taken out of the headroom. *)
WarpPastDelay ==
    /\ boot.at = "warp"
    /\ LET t == l1 + Delay + 1 IN
         IF t > wall THEN Stop
         ELSE MineAt(t) /\ GoTo("seed") /\ UNCHANGED <<wall, anchor, phase, genesis, marked, paced>>
    /\ UNCHANGED <<chain, Files, Outside>>
(* Nudges, minted tokens, the payment and the first rights. *)
Seed ==
    /\ boot.at = "seed"
    /\ IF manifest.rights \in chain.rights
       THEN Checkpoint /\ chain' = [chain EXCEPT !.credited = @ \cup {Me}] /\ GoTo("bridge")
       ELSE Stop /\ UNCHANGED chain
    /\ UNCHANGED <<Files, Outside>>
Bridge ==
    /\ boot.at = "bridge" /\ L1Block
    /\ boot' = [boot EXCEPT !.at = "inbox", !.claim = l1'] /\ UNCHANGED <<chain, Files, Outside>>
Committed == anchor > boot.claim
WaitForInbox ==
    /\ boot.at = "inbox" /\ ~Committed /\ AdvanceInbox
    /\ UNCHANGED <<stack, work>>
ClaimJuice ==
    /\ boot.at = "inbox" /\ Committed /\ Checkpoint
    /\ chain' = [chain EXCEPT !.funded = @ \cup {Me}]
    /\ boot' = [boot EXCEPT !.at = "manifest", !.final = TRUE] /\ UNCHANGED <<Files, Outside>>

(* The worker says it completed; should its teardown crash, the wrapper     *)
(* looks at the files instead of the exit code.                             *)
OutputsComplete == manifest # None /\ manifest.apps # None /\ env.page = manifest.apps /\ env.dapp # None
WorkerExits ==
    /\ boot.at = "completed"
    /\ \E clean \in BOOLEAN : GoTo(IF clean \/ OutputsComplete THEN "identity" ELSE "off")
    /\ UNCHANGED <<clockVars, chain, Files, Outside>>

(* bootstrap-recovery-v3-local: the manifest must be of the network that    *)
(* runs and the official roots not revoked. Registries go to L1 with those  *)
(* roots, the certificate root is revoked and restored as an exercise, the  *)
(* verifier and the portal follow, the issuer pins the portal once and for  *)
(* all, and the manifest is written last.                                   *)
ReadRoots ==
    /\ boot.at = "identity"
    /\ \E revoked \in BOOLEAN : GoTo(IF manifest.net = net /\ ~revoked THEN "seed roots" ELSE "off")
    /\ UNCHANGED <<clockVars, chain, Files, Outside>>
SeedRoots ==
    /\ boot.at = "seed roots" /\ L1Block /\ GoTo("revoke")
    /\ chain' = [chain EXCEPT !.certified = @ \cup {Me}] /\ UNCHANGED <<Files, Outside>>
TryRevocation ==
    /\ boot.at = "revoke" /\ L1Block /\ GoTo("restore")
    /\ chain' = [chain EXCEPT !.certified = @ \ {Me}] /\ UNCHANGED <<Files, Outside>>
RestoreRoot ==
    /\ boot.at = "restore" /\ L1Block /\ GoTo("deploy portal")
    /\ chain' = [chain EXCEPT !.certified = @ \cup {Me}] /\ UNCHANGED <<Files, Outside>>
DeployPortal ==
    /\ boot.at = "deploy portal" /\ L1Block /\ GoTo("pin")
    /\ chain' = [chain EXCEPT !.portals = @ \cup {Me}] /\ UNCHANGED <<Files, Outside>>
PinPortal ==
    /\ boot.at = "pin"
    /\ IF chain.pinned[manifest.apps] = None
       THEN Checkpoint /\ chain' = [chain EXCEPT !.pinned[manifest.apps] = Me] /\ GoTo("portal")
       ELSE Stop /\ UNCHANGED chain
    /\ UNCHANGED <<Files, Outside>>
WritePortal ==
    /\ boot.at = "portal" /\ manifest' = [manifest EXCEPT !.portal = Me] /\ GoTo("api")
    /\ UNCHANGED <<clockVars, chain, env, marker, Outside>>

WriteApiEnv ==
    /\ boot.at = "api" /\ env' = [env EXCEPT !.api = manifest.apps] /\ GoTo("activate")
    /\ UNCHANGED <<clockVars, chain, manifest, marker, Outside>>
ActivateClock ==
    /\ boot.at = "activate" /\ \E f \in Faults : Activate(f)
    /\ GoTo(IF phase' = "realtime" THEN "marker" ELSE "off")
    /\ UNCHANGED <<chain, Files, Outside>>
WriteMarker ==
    /\ boot.at = "marker" /\ marker' = manifest /\ GoTo("done")
    /\ UNCHANGED <<clockVars, chain, manifest, env, Outside>>

(* A container is killed, or a step fails three times. *)
BootstrapDies ==
    /\ ~Settled /\ Stop
    /\ UNCHANGED <<chain, Files, Outside>>

(* A service copies its file and starts once the bootstrap has ended well,  *)
(* or by docker:local:resume without it; it wants the marker and its file.  *)
StartServices ==
    /\ Settled /\ services = None /\ phase # "down"
    /\ marker # None /\ \A f \in DOMAIN env : env[f] # None
    /\ services' = [page |-> env.page, dapp |-> env.dapp, api |-> env.api]
    /\ UNCHANGED <<clockVars, chain, net, Files, boot, work>>
StopServices ==
    /\ services # None /\ services' = None
    /\ UNCHANGED <<clockVars, chain, net, Files, boot, work>>

(* The node, or Anvil and the node, are restarted under files that stay.    *)
Interrupted == services' = None /\ boot' = [boot EXCEPT !.at = "off"] /\ work' = Rest
RestartNode ==
    /\ net < MaxNets /\ net' = net + 1 /\ Interrupted
    /\ \E f \in Faults : NodeStarts(f)
    /\ chain' = [Empty EXCEPT !.tokens = chain.tokens, !.portals = chain.portals,
                             !.certified = chain.certified] /\ UNCHANGED Files
RestartChain ==
    /\ net < MaxNets /\ net' = net + 1 /\ Interrupted /\ ChainStarts
    /\ chain' = Empty /\ UNCHANGED Files
(* docker:local: the volumes go with the chain, but only once the new image *)
(* has been built and loaded; --build-only stops before that.               *)
FreshStart(loaded, buildOnly) ==
    /\ net < MaxNets
    /\ IF loaded /\ ~buildOnly
       THEN /\ net' = net + 1 /\ Interrupted /\ ChainStarts
            /\ chain' = Empty /\ manifest' = None /\ env' = NoFiles /\ marker' = None
       ELSE UNCHANGED vars

(* magna-testnet-validate against the manifest: what it names must be       *)
(* deployed and wired on the network that answers.                          *)
ManifestValid == manifest # None /\ manifest.net = net /\ manifest.rights \in chain.rights
Unoccupied == Settled /\ phase # "down" /\ work.at \in {"off", "passed", "failed"}
Validate ==
    /\ Unoccupied /\ work' = [Rest EXCEPT !.at = IF ManifestValid THEN "valid" ELSE "failed", !.before = chain.credit]
    /\ UNCHANGED <<clockVars, stack>>
(* smoke-l1 pays in one L1 block and reads the first purchase of that block;*)
(* another buyer's does not match the Inbox message and ends the test.      *)
SmokeBuy ==
    /\ work.at = "valid" /\ L1Block
    /\ \E own \in BOOLEAN : work' = [work EXCEPT !.at = IF own THEN "bought" ELSE "failed", !.claim = l1']
    /\ UNCHANGED stack
MessageReady == anchor > work.claim
SendClaim ==
    /\ work.at = "bought" /\ MessageReady
    /\ work' = [work EXCEPT !.at = "claiming", !.sent = TRUE] /\ UNCHANGED <<clockVars, stack>>

Credit(by) == chain' = [chain EXCEPT !.credit = @ + by]
(* The call spends the nullifier of the Inbox message it credits.           *)
Unspent == work.credits = 0
IncludeClaim ==
    /\ work.sent /\ Checkpoint
    /\ IF Unspent THEN Credit(1) /\ work' = [work EXCEPT !.sent = FALSE, !.credits = @ + 1]
       ELSE UNCHANGED chain /\ work' = [work EXCEPT !.sent = FALSE]
    /\ UNCHANGED <<net, Files, boot, services>>
Unawaited == TRUE
Included == ~work.sent
ClaimAnswered ==
    /\ work.at = "claiming" /\ Included
    /\ work' = [work EXCEPT !.at = "claimed"] /\ UNCHANGED <<clockVars, stack>>
(* smoke-l2: authwit, payment and credit in one public call. *)
SmokeL2 ==
    /\ work.at = "valid" /\ Checkpoint /\ Credit(1)
    /\ work' = [work EXCEPT !.at = "credited", !.credits = 1]
    /\ UNCHANGED <<net, Files, boot, services>>
CheckBalance ==
    /\ work.at \in {"claimed", "credited"}
    /\ work' = [work EXCEPT !.at =
         IF chain.credit # work.before + 1 THEN "failed"
         ELSE IF work.at = "claimed" THEN "checked" ELSE "passed"]
    /\ UNCHANGED <<clockVars, stack>>
(* The claim is sent again.  Refused before it is sent, included, dropped or *)
(* without an answer: the script swallows it, its own error with the rest.  *)
Replay ==
    /\ work.at = "checked"
    /\ \E sent \in BOOLEAN : work' = [work EXCEPT !.at = "passed", !.sent = sent]
    /\ UNCHANGED <<clockVars, stack>>
(* --consume-after-smoke uses one of the rights that were bought. *)
ConsumeOne ==
    /\ work.at = "passed" /\ chain.credit > 0 /\ Checkpoint /\ Credit(-1)
    /\ work' = Rest /\ UNCHANGED <<net, Files, boot, services>>
(* A wait runs out or an answer is lost; a claim that was sent stays so.    *)
SmokeFails ==
    /\ work.at \in {"valid", "bought", "claiming", "claimed", "credited"}
    /\ work' = [work EXCEPT !.at = "failed"] /\ UNCHANGED <<clockVars, stack>>

(* fundLocalFeeJuice of the page, and fund-fee-juice: bridge, push empty    *)
(* checkpoints, claim; the secret lives in memory.                          *)
FundBegins ==
    /\ Unoccupied /\ services # None /\ L1Block /\ work' = [Rest EXCEPT !.at = "funding", !.claim = l1']
    /\ UNCHANGED stack
FundWaits == work.at = "funding" /\ anchor <= work.claim /\ AdvanceFunding /\ UNCHANGED <<stack, work>>
FundClaims ==
    /\ work.at = "funding" /\ anchor > work.claim /\ Checkpoint
    /\ work' = Rest /\ UNCHANGED stack
FundFails == work.at = "funding" /\ work' = Rest /\ UNCHANGED <<clockVars, stack>>

(* People and relayers use L1 and L2 while the services are up: they buy    *)
(* rights for the sponsor of the test and consume them, too.                *)
Traffic ==
    /\ services # None
    /\ \/ L1Block /\ UNCHANGED chain
       \/ Checkpoint /\ (UNCHANGED chain \/ \E by \in {-1, 1} : chain.credit + by \in 0 .. MaxCredit /\ Credit(by))
    /\ UNCHANGED <<net, Files, boot, services, work>>
ClockStep == (HostTick \/ Pace \/ BuildFails \/ \E f \in Faults : KeepAlive(f)) /\ UNCHANGED <<stack, work>>

(* main of bootstrap-local-apps, in its order: the outputs are written at   *)
(* the checkpoint of the deployment and again when the sponsor is funded.   *)
Worker ==
    \/ WorkerBegins \/ PaymentToken \/ Preflight \/ DeployRights \/ RightsFail \/ DeployApps
    \/ WriteManifest \/ WriteEnv("page", "dapp") \/ WriteEnv("dapp", AfterOutputs)
    \/ WarpPastDelay \/ Seed \/ Bridge \/ WaitForInbox \/ ClaimJuice
Bootstrap ==
    \/ Judge \/ Reuse \/ Wrapper \/ Worker \/ WorkerExits \/ ReadRoots \/ SeedRoots \/ TryRevocation \/ RestoreRoot
    \/ DeployPortal \/ PinPortal \/ WritePortal \/ WriteApiEnv \/ ActivateClock \/ WriteMarker
Operator ==
    \/ Begin \/ BootstrapDies \/ StartServices \/ StopServices \/ RestartNode \/ RestartChain
    \/ \E loaded, buildOnly \in BOOLEAN : FreshStart(loaded, buildOnly)
Modes ==
    \/ Validate \/ SmokeBuy \/ SendClaim \/ IncludeClaim \/ ClaimAnswered \/ SmokeL2
    \/ CheckBalance \/ Replay \/ ConsumeOne \/ SmokeFails
Funding == FundBegins \/ FundWaits \/ FundClaims \/ FundFails
DeploymentNext == Bootstrap \/ Operator \/ Modes \/ Funding \/ Traffic \/ ClockStep
DeploymentSpec == DeploymentInit /\ [][DeploymentNext]_vars
=============================================================================
