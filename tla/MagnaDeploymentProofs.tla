------------------------- MODULE MagnaDeploymentProofs -------------------------
(* Theorems about the scripts that put a network up, and about the Recovery *)
(* portal they deploy on its L1.  The first part is about MagnaDeployment,  *)
(* for any number of attempts, networks, slots and delays: what a bootstrap *)
(* that ends well leaves behind.  The second is about MagnaRecoveryFlow,    *)
(* for any registries, roots, authorizations and bounds: what the portal    *)
(* accepts while registry roots are rotated, and what the browser keeps of  *)
(* a recovery that fails anywhere.                                          *)
EXTENDS MagnaDeploymentSafety, MagnaRecoveryFlowSafety,
        SequenceTheorems, FiniteSetTheorems, TLAPS

USE DEF Me

-----------------------------------------------------------------------------
(* The shape of the state. *)
Deploys == Run \cup {None}
Manifests == [rights : Run, apps : Deploys, portal : Deploys, net : Nat, token : Run]
Phases == {"bootstrap", "realtime", "failed", "down"}

(* A checkpoint that has passed its check may be built from a later pending *)
(* time, but from no slot the host has not reached.                         *)
InBuild ==
    /\ phase = "realtime" /\ paced <= Between + 1 /\ l1 < wall + paced /\ 0 <= lag
    /\ (anchor \div Slot + 1) * Slot <= wall
ClockShape ==
    /\ {wall, l1, lag, anchor, genesis, marked} \subseteq Int /\ phase \in Phases
    /\ paced \in Nat /\ (paced # 0 => InBuild)
    /\ anchor <= l1 /\ DriftDoesNotAccumulate

ChainShape ==
    /\ net \in Nat
    /\ chain \in [rights : SUBSET Run, apps : SUBSET Run, tokens : SUBSET Run,
                  portals : SUBSET Run, certified : SUBSET Run, credited : SUBSET Run,
                  funded : SUBSET Run, pinned : [Run -> Deploys], due : [Run -> Int],
                  credit : Int]
FileShape ==
    /\ manifest \in Manifests \cup {None} /\ marker \in Manifests \cup {None}
    /\ env \in [page : Deploys, dapp : Deploys, api : Deploys]

-----------------------------------------------------------------------------
(* The stages of a bootstrap, from the last one back: what each set of them *)
(* has behind it.                                                           *)
Ending == {"activate", "marker"}                       \* the API's file is written
Ported == {"api"} \cup Ending                          \* the manifest names the portal
Pinned == {"portal"} \cup Ported                       \* the issuer is pinned to it
Posted == {"pin"} \cup Pinned                          \* the portal is on L1
Rooted == {"deploy portal"} \cup Posted                \* the registry's root is valid
Recovering == {"seed roots", "revoke", "restore"} \cup Rooted   \* on this network
Closing == {"completed", "identity"} \cup Recovering   \* the outputs are the last ones
Seeding == {"seed", "bridge", "inbox"}                 \* the hour is over
Filled == {"warp"} \cup Seeding \cup Closing           \* page and dApp have their files
Named == {"page", "dapp"} \cup Filled                  \* the manifest names the deployment
Placed == {"manifest"} \cup Named                      \* the contracts are on the chain
Opening == {"worker", "token", "rights", "deploy", "apps"}
Resting == {"off", "done", "check", "reuse", "wrapper"}

BootShape ==
    /\ boot \in [at : Resting \cup Opening \cup Placed, run : Nat, claim : Int,
                 token : Deploys, final : BOOLEAN]
    /\ boot.run <= MaxRuns /\ (~Settled => boot.run \in Run)
    /\ boot.at \in {"check", "reuse", "wrapper"} \cup Opening => ~boot.final

(* What a manifest promises while the network it was written on runs.       *)
OnThisNetwork ==
    manifest # None =>
        /\ manifest.net <= net
        /\ manifest.net = net => manifest.rights \in chain.rights /\ manifest.token \in chain.tokens

Behind ==
    /\ boot.at = "reuse" => marker # None /\ manifest.portal \in chain.portals
    /\ boot.at = "deploy" => boot.token \in chain.tokens
    /\ boot.at \in {"apps"} \cup Placed => manifest # None
    /\ boot.at \in Placed => Me \in chain.apps /\ chain.due[Me] <= l1 + Delay
    /\ boot.at \in Named => manifest.apps = Me
    /\ boot.at \in {"dapp"} \cup Filled => env.page = Me
    /\ boot.at \in Filled => env.dapp = Me
    /\ boot.at \in Seeding => chain.due[Me] <= l1
    /\ boot.at \in {"bridge", "inbox"} => Me \in chain.credited
Completing ==
    /\ boot.at \in Placed /\ boot.final =>
          chain.due[Me] <= l1 /\ Me \in chain.credited /\ Me \in chain.funded
    /\ boot.at \in Closing => boot.final
    /\ boot.at \in Recovering => manifest.net = net
    /\ boot.at \in Rooted => Me \in chain.certified
    /\ boot.at \in Posted => Me \in chain.portals
    /\ boot.at \in Pinned => chain.pinned[Me] = Me
    /\ boot.at \in Ported => manifest.portal = Me
    /\ boot.at \in Ending => env.api = Me

(* The marker is the last word: until the files go, nothing is written over *)
(* what it was written for, and while its network runs that can be used.    *)
Complete ==
    marker # None =>
        /\ manifest = marker /\ boot.at \in Resting
        /\ manifest.apps \in Run /\ manifest.portal \in Run
        /\ \A f \in DOMAIN env : env[f] = manifest.apps
        /\ manifest.net = net => Usable

Serving ==
    services # None =>
        /\ marker # None
        /\ services = [page |-> env.page, dapp |-> env.dapp, api |-> env.api]

(* A test that has an answer to its claim has spent the nullifier of its    *)
(* message, and from then on nothing it sent can be credited again.         *)
Answered == {"claimed", "credited", "checked", "passed"}
Tests == {"off", "failed", "valid", "bought", "claiming", "funding"} \cup Answered
TestShape == [at : Tests, before : Int, claim : Int, credits : {0, 1}, sent : BOOLEAN]
Tested ==
    /\ work \in TestShape
    /\ work.at \in {"valid", "bought"} => work.credits = 0 /\ ~work.sent
    /\ work.at = "claiming" /\ ~work.sent => work.credits = 1
    /\ work.at \in Answered => work.credits = 1

DeploymentInv ==
    /\ ClockShape /\ ChainShape /\ FileShape /\ BootShape
    /\ OnThisNetwork /\ Behind /\ Completing /\ Complete /\ Serving /\ Tested

-----------------------------------------------------------------------------
(* The clock of the network. *)
LEMMA BoundaryBound ==
    ASSUME NEW t \in Int
    PROVE  Boundary(t) \in Int /\ t <= Boundary(t) /\ Boundary(t) < t + Slot
  <1>1. Slot \in Nat \ {0}
    BY ClockAssumption
  <1> PICK n \in Int : n = t + Slot - 1
    BY <1>1
  <1>2. n \div Slot \in Int /\ Slot * (n \div Slot) <= n /\ n < Slot * (n \div Slot) + Slot
    BY <1>1
  <1> QED
    BY <1>1, <1>2 DEF Boundary

LEMMA LaterBound ==
    ASSUME NEW s \in Int, NEW t \in Int
    PROVE  Later(s, t) \in Int /\ s <= Later(s, t) /\ t <= Later(s, t)
  BY DEF Later

LEMMA StampsGoOn ==
    ASSUME ClockShape, NEW t \in Stamps
    PROVE  t \in Int /\ l1 <= t
  <1>1. wall - lag \in Int /\ l1 \in Int
    BY DEF ClockShape
  <1> QED
    BY <1>1 DEF Stamps, Later

LEMMA Numbers ==
    ASSUME ClockShape
    PROVE  /\ {wall, l1, lag, anchor, genesis, marked, paced} \subseteq Int /\ anchor <= l1
           /\ Slot \in Nat \ {0} /\ Between \in Nat
  BY ClockAssumption DEF ClockShape

(* A step that ends with the sequencer's queue free.                        *)
LEMMA FreeKeeps ==
    ASSUME {wall', l1', lag', anchor', genesis', marked'} \subseteq Int, phase' \in Phases,
           anchor' <= l1', paced' = 0, phase' = "realtime" => anchor' <= wall' + Between + 1
    PROVE  ClockShape'
  BY DEF ClockShape, DriftDoesNotAccumulate

LEMMA ActivateKeeps ==
    ASSUME ClockShape, NEW fault, Activation(fault)
    PROVE  ClockShape' /\ l1 <= l1' /\ (phase' = "realtime" => l1' <= wall')
  <1>1. {wall, l1, lag, anchor, genesis, marked} \subseteq Int /\ anchor <= l1 /\ Slot \in Int
        /\ Between \in Nat
    BY Numbers
  <1> PICK back : back = Boundary(wall - Slot)
    OBVIOUS
  <1>2. back \in Int /\ back < wall
    BY <1>1, BoundaryBound
  <1>3. CASE l1 > wall \/ fault = "before"
    BY <1>1, <1>3, FreeKeeps DEF Activation, Phases
  <1>4. CASE ~(l1 > wall \/ fault = "before")
    <2>1. /\ wall' = wall /\ genesis' = genesis /\ paced' = 0
          /\ l1' = Later(l1, back) /\ anchor' = IF l1 < back THEN back ELSE anchor
          /\ lag' \in {lag, wall - back, 0} /\ marked' \in {marked, genesis}
          /\ phase' \in {"failed", "realtime"}
      BY <1>4 DEF Activation
    <2>2. l1' = (IF l1 < back THEN back ELSE l1) /\ l1 <= wall
      BY <1>1, <1>2, <1>4, <2>1 DEF Later
    <2> QED
      BY <1>1, <1>2, <2>1, <2>2, FreeKeeps DEF Phases
  <1> QED
    BY <1>3, <1>4

(* Where the build of a checkpoint puts it.                                 *)
LEMMA BuiltAt ==
    ASSUME ClockShape, NEW stamp \in Stamps
    PROVE  LET t == CheckpointAt(stamp) IN
           /\ t \in Int /\ l1 <= t /\ stamp <= t /\ (anchor \div Slot + 1) * Slot <= t
           /\ \A b \in Int : stamp <= b /\ (anchor \div Slot + 1) * Slot <= b => t <= b
  <1>1. stamp \in Int /\ l1 <= stamp
    BY StampsGoOn
  <1>2. PICK k, a \in Int : k = stamp \div Slot /\ a = anchor \div Slot + 1
    BY <1>1, Numbers
  <1>3. k * Slot \in Int /\ k * Slot <= stamp /\ a * Slot \in Int
    BY <1>1, <1>2, Numbers
  <1>4. PICK slot \in Int : slot = Later(k, a) /\ slot * Slot \in {k * Slot, a * Slot}
                             /\ k <= slot /\ a <= slot
    BY <1>2 DEF Later
  <1>5. a * Slot <= slot * Slot
    <2>1. slot = a \/ slot >= a + 1
      BY <1>4
    <2>2. slot * Slot - a * Slot = (slot - a) * Slot
      BY Numbers
    <2>3. PICK d \in Nat : d = slot - a
      BY <1>4
    <2>4. d * Slot >= 0
      BY <2>3, Numbers
    <2> QED
      BY <1>3, <2>2, <2>3, <2>4, Numbers
  <1>6. PICK e \in Int : e = slot * Slot
    BY <1>3, <1>4
  <1>7. CheckpointAt(stamp) = Later(stamp, e)
    BY <1>2, <1>4, <1>6 DEF CheckpointAt
  <1>8. e <= stamp \/ e = a * Slot
    BY <1>3, <1>4, <1>6
  <1>9. e \in Int /\ a * Slot <= e
    BY <1>3, <1>4, <1>5, <1>6
  <1>10. PICK t \in Int : t = CheckpointAt(stamp) /\ t = (IF stamp > e THEN stamp ELSE e)
    BY <1>1, <1>7, <1>9 DEF Later
  <1>11. l1 <= t /\ stamp <= t /\ a * Slot <= t
    BY <1>1, <1>3, <1>9, <1>10, Numbers
  <1>12. \A b \in Int : stamp <= b /\ a * Slot <= b => t <= b
    BY <1>1, <1>3, <1>8, <1>9, <1>10
  <1> QED
    BY <1>2, <1>10, <1>11, <1>12

(* Every clock step but a new chain. *)
ClockMoves ==
    \/ UNCHANGED clockVars \/ HostTick \/ L1Block \/ Pace \/ Checkpoint \/ BuildFails
    \/ \E f \in Faults : Activate(f)
    \/ \E t \in Int : WarpTo(t)
    \/ /\ boot.at = "warp" /\ l1 + Delay + 1 <= wall /\ MineAt(l1 + Delay + 1)
       /\ UNCHANGED <<wall, anchor, phase, genesis, marked, paced>>

(* What is being built while the host goes on and L1 mines.                 *)
LEMMA TickKeeps ==
    ASSUME ClockShape, HostTick
    PROVE  ClockShape' /\ l1 <= l1'
  <1>1. wall' = wall + 1 /\ UNCHANGED <<l1, lag, anchor, phase, genesis, marked, paced>>
    BY DEF HostTick
  <1>2. paced # 0 => InBuild'
    <2>1. PICK e \in Int : e = (anchor \div Slot + 1) * Slot
      BY Numbers
    <2> QED
      BY <1>1, <2>1, Numbers DEF ClockShape, InBuild
  <1> QED
    BY <1>1, <1>2, Numbers DEF ClockShape, DriftDoesNotAccumulate

LEMMA BlockKeeps ==
    ASSUME ClockShape, L1Block
    PROVE  ClockShape' /\ l1 <= l1'
  <1>1. /\ UNCHANGED <<wall, lag, anchor, phase, genesis, marked>>
        /\ paced <= Between /\ paced' = IF paced = 0 THEN 0 ELSE paced + 1
        /\ l1' \in Stamps
    BY DEF L1Block
  <1>2. l1' \in Int /\ l1 <= l1'
    BY <1>1, StampsGoOn
  <1>3. paced' \in Nat
    BY <1>1 DEF ClockShape
  <1>4. l1' = wall - lag \/ l1' = l1 \/ l1' = l1 + 1
    BY <1>1 DEF Stamps, Later
  <1>5. paced' # 0 => InBuild'
    <2>1. PICK e \in Int : e = (anchor \div Slot + 1) * Slot
      BY Numbers
    <2> QED
      BY <1>1, <1>2, <1>4, <2>1, Numbers DEF ClockShape, InBuild
  <1> QED
    BY <1>1, <1>2, <1>3, <1>5, Numbers DEF ClockShape, DriftDoesNotAccumulate

LEMMA PaceKeeps ==
    ASSUME ClockShape, Pace
    PROVE  ClockShape' /\ l1 <= l1'
  <1>1. PICK stamp \in Stamps : Paced(CheckpointAt(stamp))
    BY DEF Pace
  <1>2. phase = "realtime" /\ paced' = 1 /\ UNCHANGED <<wall, l1, lag, anchor, phase, genesis, marked>>
    BY DEF Pace
  <1>3. PICK t \in Int, e \in Int :
          /\ t <= wall /\ l1 <= t /\ stamp <= t /\ e = (anchor \div Slot + 1) * Slot /\ e <= t
    BY <1>1, <1>2, BuiltAt, Numbers DEF Paced
  <1>4. wall - lag <= stamp
    BY Numbers DEF Stamps, Later
  <1>5. stamp \in Int
    BY StampsGoOn
  <1>6. InBuild'
    BY <1>2, <1>3, <1>4, <1>5, Numbers DEF InBuild
  <1> QED
    BY <1>2, <1>6, Numbers DEF ClockShape, DriftDoesNotAccumulate

LEMMA CheckpointKeeps ==
    ASSUME ClockShape, Checkpoint
    PROVE  ClockShape' /\ l1 <= l1'
  <1>1. PICK stamp \in Stamps : MineAt(CheckpointAt(stamp)) /\ anchor' = CheckpointAt(stamp)
    BY DEF Checkpoint
  <1>2. PICK t \in Int :
          /\ t = CheckpointAt(stamp) /\ l1 <= t
          /\ \A b \in Int : stamp <= b /\ (anchor \div Slot + 1) * Slot <= b => t <= b
    BY BuiltAt
  <1>3. /\ MayBuild /\ l1' = t /\ lag' = wall - t /\ anchor' = t /\ paced' = 0
        /\ UNCHANGED <<wall, phase, genesis, marked>>
    BY <1>1, <1>2 DEF Checkpoint, MineAt
  <1>4. ASSUME phase = "realtime" PROVE t <= wall + Between + 1
    <2>1. InBuild
      BY <1>3, <1>4 DEF MayBuild, QueueFree, ClockShape
    <2>2. stamp = wall - lag \/ stamp = l1 \/ stamp = l1 + 1
      BY DEF Stamps, Later
    <2>3. stamp <= wall + Between + 1 /\ wall <= wall + Between + 1
      BY <2>1, <2>2, Numbers DEF InBuild
    <2>4. (anchor \div Slot + 1) * Slot <= wall + Between + 1
      <3>1. PICK e \in Int : e = (anchor \div Slot + 1) * Slot
        BY Numbers
      <3> QED
        BY <2>1, <3>1, Numbers DEF InBuild
    <2>5. wall + Between + 1 \in Int
      BY Numbers
    <2> QED
      BY <1>2, <2>3, <2>4, <2>5
  <1> QED
    BY <1>2, <1>3, <1>4, Numbers, FreeKeeps DEF ClockShape

LEMMA WarpToKeeps ==
    ASSUME ClockShape, NEW t \in Int, WarpTo(t)
    PROVE  ClockShape' /\ l1 <= l1'
  <1>1. PICK b : b = Boundary(t)
    OBVIOUS
  <1>2. b \in Int
    BY <1>1, BoundaryBound
  <1>3. paced = 0 /\ paced' = 0
    BY DEF WarpTo, QueueFree
  <1>4. \/ UNCHANGED <<wall, l1, lag, anchor, phase, genesis, marked>>
        \/ /\ l1 < b /\ (phase = "realtime" => b <= wall) /\ l1' = b /\ lag' = wall - b
           /\ anchor' = b /\ UNCHANGED <<wall, phase, genesis, marked>>
    BY <1>1, <1>2, Numbers DEF WarpTo, Paced, MineAt
  <1> QED
    BY <1>2, <1>3, <1>4, Numbers, FreeKeeps DEF ClockShape, DriftDoesNotAccumulate

LEMMA ClockKeeps ==
    ASSUME ClockShape, ClockMoves
    PROVE  ClockShape' /\ l1 <= l1'
  <1>1. CASE UNCHANGED clockVars
    BY <1>1, Numbers DEF ClockShape, InBuild, DriftDoesNotAccumulate, clockVars
  <1>2. CASE BuildFails
    BY <1>2, Numbers, FreeKeeps DEF BuildFails, ClockShape, DriftDoesNotAccumulate
  <1>3. CASE \E f \in Faults : Activate(f)
    BY <1>3, ActivateKeeps DEF Activate
  <1>4. CASE /\ boot.at = "warp" /\ l1 + Delay + 1 <= wall /\ MineAt(l1 + Delay + 1)
             /\ UNCHANGED <<wall, anchor, phase, genesis, marked, paced>>
    <2>1. Delay \in Nat /\ l1' = l1 + Delay + 1 /\ lag' = wall - l1' /\ l1' <= wall
      BY <1>4, DeploymentAssumption DEF MineAt
    <2>2. ASSUME paced # 0 PROVE InBuild'
      <3>1. InBuild /\ paced \in Nat
        BY <2>2 DEF ClockShape
      <3>2. PICK e \in Int : e = (anchor \div Slot + 1) * Slot
        BY Numbers
      <3> QED
        BY <1>4, <2>1, <2>2, <3>1, <3>2, Numbers DEF InBuild
    <2> QED
      BY <1>4, <2>1, <2>2, Numbers DEF ClockShape, DriftDoesNotAccumulate
  <1> QED
    BY <1>1, <1>2, <1>3, <1>4, TickKeeps, BlockKeeps, PaceKeeps, CheckpointKeeps, WarpToKeeps
    DEF ClockMoves

LEMMA NodeStartsKeeps ==
    ASSUME ClockShape, NEW f \in Faults, NodeStarts(f)
    PROVE  ClockShape'
  <1>1. CASE ~Startable(l1)
    BY <1>1, Numbers, FreeKeeps DEF NodeStarts, Phases
  <1>2. CASE Startable(l1) /\ marked = genesis
    BY <1>2, ActivateKeeps DEF NodeStarts
  <1>3. CASE Startable(l1) /\ marked # genesis
    BY <1>3, Numbers, FreeKeeps DEF NodeStarts, Phases
  <1> QED
    BY <1>1, <1>2, <1>3

LEMMA ChainStartsKeeps ==
    ASSUME ClockShape, ChainStarts
    PROVE  ClockShape'
  BY Numbers, ClockAssumption, FreeKeeps DEF ChainStarts, Genesis, Phases

-----------------------------------------------------------------------------
(* What a step must show, by where it happens. *)

LEMMA AtWork ==
    ASSUME DeploymentInv, boot.at \in Opening \cup Placed
    PROVE  boot.run \in Run /\ boot.at \notin Resting
  <1>1. boot.at \notin Resting
    BY DEF Resting, Opening, Placed, Named, Filled, Seeding, Closing, Recovering, Rooted, Posted,
           Pinned, Ported, Ending
  <1> QED
    BY <1>1 DEF DeploymentInv, BootShape, Settled, Resting

(* A stage of the worker, the wrapper or the recovery script: no service is *)
(* up and no marker is there.                                               *)
LEMMA StageKeeps ==
    ASSUME DeploymentInv, boot.at \notin Resting, ClockMoves,
           UNCHANGED <<net, marker, services, work>>, chain'.credit = chain.credit,
           ChainShape', FileShape', BootShape', OnThisNetwork', Behind', Completing'
    PROVE  DeploymentInv' /\ marker = None
  <1>1. marker = None /\ services = None
    BY DEF DeploymentInv, Complete, Serving
  <1>2. ClockShape'
    BY ClockKeeps DEF DeploymentInv
  <1>3. Complete' /\ Serving'
    BY <1>1 DEF Complete, Serving
  <1>4. Tested'
    BY DEF DeploymentInv, Tested
  <1> QED
    BY <1>1, <1>2, <1>3, <1>4 DEF DeploymentInv

(* What can be used stays so while blocks and credits come.                 *)
LEMMA UsableLasts ==
    ASSUME Usable, ChainShape, {l1, l1'} \subseteq Int, l1 <= l1', manifest.apps \in Run,
           UNCHANGED <<manifest, env>>, NEW c, chain' \in {chain, [chain EXCEPT !.credit = c]}
    PROVE  Usable'
  <1>1. /\ chain'.rights = chain.rights /\ chain'.apps = chain.apps /\ chain'.tokens = chain.tokens
        /\ chain'.portals = chain.portals /\ chain'.certified = chain.certified
        /\ chain'.credited = chain.credited /\ chain'.funded = chain.funded
        /\ chain'.pinned = chain.pinned /\ chain'.due = chain.due
    BY DEF ChainShape
  <1>2. chain.due[manifest.apps] \in Int
    BY DEF ChainShape
  <1> QED
    BY <1>1, <1>2 DEF Usable

(* A bootstrap that works on nothing: it looks, ends or dies.               *)
LEMMA RestKeeps ==
    ASSUME DeploymentInv, ClockMoves, BootShape', boot'.at \in Resting,
           boot'.at = "reuse" => marker # None /\ manifest.portal \in chain.portals,
           UNCHANGED <<chain, net, manifest, env, marker, services, work>>
    PROVE  DeploymentInv'
  <1>1. ClockShape' /\ l1 <= l1' /\ {l1, l1'} \subseteq Int
    BY ClockKeeps DEF DeploymentInv, ClockShape
  <1>2. Behind' /\ Completing'
    BY DEF Behind, Completing, Resting, Placed, Named, Filled, Seeding, Closing, Recovering,
           Rooted, Posted, Pinned, Ported, Ending
  <1>3. Complete'
    BY <1>1, UsableLasts DEF DeploymentInv, Complete
  <1>4. ChainShape' /\ FileShape' /\ OnThisNetwork' /\ Serving' /\ Tested'
    BY DEF DeploymentInv, ChainShape, FileShape, OnThisNetwork, Serving, Tested
  <1> QED
    BY <1>1, <1>2, <1>3, <1>4 DEF DeploymentInv

(* A step beside the bootstrap: a test, a funding, traffic, the clock.      *)
LEMMA BesideKeeps ==
    ASSUME DeploymentInv, ClockMoves, Tested', NEW c \in Int,
           chain' \in {chain, [chain EXCEPT !.credit = c]},
           UNCHANGED <<net, manifest, env, marker, boot, services>>
    PROVE  DeploymentInv'
  <1>1. ClockShape' /\ l1 <= l1' /\ {l1, l1'} \subseteq Int
    BY ClockKeeps DEF DeploymentInv, ClockShape
  <1>2. ChainShape'
    BY DEF DeploymentInv, ChainShape
  <1>3. /\ chain'.rights = chain.rights /\ chain'.apps = chain.apps /\ chain'.tokens = chain.tokens
        /\ chain'.portals = chain.portals /\ chain'.certified = chain.certified
        /\ chain'.credited = chain.credited /\ chain'.funded = chain.funded
        /\ chain'.pinned = chain.pinned /\ chain'.due = chain.due
    BY DEF DeploymentInv, ChainShape
  <1>4. boot.at \in Placed => chain.due[Me] \in Int
    BY AtWork DEF DeploymentInv, ChainShape
  <1>5. Behind'
    BY <1>1, <1>3, <1>4, DeploymentAssumption DEF DeploymentInv, Behind, Placed, Named, Filled
  <1>6. Completing'
    BY <1>1, <1>3, <1>4 DEF DeploymentInv, Completing
  <1>7. Complete'
    BY <1>1, UsableLasts DEF DeploymentInv, Complete
  <1>8. FileShape' /\ BootShape' /\ OnThisNetwork' /\ Serving'
    BY <1>3 DEF DeploymentInv, FileShape, BootShape, OnThisNetwork, Serving, Settled
  <1> QED
    BY <1>1, <1>2, <1>5, <1>6, <1>7, <1>8 DEF DeploymentInv

(* The bootstrap looks around.                                              *)
LEMMA LookKeeps ==
    ASSUME DeploymentInv, Judge \/ Reuse \/ Wrapper
    PROVE  DeploymentInv'
  <1>1. PICK s \in {"off", "done", "reuse", "wrapper", "worker"} :
          /\ boot' = [boot EXCEPT !.at = s]
          /\ s = "worker" => Fresh /\ boot.at = "wrapper"
          /\ s = "reuse" => Existing
          /\ boot.at \in {"check", "reuse", "wrapper"}
    BY DEF Judge, Reuse, Wrapper, GoTo
  <1>2. /\ ClockMoves
        /\ UNCHANGED <<chain, net, manifest, env, marker, services, work>>
    BY DEF Judge, Reuse, Wrapper, ClockMoves, Files, Outside
  <1>3. boot.run \in Run /\ boot' = [boot EXCEPT !.at = s] /\ boot'.at = s
    BY <1>1 DEF DeploymentInv, BootShape, Settled
  <1>4. BootShape'
    BY <1>1, <1>3 DEF DeploymentInv, BootShape, Settled, Resting, Opening
  <1>5. CASE s # "worker"
    BY <1>1, <1>2, <1>3, <1>4, <1>5, RestKeeps DEF Resting, Existing
  <1>6. CASE s = "worker"
    <2>1. env.page = None /\ marker = None /\ services = None
      BY <1>1, <1>6, DeploymentAssumption DEF Fresh, DeploymentInv, Complete, FileShape, Serving, Run
    <2>2. Complete' /\ Serving'
      BY <1>2, <1>4, <2>1 DEF Complete, Serving
    <2>3. Behind' /\ Completing'
      BY <1>3, <1>6 DEF Behind, Completing, Placed, Named, Filled, Seeding, Closing, Recovering,
             Rooted, Posted, Pinned, Ported, Ending
    <2>4. ChainShape' /\ FileShape' /\ OnThisNetwork' /\ Tested'
      BY <1>2 DEF DeploymentInv, ChainShape, FileShape, OnThisNetwork, Tested
    <2> QED
      BY <1>2, <1>4, <2>2, <2>3, <2>4, ClockKeeps DEF DeploymentInv
  <1> QED
    BY <1>5, <1>6

(* A step that only moves on. *)
LEMMA AdvanceKeeps ==
    ASSUME DeploymentInv, boot.at \in Opening \cup Placed, ClockMoves,
           NEW s \in Opening \cup Placed, s \in Opening => ~boot.final, NEW c \in Int,
           boot' = [boot EXCEPT !.at = s, !.claim = c],
           UNCHANGED <<chain, net, manifest, env, marker, services, work>>,
           Behind', Completing'
    PROVE  DeploymentInv'
  <1>1. BootShape'
    <2>1. boot.run \in Run /\ boot'.at = s /\ boot'.final = boot.final /\ boot'.run = boot.run
          /\ s \notin {"check", "reuse", "wrapper"}
      BY AtWork DEF DeploymentInv, BootShape, Opening, Placed, Named, Filled, Seeding, Closing,
                    Recovering, Rooted, Posted, Pinned, Ported, Ending
    <2> QED
      BY <2>1 DEF DeploymentInv, BootShape
  <1>2. ChainShape' /\ FileShape' /\ OnThisNetwork'
    BY DEF DeploymentInv, ChainShape, FileShape, OnThisNetwork
  <1> QED
    BY <1>1, <1>2, AtWork, StageKeeps

LEMMA WorkerBeginsKeeps ==
    ASSUME DeploymentInv, WorkerBegins
    PROVE  DeploymentInv'
  <1>1. PICK s \in {"token", "off"} : boot' = [boot EXCEPT !.at = s]
    BY DEF WorkerBegins, GoTo
  <1>2. /\ ClockMoves /\ boot.at = "worker"
        /\ UNCHANGED <<chain, net, manifest, env, marker, services, work>>
    BY DEF WorkerBegins, ClockMoves, Files, Outside
  <1>3. ~boot.final /\ boot'.at = s /\ boot.claim \in Int /\ boot' = [boot EXCEPT !.at = s, !.claim = boot.claim]
    BY <1>1, <1>2 DEF DeploymentInv, BootShape, Opening
  <1>4. Behind' /\ Completing'
    BY <1>3 DEF Behind, Completing, Placed, Named, Filled, Seeding, Closing, Recovering,
           Rooted, Posted, Pinned, Ported, Ending
  <1>5. CASE s = "token"
    BY <1>2, <1>3, <1>4, <1>5, AdvanceKeeps DEF Opening
  <1>6. CASE s = "off"
    <2>1. BootShape' /\ boot'.at \in Resting /\ boot'.at # "reuse"
      BY <1>1, <1>3, <1>6 DEF DeploymentInv, BootShape, Settled, Resting, Opening
    <2> QED
      BY <1>2, <2>1, RestKeeps
  <1> QED
    BY <1>5, <1>6

LEMMA HaltKeeps ==
    ASSUME DeploymentInv, ClockMoves, boot' = [boot EXCEPT !.at = "off"],
           UNCHANGED <<chain, net, manifest, env, marker, services, work>>
    PROVE  DeploymentInv'
  <1>1. BootShape' /\ boot'.at \in Resting /\ boot'.at # "reuse"
    BY DEF DeploymentInv, BootShape, Settled, Resting, Opening
  <1> QED
    BY <1>1, RestKeeps

-----------------------------------------------------------------------------
(* The worker. *)
USE DEF Placed, Named, Filled, Seeding, Closing, Recovering, Rooted, Posted, Pinned, Ported,
        Ending, Opening

LEMMA PaymentTokenKeeps ==
    ASSUME DeploymentInv, PaymentToken
    PROVE  DeploymentInv'
  <1>1. boot.at = "token" /\ ClockMoves /\ UNCHANGED <<net, manifest, env, marker, services, work>>
    BY DEF PaymentToken, ClockMoves, Files, Outside
  <1>2. boot.run \in Run
    BY <1>1, AtWork
  <1>3. PICK t \in Run :
          /\ boot' = [boot EXCEPT !.at = "rights", !.token = t]
          /\ chain' \in {chain, [chain EXCEPT !.tokens = @ \cup {t}]}
    BY <1>2 DEF PaymentToken, TokenAnswers, DeploymentInv, FileShape, Manifests
  <1>4. boot'.at = "rights" /\ boot'.run = boot.run
    BY <1>3 DEF DeploymentInv, BootShape
  <1>5. BootShape' /\ FileShape'
    BY <1>1, <1>2, <1>3 DEF DeploymentInv, BootShape, FileShape, Settled, Deploys
  <1>6. ChainShape' /\ chain'.credit = chain.credit
    BY <1>1, <1>3 DEF DeploymentInv, ChainShape
  <1>7. OnThisNetwork'
    BY <1>1, <1>3 DEF DeploymentInv, ChainShape, OnThisNetwork
  <1>8. Behind' /\ Completing'
    BY <1>4 DEF Behind, Completing
  <1> QED
    BY <1>1, <1>5, <1>6, <1>7, <1>8, AtWork, StageKeeps

LEMMA RightsKeep ==
    ASSUME DeploymentInv, Preflight \/ RightsFail
    PROVE  DeploymentInv'
  <1>1. PICK s \in {"deploy", "apps", "off"} :
          /\ boot' = [boot EXCEPT !.at = s]
          /\ s = "deploy" => boot.token \in chain.tokens
          /\ s = "apps" => manifest # None
    BY DEF Preflight, RightsFail, HasRightsStack, GoTo
  <1>2. /\ ClockMoves /\ boot.at \in {"rights", "deploy"}
        /\ UNCHANGED <<chain, net, manifest, env, marker, services, work>>
    BY DEF Preflight, RightsFail, ClockMoves, Files, Outside
  <1>3. /\ boot'.at = s /\ boot'.token = boot.token /\ boot.claim \in Int /\ ~boot.final
        /\ boot' = [boot EXCEPT !.at = s, !.claim = boot.claim]
    BY <1>1, <1>2 DEF DeploymentInv, BootShape
  <1>4. Behind' /\ Completing'
    BY <1>1, <1>2, <1>3 DEF Behind, Completing
  <1>5. CASE s # "off"
    BY <1>2, <1>3, <1>4, <1>5, AdvanceKeeps
  <1> QED
    BY <1>1, <1>2, <1>5, HaltKeeps

LEMMA ManifestExists ==
    ASSUME NEW m \in Manifests
    PROVE  m # None
  <1>1. m \in [rights : Nat, apps : Nat \cup {None}, portal : Nat \cup {None},
               net : Nat, token : Nat]
    BY DeploymentAssumption DEF Manifests, Deploys, Run
  <1> QED
    BY <1>1, DeploymentAssumption

LEMMA DeployRightsKeeps ==
    ASSUME DeploymentInv, DeployRights
    PROVE  DeploymentInv'
  <1>1. /\ boot.at = "deploy" /\ ClockMoves /\ UNCHANGED <<net, env, marker, services, work>>
        /\ boot' = [boot EXCEPT !.at = "apps"] /\ manifest' = NewManifest
        /\ chain' = [chain EXCEPT !.rights = @ \cup {boot.run}]
    BY DEF DeployRights, ClockMoves, Outside, GoTo
  <1>2. boot.run \in Run /\ boot.token \in chain.tokens /\ boot.token \in Run
    BY <1>1, AtWork DEF DeploymentInv, Behind, ChainShape
  <1>3. boot'.at = "apps" /\ boot'.run = boot.run
    BY <1>1 DEF DeploymentInv, BootShape
  <1>4. manifest' \in Manifests /\ manifest'.net = net
    BY <1>1, <1>2 DEF NewManifest, Manifests, Deploys, DeploymentInv, ChainShape
  <1>5. manifest' # None
    BY <1>4, ManifestExists
  <1>6. BootShape' /\ FileShape'
    BY <1>1, <1>2, <1>4 DEF DeploymentInv, BootShape, FileShape, Settled
  <1>7. ChainShape' /\ chain'.credit = chain.credit
    BY <1>1, <1>2 DEF DeploymentInv, ChainShape
  <1>8. OnThisNetwork'
    BY <1>1, <1>2, <1>4 DEF DeploymentInv, ChainShape, OnThisNetwork, NewManifest
  <1>9. Behind' /\ Completing'
    BY <1>3, <1>5 DEF Behind, Completing
  <1> QED
    BY <1>1, <1>6, <1>7, <1>8, <1>9, AtWork, StageKeeps

LEMMA DeployAppsKeeps ==
    ASSUME DeploymentInv, DeployApps
    PROVE  DeploymentInv'
  <1>1. /\ boot.at = "apps" /\ Checkpoint
        /\ UNCHANGED <<net, manifest, env, marker, services, work>>
        /\ boot' = [boot EXCEPT !.at = "manifest"]
        /\ chain' = [chain EXCEPT !.apps = @ \cup {boot.run},
                                  !.due = [@ EXCEPT ![boot.run] = anchor' + Delay]]
    BY DEF DeployApps, Files, Outside, GoTo
  <1>2. boot.run \in Run /\ ClockMoves
    BY <1>1, AtWork DEF ClockMoves
  <1>3. boot'.at = "manifest" /\ boot'.run = boot.run /\ boot'.final = boot.final
    BY <1>1 DEF DeploymentInv, BootShape
  <1>4. {l1', anchor'} \subseteq Int /\ anchor' = l1' /\ Delay \in Int
    <2>1. {l1', anchor'} \subseteq Int
      BY <1>2, ClockKeeps DEF DeploymentInv, ClockShape
    <2> QED
      BY <1>1, <2>1, DeploymentAssumption DEF Checkpoint, MineAt
  <1>5. BootShape' /\ FileShape'
    BY <1>1, <1>2 DEF DeploymentInv, BootShape, FileShape, Settled
  <1>6. /\ ChainShape' /\ chain'.credit = chain.credit
        /\ boot.run \in chain'.apps /\ chain'.due[boot.run] = l1' + Delay
        /\ chain'.rights = chain.rights /\ chain'.tokens = chain.tokens
    <2> PICK t \in Int : t = l1' + Delay
      BY <1>4
    <2> PICK d : d = [chain.due EXCEPT ![boot.run] = t]
      OBVIOUS
    <2>2. ChainShape
      BY DEF DeploymentInv
    <2>3. d \in [Run -> Int] /\ d[boot.run] = t
      BY <1>2, <2>2 DEF ChainShape
    <2>1. chain' = [chain EXCEPT !.apps = @ \cup {boot.run}, !.due = d]
      BY <1>1, <1>4
    <2>4. /\ chain'.apps = chain.apps \cup {boot.run} /\ chain'.due = d
          /\ chain'.rights = chain.rights /\ chain'.tokens = chain.tokens
          /\ chain'.credit = chain.credit
      BY <2>1, <2>2 DEF ChainShape
    <2>5. ChainShape'
      <3>1. net' = net
        BY <1>1
      <3>2. boot.run \in Run
        BY <1>2
      <3> QED
        BY <2>1, <2>2, <2>3, <3>1, <3>2 DEF ChainShape
    <2> QED
      BY <2>3, <2>4, <2>5
  <1>7. OnThisNetwork'
    BY <1>1, <1>6 DEF DeploymentInv, OnThisNetwork
  <1>8. manifest # None /\ ~boot.final
    BY <1>1 DEF DeploymentInv, Behind, BootShape
  <1>9. Behind' /\ Completing'
    BY <1>1, <1>3, <1>4, <1>6, <1>8 DEF Behind, Completing
  <1> QED
    BY <1>1, <1>2, <1>5, <1>6, <1>7, <1>9, AtWork, StageKeeps

LEMMA WriteManifestKeeps ==
    ASSUME DeploymentInv, WriteManifest
    PROVE  DeploymentInv'
  <1>1. /\ boot.at = "manifest" /\ ClockMoves
        /\ UNCHANGED <<chain, net, env, marker, services, work>>
        /\ boot' = [boot EXCEPT !.at = "page"] /\ manifest' = [manifest EXCEPT !.apps = boot.run]
    BY DEF WriteManifest, ClockMoves, Outside, GoTo
  <1>2. boot.run \in Run /\ manifest \in Manifests
    BY <1>1, AtWork DEF DeploymentInv, Behind, FileShape
  <1>3. boot'.at = "page" /\ boot'.run = boot.run /\ boot'.final = boot.final
    BY <1>1 DEF DeploymentInv, BootShape
  <1>4. /\ manifest' \in Manifests /\ manifest'.apps = boot.run /\ manifest'.net = manifest.net
        /\ manifest'.rights = manifest.rights /\ manifest'.token = manifest.token
    BY <1>1, <1>2 DEF Manifests, Deploys
  <1>5. BootShape' /\ FileShape'
    BY <1>1, <1>2, <1>4 DEF DeploymentInv, BootShape, FileShape, Settled
  <1>6. ChainShape' /\ OnThisNetwork'
    BY <1>1, <1>2, <1>4, ManifestExists DEF DeploymentInv, ChainShape, OnThisNetwork
  <1>7. Delay \in Int /\ l1' = l1
    BY DeploymentAssumption DEF WriteManifest, clockVars
  <1>8. Behind' /\ Completing'
    BY <1>1, <1>3, <1>4, <1>7, ManifestExists DEF DeploymentInv, Behind, Completing
  <1> QED
    BY <1>1, <1>5, <1>6, <1>8, AtWork, StageKeeps

LEMMA WriteEnvKeeps ==
    ASSUME DeploymentInv, WriteEnv("page", "dapp") \/ WriteEnv("dapp", AfterOutputs)
    PROVE  DeploymentInv'
  <1>1. PICK f \in {"page", "dapp"}, s \in {"dapp", "completed", "warp"} :
          /\ WriteEnv(f, s)
          /\ s = "dapp" <=> f = "page"
          /\ s = "completed" => boot.final
    BY DEF AfterOutputs
  <1>2. /\ boot.at = f /\ ClockMoves /\ l1' = l1
        /\ UNCHANGED <<chain, net, manifest, marker, services, work>>
    BY <1>1 DEF WriteEnv, ClockMoves, Outside, clockVars
  <1>3. boot.run \in Run /\ manifest.apps = boot.run
    BY <1>2, AtWork DEF DeploymentInv, Behind
  <1>4. CASE Owned(f)
    <2>1. boot' = [boot EXCEPT !.at = s] /\ env' = [env EXCEPT ![f] = boot.run]
      BY <1>1, <1>3, <1>4 DEF WriteEnv, GoTo
    <2>2. boot'.at = s /\ boot'.run = boot.run /\ boot'.final = boot.final
      BY <2>1 DEF DeploymentInv, BootShape
    <2>3. FileShape' /\ env'[f] = boot.run /\ (f = "dapp" => env'.page = env.page)
      BY <1>2, <1>3, <2>1 DEF DeploymentInv, FileShape, Deploys
    <2>4. BootShape'
      BY <1>3, <2>1, <2>2 DEF DeploymentInv, BootShape, Settled
    <2>5. ChainShape' /\ OnThisNetwork'
      BY <1>2 DEF DeploymentInv, ChainShape, OnThisNetwork
    <2>6. Behind' /\ Completing'
      BY <1>1, <1>2, <1>3, <2>2, <2>3 DEF DeploymentInv, Behind, Completing
    <2> QED
      BY <1>2, <2>3, <2>4, <2>5, <2>6, AtWork, StageKeeps
  <1>5. CASE ~Owned(f)
    BY <1>1, <1>2, <1>5, HaltKeeps DEF WriteEnv, GoTo
  <1> QED
    BY <1>4, <1>5

(* The hour of the gateways. *)
LEMMA WarpKeeps ==
    ASSUME DeploymentInv, WarpPastDelay
    PROVE  DeploymentInv'
  <1>1. boot.at = "warp" /\ UNCHANGED <<chain, net, manifest, env, marker, services, work>>
    BY DEF WarpPastDelay, Files, Outside
  <1>2. boot.run \in Run /\ l1 \in Int /\ wall \in Int /\ Delay \in Nat /\ boot.claim \in Int
    <2>1. l1 \in Int /\ wall \in Int /\ boot.claim \in Int
      BY DEF DeploymentInv, ClockShape, BootShape
    <2> QED
      BY <1>1, <2>1, AtWork, DeploymentAssumption
  <1>3. CASE l1 + Delay + 1 > wall
    BY <1>1, <1>3, HaltKeeps DEF WarpPastDelay, Stop, GoTo, ClockMoves
  <1>4. CASE ~(l1 + Delay + 1 > wall)
    <2>1. /\ ClockMoves /\ l1' = l1 + Delay + 1 /\ boot' = [boot EXCEPT !.at = "seed"]
      BY <1>1, <1>2, <1>4 DEF WarpPastDelay, ClockMoves, MineAt, GoTo
    <2>2. /\ boot'.at = "seed" /\ boot'.run = boot.run /\ boot'.final = boot.final
          /\ boot' = [boot EXCEPT !.at = "seed", !.claim = boot.claim]
      BY <2>1 DEF DeploymentInv, BootShape
    <2>3. chain.due[boot.run] \in Int
      BY <1>2 DEF DeploymentInv, ChainShape
    <2>5. chain.due[boot.run] <= l1 + Delay
      BY <1>1 DEF DeploymentInv, Behind
    <2>6. chain.due[boot.run] <= l1'
      BY <1>2, <2>1, <2>3, <2>5
    <2>7. chain.due[boot.run] <= l1' + Delay
      BY <1>2, <2>1, <2>3, <2>6
    <2>4. Behind' /\ Completing'
      BY <1>1, <2>2, <2>6, <2>7 DEF DeploymentInv, Behind, Completing
    <2> QED
      BY <1>1, <1>2, <2>1, <2>2, <2>4, AdvanceKeeps
  <1> QED
    BY <1>3, <1>4

LEMMA SeedKeeps ==
    ASSUME DeploymentInv, Seed
    PROVE  DeploymentInv'
  <1>1. boot.at = "seed" /\ UNCHANGED <<net, manifest, env, marker, services, work>>
    BY DEF Seed, Files, Outside
  <1>2. boot.run \in Run /\ Delay \in Int
    BY <1>1, AtWork, DeploymentAssumption
  <1>3. CASE manifest.rights \in chain.rights
    <2>1. /\ ClockMoves /\ boot' = [boot EXCEPT !.at = "bridge"]
          /\ chain' = [chain EXCEPT !.credited = @ \cup {boot.run}]
      BY <1>3 DEF Seed, ClockMoves, GoTo
    <2>2. boot'.at = "bridge" /\ boot'.run = boot.run /\ boot'.final = boot.final
      BY <2>1 DEF DeploymentInv, BootShape
    <2>3. /\ ChainShape' /\ boot.run \in chain'.credited
          /\ chain'.rights = chain.rights /\ chain'.tokens = chain.tokens
          /\ chain'.apps = chain.apps /\ chain'.due = chain.due /\ chain'.funded = chain.funded
          /\ chain'.credit = chain.credit
      BY <1>1, <1>2, <2>1 DEF DeploymentInv, ChainShape
    <2>4. l1 <= l1' /\ {l1, l1', chain.due[boot.run]} \subseteq Int
      BY <1>2, <2>1, ClockKeeps DEF DeploymentInv, ClockShape, ChainShape
    <2>5. BootShape' /\ FileShape' /\ OnThisNetwork'
      BY <1>1, <1>2, <2>1, <2>2, <2>3 DEF DeploymentInv, BootShape, FileShape, OnThisNetwork, Settled
    <2>6. Behind' /\ Completing'
      BY <1>1, <1>2, <2>2, <2>3, <2>4 DEF DeploymentInv, Behind, Completing
    <2> QED
      BY <1>1, <2>1, <2>3, <2>5, <2>6, AtWork, StageKeeps
  <1>4. CASE manifest.rights \notin chain.rights
    BY <1>1, <1>4, HaltKeeps DEF Seed, Stop, GoTo, ClockMoves
  <1> QED
    BY <1>3, <1>4

LEMMA BridgeKeeps ==
    ASSUME DeploymentInv, Bridge
    PROVE  DeploymentInv'
  <1>1. /\ boot.at = "bridge" /\ ClockMoves
        /\ UNCHANGED <<chain, net, manifest, env, marker, services, work>>
        /\ boot' = [boot EXCEPT !.at = "inbox", !.claim = l1']
    BY DEF Bridge, ClockMoves, Files, Outside
  <1>2. boot.run \in Run /\ Delay \in Int
    BY <1>1, AtWork, DeploymentAssumption
  <1>3. l1 <= l1' /\ {l1, l1', chain.due[boot.run]} \subseteq Int
    BY <1>1, <1>2, ClockKeeps DEF DeploymentInv, ClockShape, ChainShape
  <1>4. boot'.at = "inbox" /\ boot'.run = boot.run /\ boot'.final = boot.final
    BY <1>1 DEF DeploymentInv, BootShape
  <1>5. Behind' /\ Completing'
    BY <1>1, <1>2, <1>3, <1>4 DEF DeploymentInv, Behind, Completing
  <1> QED
    BY <1>1, <1>3, <1>5, AdvanceKeeps

LEMMA ClaimJuiceKeeps ==
    ASSUME DeploymentInv, ClaimJuice
    PROVE  DeploymentInv'
  <1>1. /\ boot.at = "inbox" /\ ClockMoves
        /\ UNCHANGED <<net, manifest, env, marker, services, work>>
        /\ boot' = [boot EXCEPT !.at = "manifest", !.final = TRUE]
        /\ chain' = [chain EXCEPT !.funded = @ \cup {boot.run}]
    BY DEF ClaimJuice, ClockMoves, Files, Outside
  <1>2. boot.run \in Run /\ Delay \in Int
    BY <1>1, AtWork, DeploymentAssumption
  <1>3. l1 <= l1' /\ {l1, l1', chain.due[boot.run]} \subseteq Int
    BY <1>1, <1>2, ClockKeeps DEF DeploymentInv, ClockShape, ChainShape
  <1>4. boot'.at = "manifest" /\ boot'.run = boot.run /\ boot'.final = TRUE
    BY <1>1 DEF DeploymentInv, BootShape
  <1>5. /\ ChainShape' /\ boot.run \in chain'.funded
        /\ chain'.rights = chain.rights /\ chain'.tokens = chain.tokens
        /\ chain'.apps = chain.apps /\ chain'.due = chain.due /\ chain'.credited = chain.credited
        /\ chain'.credit = chain.credit
    BY <1>1, <1>2 DEF DeploymentInv, ChainShape
  <1>6. BootShape' /\ FileShape' /\ OnThisNetwork'
    BY <1>1, <1>2, <1>4, <1>5 DEF DeploymentInv, BootShape, FileShape, OnThisNetwork, Settled
  <1>7. Behind' /\ Completing'
    BY <1>1, <1>2, <1>3, <1>4, <1>5 DEF DeploymentInv, Behind, Completing
  <1> QED
    BY <1>1, <1>5, <1>6, <1>7, AtWork, StageKeeps

-----------------------------------------------------------------------------
(* The recovery script and the wrapper's last steps. *)
LEMMA DelayType == Delay \in Nat /\ Delay \in Int
  BY DeploymentAssumption

LEMMA DelayAfter ==
    ASSUME NEW d \in Int, NEW s \in Int, NEW t \in Int, d <= s, s <= t
    PROVE  d <= t /\ d <= t + Delay
  BY DelayType

LEMMA LastStages ==
    ASSUME DeploymentInv, boot.at \in Closing
    PROVE  /\ boot.run \in Run /\ boot.final /\ Delay \in Int /\ chain.due[boot.run] \in Int
           /\ boot.claim \in Int /\ l1 \in Int
           /\ manifest # None /\ manifest \in Manifests /\ manifest.apps = boot.run
           /\ chain.due[boot.run] <= l1 /\ boot.run \in chain.credited
           /\ boot.run \in chain.funded /\ boot.run \in chain.apps
           /\ env.page = boot.run /\ env.dapp = boot.run
  <1>1. boot.run \in Run /\ Delay \in Int
    <2>1. boot.at \in Opening \cup Placed
      OBVIOUS
    <2>2. boot.run \in Run
      BY <2>1, AtWork
    <2> QED
      BY <2>2, DelayType
  <1>2. boot.final
    BY DEF DeploymentInv, Completing
  <1>3. chain.due[boot.run] \in Int /\ boot.claim \in Int /\ l1 \in Int
    BY <1>1 DEF DeploymentInv, ChainShape, BootShape, ClockShape
  <1> QED
    BY <1>1, <1>2, <1>3 DEF DeploymentInv, FileShape, Behind, Completing

LEMMA DueLasts ==
    ASSUME DeploymentInv, boot.at \in Closing, ClockMoves
    PROVE  chain.due[boot.run] <= l1' /\ chain.due[boot.run] <= l1' + Delay
  <1>1. l1 <= l1' /\ l1 \in Int /\ l1' \in Int
    BY ClockKeeps DEF DeploymentInv, ClockShape
  <1>2. chain.due[boot.run] <= l1 /\ chain.due[boot.run] \in Int /\ Delay \in Nat
    BY LastStages, DelayType
  <1> QED
    BY <1>1, <1>2, DelayAfter

LEMMA JudgedKeeps ==
    ASSUME DeploymentInv, WorkerExits \/ ReadRoots \/ ActivateClock
    PROVE  DeploymentInv'
  <1>1. PICK s \in {"identity", "seed roots", "marker", "off"} :
          /\ boot' = [boot EXCEPT !.at = s]
          /\ s = "seed roots" => manifest.net = net
          /\ s = "marker" => boot.at = "activate"
    BY DEF WorkerExits, ReadRoots, ActivateClock, GoTo
  <1>2. /\ boot.at \in {"completed", "identity", "activate"} /\ ClockMoves
        /\ UNCHANGED <<chain, net, manifest, env, marker, services, work>>
    BY DEF WorkerExits, ReadRoots, ActivateClock, ClockMoves, Files, Outside
  <1>3. CASE s = "off"
    BY <1>1, <1>2, <1>3, HaltKeeps
  <1>4. CASE s # "off"
    <2>1. boot.run \in Run /\ boot.final /\ boot.claim \in Int
      BY <1>2, LastStages
    <2>2. chain.due[boot.run] <= l1' /\ chain.due[boot.run] <= l1' + Delay
      BY <1>2, DueLasts
    <2>3. /\ boot'.at = s /\ boot'.run = boot.run /\ boot'.final = boot.final
          /\ boot' = [boot EXCEPT !.at = s, !.claim = boot.claim]
      BY <1>1 DEF DeploymentInv, BootShape
    <2>4. Behind' /\ Completing'
      BY <1>1, <1>2, <1>4, <2>1, <2>2, <2>3 DEF DeploymentInv, Behind, Completing
    <2> QED
      BY <1>1, <1>2, <1>4, <2>1, <2>3, <2>4, AdvanceKeeps
  <1> QED
    BY <1>3, <1>4

(* An L1 step of the recovery script. *)
LEMMA RecoveryStage ==
    ASSUME DeploymentInv, boot.at \in Recovering, NEW s \in Recovering, L1Block,
           boot' = [boot EXCEPT !.at = s],
           NEW C \in SUBSET Run, NEW P \in SUBSET Run,
           chain' = [chain EXCEPT !.certified = C, !.portals = P],
           UNCHANGED <<net, manifest, env, marker, services, work>>,
           s \in Rooted => boot.run \in C, s \in Posted => boot.run \in P, s \notin Pinned
    PROVE  DeploymentInv'
  <1>1. boot.run \in Run /\ boot.final /\ manifest.net = net
    BY LastStages DEF DeploymentInv, Completing
  <1>2. ClockMoves
    BY DEF ClockMoves
  <1>3. chain.due[boot.run] <= l1' /\ chain.due[boot.run] <= l1' + Delay
    BY <1>2, DueLasts
  <1>4. boot'.at = s /\ boot'.run = boot.run /\ boot'.final = boot.final
    BY DEF DeploymentInv, BootShape
  <1>5. /\ ChainShape' /\ chain'.certified = C /\ chain'.portals = P
        /\ chain'.rights = chain.rights /\ chain'.tokens = chain.tokens
        /\ chain'.apps = chain.apps /\ chain'.due = chain.due /\ chain'.credited = chain.credited
        /\ chain'.funded = chain.funded /\ chain'.credit = chain.credit
    BY DEF DeploymentInv, ChainShape
  <1>6. BootShape' /\ FileShape' /\ OnThisNetwork'
    BY <1>1, <1>4, <1>5 DEF DeploymentInv, BootShape, FileShape, OnThisNetwork, Settled
  <1>7. Behind'
    BY <1>1, <1>3, <1>4, <1>5, LastStages DEF Behind
  <1>8. Completing'
    BY <1>1, <1>3, <1>4, <1>5, LastStages DEF Completing
  <1> QED
    BY <1>2, <1>5, <1>6, <1>7, <1>8, AtWork, StageKeeps

LEMMA RootsKeep ==
    ASSUME DeploymentInv, SeedRoots \/ TryRevocation \/ RestoreRoot \/ DeployPortal
    PROVE  DeploymentInv'
  <1>1. /\ boot.at \in {"seed roots", "revoke", "restore", "deploy portal"}
        /\ L1Block /\ UNCHANGED <<net, manifest, env, marker, services, work>>
    BY DEF SeedRoots, TryRevocation, RestoreRoot, DeployPortal, Files, Outside
  <1>2. boot.run \in Run
    BY <1>1, LastStages
  <1>3. chain.certified \in SUBSET Run /\ chain.portals \in SUBSET Run
    BY DEF DeploymentInv, ChainShape
  <1> PICK C \in SUBSET Run, P \in SUBSET Run : C = chain.certified /\ P = chain.portals
    BY <1>3
  <1>4. CASE SeedRoots \/ RestoreRoot
    <2>1. PICK s \in {"revoke", "deploy portal"} :
            /\ boot' = [boot EXCEPT !.at = s]
            /\ chain' = [chain EXCEPT !.certified = C \cup {boot.run}, !.portals = P]
      BY <1>4 DEF SeedRoots, RestoreRoot, GoTo, DeploymentInv, ChainShape
    <2>2. C \cup {boot.run} \in SUBSET Run
      BY <1>2
    <2> QED
      BY <1>1, <2>1, <2>2, RecoveryStage
  <1>5. CASE TryRevocation
    <2>1. /\ boot' = [boot EXCEPT !.at = "restore"]
          /\ chain' = [chain EXCEPT !.certified = C \ {boot.run}, !.portals = P]
      BY <1>5 DEF TryRevocation, GoTo, DeploymentInv, ChainShape
    <2>2. C \ {boot.run} \in SUBSET Run
      OBVIOUS
    <2>3. "restore" \in Recovering /\ "restore" \notin Rooted /\ "restore" \notin Posted
          /\ "restore" \notin Pinned /\ boot.at \in Recovering
      BY <1>1
    <2> QED
      BY <1>1, <2>1, <2>2, <2>3, RecoveryStage
  <1>6. CASE DeployPortal
    <2>1. /\ boot' = [boot EXCEPT !.at = "pin"]
          /\ chain' = [chain EXCEPT !.certified = C, !.portals = P \cup {boot.run}]
      BY <1>6 DEF DeployPortal, GoTo, DeploymentInv, ChainShape
    <2>2. P \cup {boot.run} \in SUBSET Run /\ boot.run \in C
      BY <1>2, <1>6 DEF DeployPortal, DeploymentInv, Completing
    <2>3. "pin" \in Recovering /\ "pin" \notin Pinned /\ boot.at \in Recovering
      BY <1>1
    <2> QED
      BY <1>1, <1>2, <2>1, <2>2, <2>3, RecoveryStage
  <1> QED
    BY <1>4, <1>5, <1>6

LEMMA PinPortalKeeps ==
    ASSUME DeploymentInv, PinPortal
    PROVE  DeploymentInv'
  <1>1. boot.at = "pin" /\ UNCHANGED <<net, manifest, env, marker, services, work>>
    BY DEF PinPortal, Files, Outside
  <1>2. /\ boot.run \in Run /\ boot.final /\ manifest.apps = boot.run /\ manifest.net = net
        /\ boot.run \in chain.certified /\ boot.run \in chain.portals
    BY <1>1, LastStages DEF DeploymentInv, Completing
  <1>3. CASE chain.pinned[manifest.apps] # None
    BY <1>1, <1>3, HaltKeeps DEF PinPortal, Stop, GoTo, ClockMoves
  <1>4. CASE chain.pinned[manifest.apps] = None
    <2> PICK p : p = [chain.pinned EXCEPT ![boot.run] = boot.run]
      OBVIOUS
    <2>1. /\ ClockMoves /\ boot' = [boot EXCEPT !.at = "portal"]
          /\ chain' = [chain EXCEPT !.pinned = p]
      BY <1>2, <1>4 DEF PinPortal, ClockMoves, GoTo
    <2>2. ChainShape
      BY DEF DeploymentInv
    <2>3. p \in [Run -> Deploys] /\ p[boot.run] = boot.run
      BY <1>2, <2>2 DEF ChainShape, Deploys
    <2>4. /\ ChainShape' /\ chain'.pinned = p
          /\ chain'.certified = chain.certified /\ chain'.portals = chain.portals
          /\ chain'.rights = chain.rights /\ chain'.tokens = chain.tokens
          /\ chain'.apps = chain.apps /\ chain'.due = chain.due
          /\ chain'.credited = chain.credited
          /\ chain'.funded = chain.funded /\ chain'.credit = chain.credit
      BY <1>1, <2>1, <2>2, <2>3 DEF ChainShape
    <2>5. chain.due[boot.run] <= l1' /\ chain.due[boot.run] <= l1' + Delay
      BY <1>1, <2>1, DueLasts
    <2>6. boot'.at = "portal" /\ boot'.run = boot.run /\ boot'.final = boot.final
      BY <2>1 DEF DeploymentInv, BootShape
    <2>7. BootShape' /\ FileShape' /\ OnThisNetwork'
      BY <1>1, <1>2, <2>1, <2>4, <2>6 DEF DeploymentInv, BootShape, FileShape, OnThisNetwork, Settled
    <2>8. Behind'
      BY <1>1, <1>2, <2>4, <2>5, <2>6, LastStages DEF Behind
    <2>9. Completing'
      BY <1>1, <1>2, <2>3, <2>4, <2>5, <2>6, LastStages DEF Completing
    <2> QED
      BY <1>1, <2>1, <2>4, <2>7, <2>8, <2>9, AtWork, StageKeeps
  <1> QED
    BY <1>3, <1>4

LEMMA WritePortalKeeps ==
    ASSUME DeploymentInv, WritePortal
    PROVE  DeploymentInv'
  <1>1. /\ boot.at = "portal" /\ ClockMoves
        /\ UNCHANGED <<chain, net, env, marker, services, work>>
        /\ boot' = [boot EXCEPT !.at = "api"] /\ manifest' = [manifest EXCEPT !.portal = boot.run]
    BY DEF WritePortal, ClockMoves, Outside, GoTo
  <1>2. /\ boot.run \in Run /\ boot.final /\ manifest.apps = boot.run /\ manifest.net = net
        /\ boot.run \in chain.certified /\ boot.run \in chain.portals
        /\ chain.pinned[boot.run] = boot.run /\ manifest \in Manifests
    BY <1>1, LastStages DEF DeploymentInv, Completing
  <1>3. /\ manifest' \in Manifests /\ manifest'.apps = manifest.apps /\ manifest'.net = manifest.net
        /\ manifest'.rights = manifest.rights /\ manifest'.token = manifest.token
        /\ manifest'.portal = boot.run
    BY <1>1, <1>2 DEF Manifests, Deploys
  <1>4. boot'.at = "api" /\ boot'.run = boot.run /\ boot'.final = boot.final
    BY <1>1 DEF DeploymentInv, BootShape
  <1>5. BootShape' /\ FileShape'
    BY <1>1, <1>2, <1>3, <1>4 DEF DeploymentInv, BootShape, FileShape, Settled
  <1>6. ChainShape' /\ OnThisNetwork'
    BY <1>1, <1>2, <1>3, ManifestExists DEF DeploymentInv, ChainShape, OnThisNetwork
  <1>7. chain.due[boot.run] <= l1' /\ chain.due[boot.run] <= l1' + Delay
    BY <1>1, DueLasts
  <1>8. Behind'
    BY <1>1, <1>2, <1>3, <1>4, <1>7, ManifestExists, LastStages DEF Behind
  <1>9. Completing'
    BY <1>1, <1>2, <1>3, <1>4, <1>7, LastStages DEF Completing
  <1> QED
    BY <1>1, <1>5, <1>6, <1>8, <1>9, AtWork, StageKeeps

LEMMA WriteApiEnvKeeps ==
    ASSUME DeploymentInv, WriteApiEnv
    PROVE  DeploymentInv'
  <1>1. /\ boot.at = "api" /\ ClockMoves
        /\ UNCHANGED <<chain, net, manifest, marker, services, work>>
        /\ boot' = [boot EXCEPT !.at = "activate"] /\ env' = [env EXCEPT !.api = manifest.apps]
    BY DEF WriteApiEnv, ClockMoves, Outside, GoTo
  <1>2. /\ boot.run \in Run /\ boot.final /\ manifest.apps = boot.run /\ manifest.net = net
        /\ boot.run \in chain.certified /\ boot.run \in chain.portals
        /\ chain.pinned[boot.run] = boot.run /\ manifest.portal = boot.run
    BY <1>1, LastStages DEF DeploymentInv, Completing
  <1>3. /\ FileShape' /\ env'.api = boot.run
        /\ env'.page = env.page /\ env'.dapp = env.dapp
    BY <1>1, <1>2 DEF DeploymentInv, FileShape, Deploys
  <1>4. boot'.at = "activate" /\ boot'.run = boot.run /\ boot'.final = boot.final
    BY <1>1 DEF DeploymentInv, BootShape
  <1>5. BootShape'
    BY <1>1, <1>2, <1>4 DEF DeploymentInv, BootShape, Settled
  <1>6. ChainShape' /\ OnThisNetwork'
    BY <1>1 DEF DeploymentInv, ChainShape, OnThisNetwork
  <1>7. chain.due[boot.run] <= l1' /\ chain.due[boot.run] <= l1' + Delay
    BY <1>1, DueLasts
  <1>8. Behind'
    BY <1>1, <1>2, <1>3, <1>4, <1>7, LastStages DEF Behind
  <1>9. Completing'
    BY <1>1, <1>2, <1>3, <1>4, <1>7, LastStages DEF Completing
  <1> QED
    BY <1>1, <1>3, <1>5, <1>6, <1>8, <1>9, AtWork, StageKeeps

(* Where every stage has led. *)
LEMMA EndIsUsable ==
    ASSUME DeploymentInv, boot.at = "marker"
    PROVE  /\ Usable /\ manifest \in Manifests /\ manifest # None /\ manifest.net = net
           /\ manifest.apps \in Run /\ manifest.portal \in Run
           /\ \A f \in DOMAIN env : env[f] = manifest.apps
  <1>1. boot.at \in Closing
    OBVIOUS
  <1>2. /\ manifest.net = net /\ boot.run \in chain.certified /\ boot.run \in chain.portals
        /\ chain.pinned[boot.run] = boot.run /\ manifest.portal = boot.run /\ env.api = boot.run
    BY DEF DeploymentInv, Completing
  <1>3. \A f \in DOMAIN env : env[f] = boot.run
    BY <1>1, <1>2, LastStages DEF DeploymentInv, FileShape
  <1>4. manifest.rights \in chain.rights /\ manifest.token \in chain.tokens
    BY <1>1, <1>2, LastStages DEF DeploymentInv, OnThisNetwork
  <1> QED
    BY <1>1, <1>2, <1>3, <1>4, LastStages DEF Usable

LEMMA WriteMarkerKeeps ==
    ASSUME DeploymentInv, WriteMarker
    PROVE  DeploymentInv'
  <1>1. /\ boot.at = "marker" /\ ClockMoves /\ l1' = l1
        /\ UNCHANGED <<chain, net, manifest, env, services, work>>
        /\ boot' = [boot EXCEPT !.at = "done"] /\ marker' = manifest
    BY DEF WriteMarker, ClockMoves, Outside, GoTo, clockVars
  <1>2. boot'.at = "done" /\ boot'.run = boot.run
    BY <1>1 DEF DeploymentInv, BootShape
  <1>3. BootShape' /\ FileShape'
    BY <1>1, <1>2, EndIsUsable DEF DeploymentInv, BootShape, FileShape, Settled, Resting
  <1>4. Behind' /\ Completing'
    BY <1>2 DEF Behind, Completing
  <1>5. Usable'
    BY <1>1, EndIsUsable DEF Usable
  <1>6. Complete'
    BY <1>1, <1>2, <1>5, EndIsUsable DEF Complete, Resting
  <1>7. services = None
    BY <1>1 DEF DeploymentInv, Complete, Serving, Resting
  <1>8. ChainShape' /\ OnThisNetwork' /\ Serving' /\ Tested'
    BY <1>1, <1>7 DEF DeploymentInv, ChainShape, OnThisNetwork, Serving, Tested
  <1>9. ClockShape'
    BY <1>1, ClockKeeps DEF DeploymentInv
  <1> QED
    BY <1>3, <1>4, <1>6, <1>8, <1>9 DEF DeploymentInv

-----------------------------------------------------------------------------
(* The operator, what runs beside a bootstrap, and restarts. *)
LEMMA OperatorKeeps ==
    ASSUME DeploymentInv, Begin \/ BootstrapDies
    PROVE  DeploymentInv'
  <1>1. /\ ClockMoves /\ UNCHANGED <<chain, net, manifest, env, marker, services, work>>
    BY DEF Begin, BootstrapDies, Stop, ClockMoves, Files, Outside
  <1>2. CASE Begin
    <2>1. /\ boot.run \in Nat /\ boot.run < MaxRuns /\ MaxRuns \in Nat
          /\ boot' = [at |-> "check", run |-> boot.run + 1, claim |-> 0, token |-> None,
                      final |-> FALSE]
      BY <1>2, DeploymentAssumption DEF Begin, DeploymentInv, BootShape
    <2>2. boot.run + 1 \in Run /\ boot.run + 1 \in Nat /\ boot.run + 1 <= MaxRuns
      BY <2>1 DEF Run
    <2>3. BootShape' /\ boot'.at \in Resting /\ boot'.at = "check"
      BY <2>1, <2>2 DEF BootShape, Resting, Settled, Deploys
    <2> QED
      BY <1>1, <2>1, <2>3, RestKeeps
  <1>3. CASE BootstrapDies
    BY <1>1, <1>3, HaltKeeps DEF BootstrapDies, Stop, GoTo
  <1> QED
    BY <1>2, <1>3

LEMMA ServicesKeep ==
    ASSUME DeploymentInv, StartServices \/ StopServices
    PROVE  DeploymentInv'
  <1>1. UNCHANGED <<clockVars, chain, net, manifest, env, marker, boot, work>>
    BY DEF StartServices, StopServices, Files
  <1>2. ClockMoves /\ l1' = l1
    BY <1>1 DEF ClockMoves, clockVars
  <1>3. ClockShape'
    BY <1>2, ClockKeeps DEF DeploymentInv
  <1>4. Serving'
    BY <1>1 DEF DeploymentInv, Serving, StartServices, StopServices
  <1>5. Behind' /\ Completing'
    BY <1>1, <1>2 DEF DeploymentInv, Behind, Completing
  <1>6. Complete'
    BY <1>1, <1>2 DEF DeploymentInv, Complete, Usable
  <1>7. ChainShape' /\ FileShape' /\ BootShape' /\ OnThisNetwork'
    BY <1>1 DEF DeploymentInv, ChainShape, FileShape, BootShape, Settled, OnThisNetwork
  <1>8. Tested'
    BY <1>1 DEF DeploymentInv, Tested
  <1> QED
    BY <1>3, <1>4, <1>5, <1>6, <1>7, <1>8 DEF DeploymentInv

LEMMA EmptyShape ==
    ASSUME NEW T \in SUBSET Run, NEW P \in SUBSET Run, NEW C \in SUBSET Run,
           net' \in Nat,
           chain' \in {Empty, [Empty EXCEPT !.tokens = T, !.portals = P, !.certified = C]}
    PROVE  ChainShape'
  <1> PICK p, d : p = [a \in Run |-> None] /\ d = [a \in Run |-> 0]
    OBVIOUS
  <1>1. p \in [Run -> Deploys] /\ d \in [Run -> Int]
    BY DEF Deploys
  <1>2. Empty = [rights |-> {}, apps |-> {}, tokens |-> {}, portals |-> {}, certified |-> {},
                 credited |-> {}, funded |-> {}, pinned |-> p, due |-> d, credit |-> 0]
    BY DEF Empty
  <1>3. PICK t \in SUBSET Run, q \in SUBSET Run, c \in SUBSET Run :
          chain' = [rights |-> {}, apps |-> {}, tokens |-> t, portals |-> q, certified |-> c,
                    credited |-> {}, funded |-> {}, pinned |-> p, due |-> d, credit |-> 0]
    <2>1. CASE chain' = Empty
      BY <1>2, <2>1
    <2>2. CASE chain' = [Empty EXCEPT !.tokens = T, !.portals = P, !.certified = C]
      <3>1. chain' = [rights |-> {}, apps |-> {}, tokens |-> T, portals |-> P, certified |-> C,
                      credited |-> {}, funded |-> {}, pinned |-> p, due |-> d, credit |-> 0]
        BY <1>2, <2>2
      <3> QED
        BY <3>1
    <2> QED
      BY <2>1, <2>2
  <1> QED
    BY <1>1, <1>3 DEF ChainShape

LEMMA AtRest ==
    ASSUME NEW t \in Int, work' = Rest \/ work' = [Rest EXCEPT !.at = "funding", !.claim = t]
    PROVE  Tested'
  <1>1. CASE work' = Rest
    <2>1. work' = [at |-> "off", before |-> 0, claim |-> 0, credits |-> 0, sent |-> FALSE]
      BY <1>1 DEF Rest
    <2>2. work' \in TestShape
      BY <2>1 DEF TestShape, Tests
    <2> QED
      BY <2>1, <2>2 DEF Tested, Answered
  <1>2. CASE work' = [Rest EXCEPT !.at = "funding", !.claim = t]
    <2>1. work' = [at |-> "funding", before |-> 0, claim |-> t, credits |-> 0, sent |-> FALSE]
      BY <1>2 DEF Rest
    <2>2. work' \in TestShape
      BY <2>1 DEF TestShape, Tests
    <2> QED
      BY <2>1, <2>2 DEF Tested, Answered
  <1> QED
    BY <1>1, <1>2

(* A network of a later number, with no more on L2 than nothing.            *)
LEMMA RestartKeeps ==
    ASSUME DeploymentInv, Interrupted, net' = net + 1, ClockShape',
           NEW T \in SUBSET Run, NEW P \in SUBSET Run, NEW C \in SUBSET Run,
           chain' \in {Empty, [Empty EXCEPT !.tokens = T, !.portals = P, !.certified = C]},
           \/ UNCHANGED <<manifest, env, marker>>
           \/ manifest' = None /\ env' = NoFiles /\ marker' = None
    PROVE  DeploymentInv'
  <1>1. /\ services' = None /\ work' = Rest /\ boot' = [boot EXCEPT !.at = "off"]
        /\ boot'.at = "off" /\ boot'.run = boot.run
    BY DEF Interrupted, DeploymentInv, BootShape
  <1>2. net \in Nat /\ net' \in Nat /\ (manifest # None => manifest.net \in Nat /\ manifest.net < net')
    BY DEF DeploymentInv, ChainShape, OnThisNetwork, FileShape, Manifests
  <1>3. ChainShape'
    BY <1>2, EmptyShape
  <1>4. FileShape' /\ BootShape'
    <2>1. FileShape'
      BY DEF DeploymentInv, FileShape, NoFiles, Deploys
    <2>2. BootShape'
      BY <1>1 DEF DeploymentInv, BootShape, Settled, Resting
    <2> QED
      BY <2>1, <2>2
  <1>5. OnThisNetwork' /\ Complete' /\ Serving'
    BY <1>1, <1>2 DEF DeploymentInv, OnThisNetwork, Complete, Serving, Resting
  <1>6. Behind' /\ Completing'
    BY <1>1 DEF Behind, Completing
  <1>7. Tested'
    <2>1. 0 \in Int /\ work' = Rest
      BY <1>1
    <2> QED
      BY <2>1, AtRest
  <1> QED
    BY <1>3, <1>4, <1>5, <1>6, <1>7 DEF DeploymentInv

LEMMA RestartsKeep ==
    ASSUME DeploymentInv,
           \/ RestartNode \/ RestartChain
           \/ \E loaded, buildOnly \in BOOLEAN : FreshStart(loaded, buildOnly)
    PROVE  DeploymentInv' \/ UNCHANGED vars
  <1>1. PICK T \in SUBSET Run, P \in SUBSET Run, C \in SUBSET Run :
          T = chain.tokens /\ P = chain.portals /\ C = chain.certified
    BY DEF DeploymentInv, ChainShape
  <1>3. CASE RestartNode
    <2>1. /\ Interrupted /\ net' = net + 1 /\ UNCHANGED <<manifest, env, marker>>
          /\ chain' = [Empty EXCEPT !.tokens = T, !.portals = P, !.certified = C]
      BY <1>1, <1>3 DEF RestartNode, Files
    <2>2. ClockShape'
      BY <1>3, NodeStartsKeeps DEF RestartNode, DeploymentInv
    <2> QED
      BY <2>1, <2>2, RestartKeeps
  <1>4. CASE RestartChain
    <2>1. /\ Interrupted /\ net' = net + 1 /\ UNCHANGED <<manifest, env, marker>>
          /\ chain' = Empty
      BY <1>4 DEF RestartChain, Files
    <2>2. ClockShape'
      BY <1>4, ChainStartsKeeps DEF RestartChain, DeploymentInv
    <2> QED
      BY <2>1, <2>2, RestartKeeps
  <1>5. ASSUME NEW loaded \in BOOLEAN, NEW buildOnly \in BOOLEAN, FreshStart(loaded, buildOnly)
        PROVE  DeploymentInv' \/ UNCHANGED vars
    <2>1. CASE loaded /\ ~buildOnly
      <3>1. /\ Interrupted /\ net' = net + 1 /\ ChainStarts /\ chain' = Empty
            /\ manifest' = None /\ env' = NoFiles /\ marker' = None
        BY <1>5, <2>1 DEF FreshStart
      <3>2. ClockShape'
        BY <3>1, ChainStartsKeeps DEF DeploymentInv
      <3> QED
        BY <3>1, <3>2, RestartKeeps
    <2> QED
      BY <1>5, <2>1 DEF FreshStart
  <1> QED
    BY <1>3, <1>4, <1>5

(* Smoke tests, fundings, traffic and the clock: what a test knows of its   *)
(* claim.                                                                   *)
LEMMA TestGoesOn ==
    ASSUME Tested, NEW s \in Tests, NEW t \in Int, NEW n \in {0, 1}, NEW d \in BOOLEAN,
           work' = [work EXCEPT !.at = s, !.claim = t, !.credits = n, !.sent = d],
           s \in {"valid", "bought"} => n = 0 /\ ~d,
           s = "claiming" /\ ~d => n = 1,
           s \in Answered => n = 1
    PROVE  Tested'
  <1>1. /\ work' \in TestShape
        /\ work'.at = s /\ work'.credits = n /\ work'.sent = d
    BY DEF Tested, TestShape
  <1> QED
    BY <1>1 DEF Tested

(* Of the fields a step leaves out, the EXCEPT says nothing new.            *)
LEMMA TestFields ==
    ASSUME Tested, NEW s, NEW t, NEW n, NEW d
    PROVE  /\ work.at \in Tests /\ work.claim \in Int /\ work.credits \in {0, 1} /\ work.sent \in BOOLEAN
           /\ [work EXCEPT !.at = s]
                = [work EXCEPT !.at = s, !.claim = work.claim, !.credits = work.credits, !.sent = work.sent]
           /\ [work EXCEPT !.at = s, !.claim = t]
                = [work EXCEPT !.at = s, !.claim = t, !.credits = work.credits, !.sent = work.sent]
           /\ [work EXCEPT !.at = s, !.sent = d]
                = [work EXCEPT !.at = s, !.claim = work.claim, !.credits = work.credits, !.sent = d]
           /\ [work EXCEPT !.at = s, !.credits = n]
                = [work EXCEPT !.at = s, !.claim = work.claim, !.credits = n, !.sent = work.sent]
           /\ [work EXCEPT !.sent = d, !.credits = n]
                = [work EXCEPT !.at = work.at, !.claim = work.claim, !.credits = n, !.sent = d]
           /\ [work EXCEPT !.sent = d]
                = [work EXCEPT !.at = work.at, !.claim = work.claim, !.credits = work.credits, !.sent = d]
  BY DEF Tested, TestShape

LEMMA TestsKeep ==
    ASSUME DeploymentInv, Modes, ClockShape'
    PROVE  Tested'
  <1>1. /\ Tested /\ chain.credit \in Int /\ l1' \in Int
        /\ work.at \in Tests /\ work.claim \in Int /\ work.credits \in {0, 1} /\ work.sent \in BOOLEAN
    BY TestFields DEF DeploymentInv, ChainShape, ClockShape
  <1>2. CASE Validate
    <2>1. PICK s : s \in {"valid", "failed"} /\ work' = [Rest EXCEPT !.at = s, !.before = chain.credit]
      BY <1>2 DEF Validate
    <2>2. work' = [at |-> s, before |-> chain.credit, claim |-> 0, credits |-> 0, sent |-> FALSE]
      BY <2>1 DEF Rest
    <2>3. s \in Tests /\ s # "claiming" /\ s \notin Answered
      BY <2>1 DEF Tests, Answered
    <2>4. work' \in TestShape
      BY <1>1, <2>2, <2>3 DEF TestShape
    <2> QED
      BY <2>2, <2>3, <2>4 DEF Tested
  <1>3. CASE ConsumeOne
    <2>1. 0 \in Int /\ work' = Rest
      BY <1>3 DEF ConsumeOne
    <2> QED
      BY <2>1, AtRest
  <1>4. CASE SmokeBuy
    <2>1. PICK s \in {"bought", "failed"} : work' = [work EXCEPT !.at = s, !.claim = l1']
      BY <1>4 DEF SmokeBuy
    <2>2. work.credits = 0 /\ ~work.sent
      BY <1>1, <1>4 DEF SmokeBuy, Tested
    <2>3. s \in Tests /\ s \notin Answered /\ s # "claiming"
      BY <2>1 DEF Tests, Answered
    <2>4. work' = [work EXCEPT !.at = s, !.claim = l1', !.credits = work.credits, !.sent = work.sent]
      BY <1>1, <2>1, TestFields
    <2> QED
      BY <1>1, <2>2, <2>3, <2>4, TestGoesOn
  <1>5. CASE IncludeClaim
    <2>1. work.at \notin {"valid", "bought"} /\ FALSE \in BOOLEAN
      BY <1>1, <1>5 DEF IncludeClaim, Tested
    <2>2. CASE work.credits = 0
      <3>1. work' = [work EXCEPT !.sent = FALSE, !.credits = 1]
        BY <1>5, <2>2 DEF IncludeClaim, Unspent
      <3>2. work' = [work EXCEPT !.at = work.at, !.claim = work.claim, !.credits = 1, !.sent = FALSE]
        BY <1>1, <3>1, TestFields
      <3> QED
        BY <1>1, <2>1, <3>2, TestGoesOn
    <2>3. CASE work.credits = 1
      <3>1. work' = [work EXCEPT !.sent = FALSE]
        BY <1>5, <2>3 DEF IncludeClaim, Unspent
      <3>2. work' = [work EXCEPT !.at = work.at, !.claim = work.claim, !.credits = work.credits,
                                 !.sent = FALSE]
        BY <1>1, <3>1, TestFields
      <3> QED
        BY <1>1, <2>1, <2>3, <3>2, TestGoesOn
    <2> QED
      BY <1>1, <2>2, <2>3
  <1>6. CASE SmokeL2
    <2>1. work' = [work EXCEPT !.at = "credited", !.credits = 1]
      BY <1>6 DEF SmokeL2
    <2>2. "credited" \in Tests
      BY DEF Tests, Answered
    <2>3. work' = [work EXCEPT !.at = "credited", !.claim = work.claim, !.credits = 1, !.sent = work.sent]
      BY <1>1, <2>1, TestFields
    <2> QED
      BY <1>1, <2>2, <2>3, TestGoesOn
  <1>7. CASE SendClaim
    <2>1. work' = [work EXCEPT !.at = "claiming", !.sent = TRUE]
      BY <1>7 DEF SendClaim
    <2>2. "claiming" \in Tests /\ "claiming" \notin Answered /\ TRUE \in BOOLEAN
      BY DEF Tests, Answered
    <2>3. work' = [work EXCEPT !.at = "claiming", !.claim = work.claim, !.credits = work.credits,
                               !.sent = TRUE]
      BY <1>1, <2>1, TestFields
    <2> QED
      BY <1>1, <2>2, <2>3, TestGoesOn
  <1>8. CASE Replay
    <2>1. PICK sent \in BOOLEAN : work' = [work EXCEPT !.at = "passed", !.sent = sent]
      BY <1>8 DEF Replay
    <2>2. "passed" \in Tests /\ work.credits = 1
      BY <1>1, <1>8 DEF Tests, Answered, Replay, Tested
    <2>3. work' = [work EXCEPT !.at = "passed", !.claim = work.claim, !.credits = work.credits,
                               !.sent = sent]
      BY <1>1, <2>1, TestFields
    <2> QED
      BY <1>1, <2>2, <2>3, TestGoesOn
  <1>9. CASE ClaimAnswered \/ CheckBalance \/ SmokeFails
    <2>1. PICK s \in {"claimed", "checked", "passed", "failed"} :
            /\ work' = [work EXCEPT !.at = s]
            /\ s # "failed" => work.at \in Answered \/ (work.at = "claiming" /\ ~work.sent)
      BY <1>9 DEF ClaimAnswered, CheckBalance, SmokeFails, Included, Answered
    <2>2. s # "failed" => work.credits = 1
      BY <1>1, <2>1 DEF Tested
    <2>3. s \in Tests /\ "failed" \notin Answered /\ s \notin {"valid", "bought", "claiming"}
      BY <2>1 DEF Tests, Answered
    <2>4. work' = [work EXCEPT !.at = s, !.claim = work.claim, !.credits = work.credits,
                               !.sent = work.sent]
      BY <1>1, <2>1, TestFields
    <2> QED
      BY <1>1, <2>2, <2>3, <2>4, TestGoesOn
  <1> QED
    BY <1>2, <1>3, <1>4, <1>5, <1>6, <1>7, <1>8, <1>9 DEF Modes

LEMMA CreditOnly ==
    ASSUME DeploymentInv, NEW by \in Int, Credit(by)
    PROVE  \E c \in Int : chain' = [chain EXCEPT !.credit = c]
  <1>1. chain.credit + by \in Int /\ chain' = [chain EXCEPT !.credit = chain.credit + by]
    BY DEF DeploymentInv, ChainShape, Credit
  <1> QED
    BY <1>1

LEMMA ModesKeep ==
    ASSUME DeploymentInv, Modes
    PROVE  DeploymentInv'
  <1>1. /\ ClockMoves /\ UNCHANGED <<net, manifest, env, marker, boot, services>>
    BY DEF Modes, Validate, SmokeBuy, SendClaim, IncludeClaim, ClaimAnswered, SmokeL2, CheckBalance,
           Replay, ConsumeOne, SmokeFails, ClockMoves, stack, Files
  <1>2. chain' = chain \/ Credit(1) \/ Credit(-1)
    BY DEF Modes, Validate, SmokeBuy, SendClaim, IncludeClaim, ClaimAnswered, SmokeL2, CheckBalance,
           Replay, ConsumeOne, SmokeFails, stack
  <1>3. chain' = chain \/ \E c \in Int : chain' = [chain EXCEPT !.credit = c]
    BY <1>2, CreditOnly
  <1>4. Tested'
    BY <1>1, ClockKeeps, TestsKeep DEF DeploymentInv
  <1> QED
    BY <1>1, <1>3, <1>4, BesideKeeps

LEMMA OthersKeep ==
    ASSUME DeploymentInv, Funding \/ Traffic \/ ClockStep \/ WaitForInbox \/ UNCHANGED vars
    PROVE  DeploymentInv'
  <1>1. UNCHANGED <<net, manifest, env, marker, boot, services>>
    BY DEF Funding, FundBegins, FundWaits, FundClaims, FundFails, Traffic, ClockStep, WaitForInbox,
           vars, stack, Files
  <1>2. chain' = chain \/ \E c \in Int : chain' = [chain EXCEPT !.credit = c]
    <2>1. CASE Traffic
      <3>1. chain' = chain \/ Credit(1) \/ Credit(-1)
        BY <2>1 DEF Traffic
      <3> QED
        BY <3>1, CreditOnly
    <2>2. CASE ~Traffic
      BY <2>2 DEF Funding, FundBegins, FundWaits, FundClaims, FundFails, ClockStep, WaitForInbox,
                  vars, stack
    <2> QED
      BY <2>1, <2>2
  <1>3. ClockMoves
    <2>1. l1 + 1 \in Int /\ wall \in Int
      BY DEF DeploymentInv, ClockShape
    <2>2. CASE Funding
      BY <2>1, <2>2 DEF Funding, FundBegins, FundWaits, FundClaims, FundFails, AdvanceFunding,
                        ClockMoves
    <2>3. CASE WaitForInbox
      BY <2>1, <2>3 DEF WaitForInbox, AdvanceInbox, ClockMoves
    <2>4. CASE Traffic \/ ClockStep \/ UNCHANGED vars
      BY <2>4 DEF Traffic, ClockStep, KeepAlive, ClockMoves, vars
    <2> QED
      BY <2>2, <2>3, <2>4
  <1>4. Tested'
    <2>1. work' = work \/ work' = Rest \/ work' = [Rest EXCEPT !.at = "funding", !.claim = l1']
      BY DEF Funding, FundBegins, FundWaits, FundClaims, FundFails, Traffic, ClockStep,
             WaitForInbox, vars
    <2>2. l1' \in Int
      BY <1>3, ClockKeeps DEF DeploymentInv, ClockShape
    <2>3. CASE work' = work
      BY <2>3 DEF DeploymentInv, Tested
    <2> QED
      BY <2>1, <2>2, <2>3, AtRest
  <1> QED
    BY <1>1, <1>2, <1>3, <1>4, BesideKeeps

-----------------------------------------------------------------------------
(* The invariant, and what a deployment keeps. *)
LEMMA DeploymentInductive == DeploymentSpec => []DeploymentInv
  <1>1. DeploymentInit => DeploymentInv
    <2> SUFFICES ASSUME DeploymentInit PROVE DeploymentInv
      OBVIOUS
    <2>1. ClockShape
      BY ClockAssumption DEF DeploymentInit, ClockInit, ClockShape, DriftDoesNotAccumulate, Genesis, Phases
    <2>2. ChainShape /\ FileShape
      BY DEF DeploymentInit, ChainShape, FileShape, Empty, NoFiles, Deploys
    <2>3. BootShape
      BY DeploymentAssumption DEF DeploymentInit, BootShape, Settled, Resting, Deploys
    <2>4. OnThisNetwork /\ Behind /\ Completing /\ Complete /\ Serving
      BY DEF DeploymentInit, OnThisNetwork, Behind, Completing, Complete, Serving
    <2>5. Tested
      <3> work = Rest
        BY DEF DeploymentInit
      <3> QED
        BY DEF Rest, Tested, TestShape, Tests, Answered
    <2> QED
      BY <2>1, <2>2, <2>3, <2>4, <2>5 DEF DeploymentInv
  <1>2. DeploymentInv /\ [DeploymentNext]_vars => DeploymentInv'
    <2> SUFFICES ASSUME DeploymentInv, [DeploymentNext]_vars PROVE DeploymentInv'
      OBVIOUS
    <2>1. CASE Worker
      BY <2>1, WorkerBeginsKeeps, PaymentTokenKeeps, RightsKeep, DeployRightsKeeps,
         DeployAppsKeeps, WriteManifestKeeps, WriteEnvKeeps, WarpKeeps, SeedKeeps, BridgeKeeps,
         OthersKeep, ClaimJuiceKeeps DEF Worker
    <2>2. CASE Bootstrap /\ ~Worker
      BY <2>2, LookKeeps, JudgedKeeps, RootsKeep, PinPortalKeeps, WritePortalKeeps,
         WriteApiEnvKeeps, WriteMarkerKeeps DEF Bootstrap
    <2>3. CASE Operator
      BY <2>3, OperatorKeeps, ServicesKeep, RestartsKeep, OthersKeep DEF Operator
    <2> QED
      BY <2>1, <2>2, <2>3, ModesKeep, OthersKeep DEF DeploymentNext
  <1> QED
    BY <1>1, <1>2, PTL DEF DeploymentSpec

(* While the clock is live drift does not add up, for any slot length,      *)
(* headroom, traffic, refresh and fault, and for any number of L1 blocks    *)
(* between a pacing check and its build: each checkpoint is behind the host *)
(* or ahead of it by those blocks, whatever the ones before it were         *)
(* (paceLocalCheckpoint, paceLocalWarp and activate in policy.mjs,          *)
(* patch.mjs:23).                                                           *)
THEOREM ClockDoesNotDrift == DeploymentSpec => []DriftDoesNotAccumulate
  <1>1. DeploymentInv => DriftDoesNotAccumulate
    BY DEF DeploymentInv, ClockShape
  <1> QED
    BY <1>1, DeploymentInductive, PTL

(* A smoke test that passes has had its own purchase credited, once, whoever *)
(* else buys and consumes, whatever waits failed and whenever the replay it *)
(* sent is included: the answer of the claim is of a call that spent the    *)
(* nullifier of its message (runSmokeL1 in magna-testnet-validate.mjs).     *)
THEOREM SmokeTestsAreTrue == DeploymentSpec => []PassedMeansCredited
  <1>1. DeploymentInv => PassedMeansCredited
    BY DEF DeploymentInv, Tested, TestShape, Answered, PassedMeansCredited
  <1> QED
    BY <1>1, DeploymentInductive, PTL

(* Services that run are of the one deployment the manifest names, whatever *)
(* attempts were refused or died since (assertFreshOutput, the owner line   *)
(* of fill-env-from-local-deploy.mjs, start-docker-service.mjs).            *)
THEOREM ServicesAreOfOneDeployment == DeploymentSpec => []ServicesAgree
  <1>1. DeploymentInv => ServicesAgree
    <2> SUFFICES ASSUME DeploymentInv, services # None
                 PROVE  /\ services.page = services.api /\ services.page = services.dapp
                        /\ manifest # None /\ manifest.apps = services.page
                        /\ manifest.portal # None
      BY DEF ServicesAgree
    <2>1. /\ marker # None /\ services = [page |-> env.page, dapp |-> env.dapp, api |-> env.api]
      BY DEF DeploymentInv, Serving
    <2>2. manifest # None /\ manifest.portal # None
      BY <2>1, DeploymentAssumption DEF DeploymentInv, Complete, Run
    <2>3. \A f \in {"page", "dapp", "api"} : env[f] = manifest.apps
      BY <2>1 DEF DeploymentInv, Complete, FileShape
    <2> QED
      BY <2>1, <2>2, <2>3
  <1> QED
    BY <1>1, DeploymentInductive, PTL

(* Only two steps end a bootstrap well. *)
LEMMA WhoIsDone ==
    ASSUME DeploymentInv, [DeploymentNext]_vars, boot.at # "done", boot'.at = "done"
    PROVE  Reuse \/ WriteMarker
  <1>1. \A s : [boot EXCEPT !.at = s].at = s
    BY DEF DeploymentInv, BootShape
  <1>2. ~Worker
    BY <1>1 DEF Worker, WorkerBegins, PaymentToken, Preflight, DeployRights, RightsFail,
       DeployApps, WriteManifest, WriteEnv, AfterOutputs, WarpPastDelay, Seed, Bridge,
       WaitForInbox, ClaimJuice, GoTo, Stop, stack, DeploymentInv, BootShape
  <1>3. ASSUME Judge \/ Wrapper \/ WorkerExits \/ ReadRoots \/ SeedRoots \/ TryRevocation
               \/ RestoreRoot \/ DeployPortal \/ PinPortal \/ WritePortal \/ WriteApiEnv
               \/ ActivateClock
        PROVE  FALSE
    BY <1>1, <1>3 DEF Judge, Wrapper, WorkerExits, ReadRoots, SeedRoots, TryRevocation,
       RestoreRoot, DeployPortal, PinPortal, WritePortal, WriteApiEnv, ActivateClock, GoTo, Stop
  <1>4. ~Operator
    <2>1. ~(RestartNode \/ RestartChain \/ BootstrapDies)
      BY <1>1 DEF RestartNode, RestartChain, BootstrapDies, Interrupted, GoTo, Stop
    <2>2. ~\E loaded, buildOnly \in BOOLEAN : FreshStart(loaded, buildOnly)
      BY <1>1 DEF FreshStart, Interrupted, vars, stack
    <2>3. ~(Begin \/ StartServices \/ StopServices)
      BY DEF Begin, StartServices, StopServices
    <2> QED
      BY <2>1, <2>2, <2>3 DEF Operator
  <1>5. ~(Modes \/ Funding \/ Traffic \/ ClockStep \/ UNCHANGED vars)
    BY DEF Modes, Validate, SmokeBuy, SendClaim, IncludeClaim, ClaimAnswered, SmokeL2, CheckBalance,
       Replay, ConsumeOne, SmokeFails, Funding, FundBegins, FundWaits, FundClaims, FundFails, Traffic,
       ClockStep, vars, stack
  <1> QED
    BY <1>2, <1>3, <1>4, <1>5 DEF DeploymentNext, Bootstrap

(* A step that ends a bootstrap well leaves a network that can be used, for *)
(* any number of attempts, networks and delays, whether it wrote the marker *)
(* or found it (existingBootstrapIsValid in bootstrap-docker-local.mjs).    *)
THEOREM CompletedNetworksAreUsable == DeploymentSpec => CompleteIsUsable
  <1>1. DeploymentInv /\ [DeploymentNext]_vars
          => (boot.at # "done" /\ boot'.at = "done" /\ ~OnlyL2Lost => Usable')
    <2> SUFFICES ASSUME DeploymentInv, [DeploymentNext]_vars, boot.at # "done",
                        boot'.at = "done", ~OnlyL2Lost
                 PROVE  Usable'
      OBVIOUS
    <2>1. Reuse \/ WriteMarker
      BY WhoIsDone
    <2>2. CASE WriteMarker
      <3>1. boot.at = "marker" /\ UNCHANGED <<chain, net, manifest, env>> /\ l1' = l1
        BY <2>2 DEF WriteMarker, clockVars, Outside
      <3> QED
        BY <3>1, EndIsUsable DEF Usable
    <2>3. CASE Reuse
      <3>1. /\ boot.at = "reuse" /\ ClockMoves /\ UNCHANGED <<chain, net, manifest, env, marker>>
        BY <2>3 DEF Reuse, ClockMoves, Files, Outside
      <3>2. l1 <= l1' /\ l1 \in Int /\ l1' \in Int
        BY <3>1, ClockKeeps DEF DeploymentInv, ClockShape
      <3>3. Usable /\ manifest.apps \in Run
        BY <3>1 DEF DeploymentInv, Behind, Complete, OnlyL2Lost
      <3> QED
        BY <3>1, <3>2, <3>3, UsableLasts DEF DeploymentInv
    <2> QED
      BY <2>1, <2>2, <2>3
  <1>2. DeploymentInv /\ [DeploymentNext]_vars
          => [boot.at # "done" /\ boot'.at = "done" /\ ~OnlyL2Lost => Usable']_vars
    BY <1>1
  <1> QED
    BY <1>2, DeploymentInductive, PTL DEF DeploymentSpec, CompleteIsUsable

-----------------------------------------------------------------------------
(* The headroom.  An attempt that dies before it writes an environment file *)
(* has used up a block for its token and two checkpoints; one that has      *)
(* written a file is the last until the files go with the chain.            *)
FirstCost == 2 * Slot + 1
LastCost == Delay + 4 * Slot + 6
HeadroomCovers == Headroom >= MaxRuns * FirstCost + LastCost
Others == (MaxRuns - boot.run) * FirstCost

(* How far both L1 and Anvil's own clock are behind the host.               *)
Spare == IF lag <= wall - l1 THEN lag ELSE wall - l1

(* What is left at each stage is what the rest of the way costs.            *)
Budget ==
    /\ env.page = None =>
        /\ Settled => Others + LastCost <= Spare
        /\ boot.at \in {"check", "wrapper", "worker"} => Others + FirstCost + LastCost <= Spare
    /\ boot.at = "token" => Others + FirstCost + LastCost <= Spare
    /\ boot.at \in {"rights", "deploy"} => Others + 2 * Slot + LastCost <= Spare
    /\ boot.at = "apps" => Others + Slot + LastCost <= Spare
    /\ boot.at \in {"manifest", "page", "dapp"} /\ ~boot.final => Others + LastCost <= Spare
    /\ boot.at = "warp" => LastCost <= Spare
    /\ boot.at = "seed" => 4 * Slot + 5 <= Spare
    /\ boot.at = "bridge" => 3 * Slot + 5 <= Spare
    /\ boot.at = "inbox" => 3 * Slot + 4 <= Spare \/ (Committed /\ 2 * Slot + 4 <= Spare)
    /\ boot.at \in {"manifest", "page", "dapp", "completed", "identity", "seed roots"} /\ boot.final
          => Slot + 4 <= Spare
    /\ boot.at = "revoke" => Slot + 3 <= Spare
    /\ boot.at = "restore" => Slot + 2 <= Spare
    /\ boot.at = "deploy portal" => Slot + 1 <= Spare
    /\ boot.at = "pin" => Slot <= Spare
    /\ boot.at \in {"portal", "api", "activate"} => 0 <= Spare

(* A clock that was activated on this chain serves a network whose files    *)
(* are written, and no test has moved time before the marker was there.     *)
Beside ==
    /\ marked <= genesis
    /\ phase = "realtime" \/ marked = genesis
          => env.page # None /\ boot.at \in Resting \cup {"marker"}
    /\ marker = None => work = Rest
    /\ boot.at \in Placed /\ boot.final => env.page # None
    /\ boot.at = "inbox" => boot.claim <= l1
HeadroomInv == DeploymentInv /\ Budget /\ Beside

(* What the clock's steps cost. *)
LEMMA SpareIs ==
    ASSUME ClockShape
    PROVE  /\ Spare \in Int /\ Spare <= lag /\ Spare <= wall - l1
           /\ Spare = lag \/ Spare = wall - l1
           /\ {wall, lag, l1, anchor} \subseteq Int /\ anchor <= l1
  BY DEF ClockShape, Spare

LEMMA TickCosts ==
    ASSUME ClockShape, ClockShape', HostTick
    PROVE  Spare <= Spare' /\ UNCHANGED <<l1, anchor, phase, genesis, marked>>
  <1>1. {wall, lag, l1} \subseteq Int
    BY DEF ClockShape
  <1>2. wall' = wall + 1 /\ lag' = lag /\ l1' = l1
    BY DEF HostTick
  <1>3. Spare <= Spare'
    BY <1>1, <1>2 DEF Spare
  <1> QED
    BY <1>3 DEF HostTick

LEMMA BlockCosts ==
    ASSUME ClockShape, ClockShape', L1Block
    PROVE  Spare - 1 <= Spare' /\ UNCHANGED <<anchor, phase, genesis, marked>>
  <1>1. wall \in Int /\ lag \in Int /\ l1 \in Int /\ l1' \in Int
    BY DEF ClockShape
  <1>2. l1' = Later(wall - lag, l1) \/ l1' = Later(wall - lag, l1 + 1)
    BY DEF L1Block, Stamps
  <1>3. wall' = wall /\ lag' = lag
    BY DEF L1Block
  <1>4. l1' = wall - lag \/ l1' = l1 \/ l1' = l1 + 1
    BY <1>2 DEF Later
  <1>5. Spare - 1 <= wall - l1'
    BY <1>1, <1>4, SpareIs
  <1>6. Spare' = lag \/ Spare' = wall - l1'
    BY <1>3 DEF Spare
  <1>7. Spare - 1 <= Spare'
    BY <1>1, <1>5, <1>6, SpareIs
  <1> QED
    BY <1>7 DEF L1Block

(* A stamp that Anvil is moved to. *)
LEMMA MineCosts ==
    ASSUME ClockShape, NEW t \in Int, MineAt(t), wall' = wall, NEW n \in Int,
           Spare - n <= wall - t
    PROVE  Spare - n <= Spare'
  <1>1. wall \in Int /\ lag' = wall - t /\ l1' = t
    BY DEF ClockShape, MineAt
  <1>2. Spare' = wall - t
    BY <1>1 DEF Spare
  <1> QED
    BY <1>2

LEMMA CheckpointCosts ==
    ASSUME ClockShape, Checkpoint
    PROVE  Spare - Slot <= Spare' /\ UNCHANGED <<phase, genesis, marked>>
  <1>1. Slot \in Nat \ {0} /\ Slot \in Int
    BY ClockAssumption
  <1>2. PICK stamp \in Stamps :
          LET t == CheckpointAt(stamp) IN
            MineAt(t) /\ UNCHANGED <<wall, phase, genesis, marked>>
    BY DEF Checkpoint
  <1>3. stamp \in Int /\ stamp <= wall - Spare + 1
    BY SpareIs DEF Stamps, Later
  <1>4. PICK p, a \in Int : p = stamp \div Slot /\ a = anchor \div Slot
    BY <1>1, <1>3, SpareIs
  <1>5. Slot * p <= stamp /\ Slot * a <= anchor
    BY <1>1, <1>3, <1>4, SpareIs
  <1>6. p * Slot <= wall - Spare + Slot /\ (a + 1) * Slot <= wall - Spare + Slot
    BY <1>1, <1>3, <1>4, <1>5, SpareIs
  <1> PICK slot : slot = Later(p, a + 1)
    OBVIOUS
  <1>7. slot * Slot \in Int /\ slot * Slot <= wall - Spare + Slot
    BY <1>1, <1>4, <1>6 DEF Later
  <1> PICK t : t = CheckpointAt(stamp)
    OBVIOUS
  <1>8. t = Later(stamp, slot * Slot)
    BY <1>4 DEF CheckpointAt
  <1>9. t \in Int /\ Spare - Slot <= wall - t
    BY <1>1, <1>3, <1>7, <1>8, SpareIs DEF Later
  <1>10. MineAt(t) /\ UNCHANGED <<wall, phase, genesis, marked>>
    BY <1>2
  <1> QED
    BY <1>1, <1>9, <1>10, MineCosts

LEMMA NudgeCosts ==
    ASSUME ClockShape, AdvanceInbox
    PROVE  Spare - Slot <= Spare' /\ l1 < anchor' /\ l1 <= l1' /\ UNCHANGED <<phase, genesis, marked>>
  <1>1. Slot \in Nat \ {0} /\ Slot \in Int
    BY ClockAssumption
  <1>2. PICK b : b = Boundary(l1 + 1)
    OBVIOUS
  <1>3. b \in Int /\ l1 + 1 <= b /\ b < l1 + 1 + Slot
    BY <1>2, SpareIs, BoundaryBound
  <1>4. MineAt(b) /\ anchor' = b /\ UNCHANGED <<wall, phase, genesis, marked>>
    BY <1>2, <1>3, SpareIs DEF AdvanceInbox, WarpTo
  <1>5. Spare - Slot <= wall - b
    BY <1>1, <1>3, SpareIs
  <1> QED
    BY <1>1, <1>3, <1>4, <1>5, SpareIs, MineCosts DEF MineAt

LEMMA OthersBound ==
    ASSUME BootShape
    PROVE  /\ Others \in Int /\ 0 <= Others /\ Others <= MaxRuns * FirstCost
           /\ boot.run < MaxRuns => Others = (MaxRuns - (boot.run + 1)) * FirstCost + FirstCost
           /\ {FirstCost, LastCost, Slot, Delay, Headroom, MaxRuns * FirstCost} \subseteq Int
           /\ LastCost = Delay + 4 * Slot + 6 /\ FirstCost = 2 * Slot + 1
           /\ Slot >= 1 /\ Delay >= 0
  <1>1. Slot \in Nat /\ Slot >= 1 /\ Delay \in Nat /\ MaxRuns \in Nat /\ Headroom \in Nat
    BY ClockAssumption, DeploymentAssumption
  <1>2. boot.run \in Nat /\ boot.run <= MaxRuns
    BY DEF BootShape
  <1>3. PICK c \in Nat : c = FirstCost
    BY <1>1 DEF FirstCost
  <1>4. PICK left \in Nat : left = MaxRuns - boot.run
    BY <1>1, <1>2
  <1>5. left * c \in Nat /\ boot.run * c \in Nat /\ MaxRuns * c = left * c + boot.run * c
    BY <1>1, <1>2, <1>3, <1>4
  <1>6. left * c = (left - 1) * c + c
    BY <1>3, <1>4
  <1>7. Others = left * c /\ MaxRuns - (boot.run + 1) = left - 1
    BY <1>1, <1>2, <1>3, <1>4 DEF Others
  <1>8. Others \in Int /\ 0 <= Others /\ Others <= MaxRuns * FirstCost
    BY <1>3, <1>5, <1>7
  <1>9. Others = (MaxRuns - (boot.run + 1)) * FirstCost + FirstCost
    BY <1>3, <1>6, <1>7
  <1>10. MaxRuns * FirstCost \in Int
    BY <1>1, <1>3
  <1> QED
    BY <1>1, <1>8, <1>9, <1>10 DEF LastCost, FirstCost

LEMMA Figures ==
    ASSUME HeadroomInv, DeploymentInv'
    PROVE  /\ ClockShape /\ ClockShape' /\ BootShape /\ BootShape'
           /\ {Spare, Spare', Others, FirstCost, Slot, Delay} \subseteq Int
           /\ 0 <= Others /\ FirstCost = 2 * Slot + 1 /\ 1 <= Slot /\ 0 <= Delay
           /\ LastCost = Delay + 4 * Slot + 6
           /\ boot'.run = boot.run => Others' = Others
  <1>1. ClockShape /\ ClockShape' /\ BootShape /\ BootShape'
    BY DEF HeadroomInv, DeploymentInv
  <1>2. Spare' \in Int
    BY <1>1 DEF ClockShape, Spare
  <1>3. boot'.run = boot.run => Others' = Others
    BY DEF Others
  <1> QED
    BY <1>1, <1>2, <1>3, SpareIs, OthersBound

(* A step that makes no block.                                              *)
LEMMA NoBlock ==
    ASSUME UNCHANGED clockVars
    PROVE  /\ Spare' = Spare /\ anchor' = anchor /\ l1' = l1
           /\ UNCHANGED <<phase, genesis, marked>>
  BY DEF clockVars, Spare

(* While a bootstrap works, the clock was not activated and nothing else    *)
(* has moved it.                                                            *)
LEMMA StageBeside ==
    ASSUME HeadroomInv, boot.at \notin Resting \cup {"marker"},
           UNCHANGED <<phase, genesis, marked, marker, work>>,
           boot'.final => env'.page # None,
           boot'.at = "inbox" => boot'.claim <= l1'
    PROVE  Beside'
  BY DEF HeadroomInv, Beside

LEMMA RunsAreNumbers == \A r \in Run : r # None
  BY DeploymentAssumption DEF Run

(* The page's file stays where it is written.                               *)
LEMMA PageWritten ==
    ASSUME DeploymentInv, boot.at \in {"dapp"} \cup Filled
    PROVE  env.page # None /\ env.page = Me
  <1>1. boot.run \in Run
    BY AtWork
  <1>2. env.page = Me
    BY DEF DeploymentInv, Behind
  <1> QED
    BY <1>1, <1>2, RunsAreNumbers

LEMMA ServedPage ==
    ASSUME DeploymentInv, marker # None
    PROVE  env.page # None /\ boot.at \in Resting
  <1>1. env.page \in Run /\ boot.at \in Resting
    BY DEF DeploymentInv, Complete, FileShape
  <1> QED
    BY <1>1, RunsAreNumbers

(* What is left when an attempt ends anywhere is enough for the others.     *)
LEMMA EndBudget ==
    ASSUME HeadroomInv, DeploymentInv', boot' = [boot EXCEPT !.at = "off"], env' = env,
           Spare' = Spare
    PROVE  Budget'
  <1>1. boot'.at = "off" /\ boot'.run = boot.run /\ boot'.final = boot.final
    BY DEF HeadroomInv, DeploymentInv, BootShape
  <1>2. ASSUME env.page = None PROVE Others + LastCost <= Spare
    <2>1. boot.at \notin {"dapp"} \cup Filled /\ (boot.at \in Placed => ~boot.final)
      BY <1>2, PageWritten DEF HeadroomInv, Beside
    <2>2. boot.at \in Resting \cup Opening \cup {"manifest", "page"}
      BY <2>1 DEF HeadroomInv, DeploymentInv, BootShape
    <2>3. boot.at # "reuse"
      BY <1>2, ServedPage DEF HeadroomInv, DeploymentInv, Behind
    <2>4. CASE Settled
      BY <1>2, <2>4 DEF HeadroomInv, Budget
    <2>5. CASE boot.at \in {"check", "wrapper", "worker", "token"}
      <3>1. Others + FirstCost + LastCost <= Spare
        BY <1>2, <2>5 DEF HeadroomInv, Budget
      <3> QED
        BY <3>1, Figures
    <2>6. CASE boot.at \in {"rights", "deploy", "apps", "manifest", "page"}
      <3>1. Others + LastCost <= Spare \/ Others + Slot + LastCost <= Spare
            \/ Others + 2 * Slot + LastCost <= Spare
        BY <2>1, <2>6 DEF HeadroomInv, Budget
      <3> QED
        BY <3>1, Figures
    <2> QED
      BY <2>2, <2>3, <2>4, <2>5, <2>6 DEF Resting, Settled
  <1> QED
    BY <1>1, <1>2, Figures DEF Budget, Settled

LEMMA EndBeside ==
    ASSUME HeadroomInv, DeploymentInv', boot' = [boot EXCEPT !.at = "off"],
           UNCHANGED <<env, marker, work, phase, genesis, marked>>
    PROVE  Beside'
  <1>1. boot'.at = "off" /\ boot'.final = boot.final
    BY DEF HeadroomInv, DeploymentInv, BootShape
  <1> QED
    BY <1>1 DEF HeadroomInv, Beside, Resting

LEMMA EndKeeps ==
    ASSUME HeadroomInv, DeploymentInv', GoTo("off"), UNCHANGED <<clockVars, env, marker, work>>
    PROVE  Budget' /\ Beside'
  BY EndBudget, EndBeside, NoBlock DEF GoTo

(* From stage to stage. *)
LEMMA LookBudget ==
    ASSUME HeadroomInv, DeploymentInv', Judge \/ Wrapper \/ WorkerBegins
    PROVE  Budget' /\ Beside'
  <1>1. PICK s \in {"off", "reuse", "wrapper", "worker", "token"} :
          /\ boot' = [boot EXCEPT !.at = s] /\ UNCHANGED <<clockVars, env, marker, work>>
          /\ boot.at \in {"check", "wrapper", "worker"}
          /\ s \in {"worker", "token"} => env.page = None
    BY DEF Judge, Wrapper, WorkerBegins, GoTo, Files, Outside, Fresh
  <1>2. boot'.at = s /\ boot'.run = boot.run /\ boot'.final = boot.final
    BY <1>1 DEF HeadroomInv, DeploymentInv, BootShape
  <1>3. CASE s = "off"
    BY <1>1, <1>3, EndKeeps DEF GoTo
  <1>4. CASE s # "off"
    <2>1. Budget'
      BY <1>1, <1>2, <1>4, Figures, NoBlock DEF HeadroomInv, Budget, Settled
    <2>2. Beside'
      BY <1>1, <1>2, <1>4, NoBlock DEF HeadroomInv, Beside, Resting
    <2> QED
      BY <2>1, <2>2
  <1> QED
    BY <1>3, <1>4

LEMMA OpeningBudget ==
    ASSUME HeadroomInv, DeploymentInv',
           PaymentToken \/ Preflight \/ RightsFail \/ DeployRights \/ DeployApps
    PROVE  Budget' /\ Beside'
  <1>1. CASE Preflight \/ RightsFail
    <2>1. PICK s \in {"off", "deploy", "apps"} :
            /\ boot' = [boot EXCEPT !.at = s] /\ UNCHANGED <<clockVars, env, marker, work>>
            /\ boot.at \in {"rights", "deploy"}
      BY <1>1 DEF Preflight, RightsFail, GoTo, Files, Outside
    <2>2. boot'.at = s /\ boot'.run = boot.run /\ boot'.final = boot.final /\ ~boot.final
      BY <2>1 DEF HeadroomInv, DeploymentInv, BootShape
    <2>3. CASE s = "off"
      BY <2>1, <2>3, EndKeeps DEF GoTo
    <2>4. CASE s # "off"
      <3>1. Others + 2 * Slot + LastCost <= Spare
        BY <2>1 DEF HeadroomInv, Budget
      <3>2. Others' + Slot + LastCost <= Spare' /\ Others' + 2 * Slot + LastCost <= Spare'
        BY <2>1, <2>2, <3>1, Figures, NoBlock
      <3>3. Budget'
        BY <2>2, <2>4, <3>2 DEF Budget, Settled
      <3>4. Beside'
        BY <2>1, <2>2, <2>4, StageBeside, NoBlock DEF Resting
      <3> QED
        BY <3>3, <3>4
    <2> QED
      BY <2>3, <2>4
  <1>4. CASE PaymentToken
    <2>1. /\ boot.at = "token" /\ boot'.at = "rights" /\ boot'.run = boot.run /\ ~boot'.final
          /\ UNCHANGED <<env, marker, work>> /\ (L1Block \/ UNCHANGED clockVars)
      BY <1>4 DEF PaymentToken, Files, Outside, HeadroomInv, DeploymentInv, BootShape
    <2>2. Spare - 1 <= Spare' /\ UNCHANGED <<phase, genesis, marked>>
      BY <2>1, Figures, NoBlock, BlockCosts
    <2>3. Others + FirstCost + LastCost <= Spare
      BY <2>1 DEF HeadroomInv, Budget
    <2>4. Others' + 2 * Slot + LastCost <= Spare'
      BY <2>1, <2>2, <2>3, Figures
    <2>5. Budget'
      BY <2>1, <2>4 DEF Budget, Settled
    <2> QED
      BY <2>1, <2>2, <2>5, StageBeside DEF Resting
  <1>3. CASE DeployRights \/ DeployApps
    <2>1. /\ \/ boot.at = "deploy" /\ boot'.at = "apps"
             \/ boot.at = "apps" /\ boot'.at = "manifest"
          /\ boot'.run = boot.run /\ ~boot'.final
          /\ Checkpoint /\ UNCHANGED <<env, marker, work>>
      BY <1>3 DEF DeployRights, DeployApps, GoTo, Files, Outside, HeadroomInv, DeploymentInv, BootShape
    <2>2. Spare - Slot <= Spare' /\ UNCHANGED <<phase, genesis, marked>>
      BY <2>1, Figures, CheckpointCosts
    <2>5. Beside'
      BY <2>1, <2>2, StageBeside DEF Resting
    <2>3. CASE boot.at = "deploy"
      <3>1. Others + 2 * Slot + LastCost <= Spare
        BY <2>3 DEF HeadroomInv, Budget
      <3>2. Others' + Slot + LastCost <= Spare'
        BY <2>1, <2>2, <3>1, Figures
      <3> QED
        BY <2>1, <2>3, <2>5, <3>2 DEF Budget, Settled
    <2>4. CASE boot.at = "apps"
      <3>1. Others + Slot + LastCost <= Spare
        BY <2>4 DEF HeadroomInv, Budget
      <3>2. Others' + LastCost <= Spare'
        BY <2>1, <2>2, <3>1, Figures
      <3> QED
        BY <2>1, <2>4, <2>5, <3>2 DEF Budget, Settled
    <2> QED
      BY <2>1, <2>3, <2>4
  <1> QED
    BY <1>1, <1>3, <1>4

LEMMA OutputsBudget ==
    ASSUME HeadroomInv, DeploymentInv',
           WriteManifest \/ WriteEnv("page", "dapp") \/ WriteEnv("dapp", AfterOutputs)
    PROVE  Budget' /\ Beside'
  <1>1. PICK s \in {"off", "page", "dapp", "completed", "warp"} :
          /\ boot' = [boot EXCEPT !.at = s] /\ UNCHANGED <<clockVars, marker, work>>
          /\ boot.at \in {"manifest", "page", "dapp"}
          /\ s = "off" => env' = env
          /\ s = "completed" => boot.final /\ boot.at = "dapp"
          /\ s = "warp" => ~boot.final /\ boot.at = "dapp"
    BY DEF WriteManifest, WriteEnv, AfterOutputs, GoTo, Outside
  <1>2. boot'.at = s /\ boot'.run = boot.run /\ boot'.final = boot.final
    BY <1>1 DEF HeadroomInv, DeploymentInv, BootShape
  <1>3. CASE s = "off"
    BY <1>1, <1>3, EndKeeps DEF GoTo
  <1>4. CASE s # "off"
    <2>1. env.page # None => env'.page # None
      <3>1. env' = env \/ env' = [env EXCEPT !["page"] = manifest.apps]
            \/ env' = [env EXCEPT !["dapp"] = manifest.apps]
        BY DEF WriteManifest, WriteEnv
      <3>2. env'.page \in {env.page, manifest.apps}
        BY <3>1 DEF HeadroomInv, DeploymentInv, FileShape
      <3>3. boot.at \in {"page", "dapp"} => manifest.apps = boot.run /\ boot.run \in Run
        BY AtWork DEF HeadroomInv, DeploymentInv, Behind
      <3>4. boot.at = "manifest" => env' = env
        BY DEF WriteManifest, WriteEnv
      <3> QED
        BY <1>1, <3>2, <3>3, <3>4, RunsAreNumbers
    <2>4. Beside'
      <3>1. boot'.final => env'.page # None
        BY <1>1, <1>2, <2>1 DEF HeadroomInv, Beside
      <3> QED
        BY <1>1, <1>2, <1>4, <3>1, StageBeside, NoBlock DEF Resting
    <2>2. CASE ~boot.final
      <3>1. Others + LastCost <= Spare
        BY <1>1, <2>2 DEF HeadroomInv, Budget
      <3>2. Others' + LastCost <= Spare' /\ LastCost <= Spare'
        BY <1>1, <1>2, <3>1, Figures, NoBlock
      <3> QED
        BY <1>1, <1>2, <1>4, <2>2, <2>4, <3>2 DEF Budget, Settled
    <2>3. CASE boot.final
      <3>1. Slot + 4 <= Spare /\ Spare' = Spare
        BY <1>1, <2>3, NoBlock DEF HeadroomInv, Budget
      <3> QED
        BY <1>1, <1>2, <1>4, <2>3, <2>4, <3>1 DEF Budget, Settled
    <2> QED
      BY <2>2, <2>3
  <1> QED
    BY <1>3, <1>4

LEMMA SeedingBudget ==
    ASSUME HeadroomInv, DeploymentInv',
           WarpPastDelay \/ Seed \/ Bridge \/ WaitForInbox \/ ClaimJuice
    PROVE  Budget' /\ Beside'
  <1>1. CASE GoTo("off") /\ UNCHANGED clockVars /\ ~WaitForInbox
    BY <1>1, EndKeeps DEF WarpPastDelay, Seed, Bridge, ClaimJuice, Files, Outside
  <1>2. boot.at \in {"warp", "seed", "bridge", "inbox"} /\ UNCHANGED <<env, marker, work>>
    BY DEF WarpPastDelay, Seed, Bridge, WaitForInbox, ClaimJuice, Files, Outside, stack
  <1>3. env.page # None
    BY <1>2, PageWritten DEF HeadroomInv
  <1>4. CASE WarpPastDelay /\ ~(l1 + Delay + 1 > wall)
    <2>6. /\ boot.at = "warp" /\ MineAt(l1 + Delay + 1) /\ GoTo("seed")
          /\ UNCHANGED <<wall, anchor, phase, genesis, marked>>
      BY <1>4 DEF WarpPastDelay
    <2>1. /\ boot.at = "warp" /\ boot'.at = "seed" /\ boot'.run = boot.run
          /\ boot'.final = boot.final
      BY <2>6 DEF GoTo, HeadroomInv, DeploymentInv, BootShape
    <2>2. LastCost <= Spare
      BY <2>1 DEF HeadroomInv, Budget
    <2>3. Spare - (Delay + 1) <= wall - (l1 + Delay + 1) /\ l1 + Delay + 1 \in Int
          /\ Delay + 1 \in Int
      BY Figures, SpareIs
    <2>4. Spare - (Delay + 1) <= Spare'
      BY <2>6, <2>3, MineCosts, Figures
    <2>5. 4 * Slot + 5 <= Spare'
      BY <2>2, <2>4, Figures
    <2>7. Budget'
      BY <2>1, <2>5 DEF Budget, Settled
    <2> QED
      BY <1>2, <1>3, <2>1, <2>6, <2>7, StageBeside DEF Resting
  <1>5. CASE Seed /\ Checkpoint /\ GoTo("bridge")
    <2>1. /\ boot.at = "seed" /\ boot'.at = "bridge" /\ boot'.run = boot.run
          /\ boot'.final = boot.final /\ Checkpoint
      BY <1>5 DEF Seed, GoTo, HeadroomInv, DeploymentInv, BootShape
    <2>2. 4 * Slot + 5 <= Spare
      BY <2>1 DEF HeadroomInv, Budget
    <2>3. Spare - Slot <= Spare' /\ UNCHANGED <<phase, genesis, marked>>
      BY <2>1, Figures, CheckpointCosts
    <2>4. 3 * Slot + 5 <= Spare'
      BY <2>2, <2>3, Figures
    <2>5. Budget'
      BY <2>1, <2>4 DEF Budget, Settled
    <2> QED
      BY <1>2, <1>3, <2>1, <2>3, <2>5, StageBeside DEF Resting
  <1>6. CASE Bridge
    <2>1. /\ boot.at = "bridge" /\ boot'.at = "inbox" /\ boot'.run = boot.run
          /\ boot'.final = boot.final /\ boot'.claim = l1' /\ L1Block
      BY <1>6 DEF Bridge, HeadroomInv, DeploymentInv, BootShape
    <2>2. 3 * Slot + 5 <= Spare
      BY <2>1 DEF HeadroomInv, Budget
    <2>3. Spare - 1 <= Spare' /\ UNCHANGED <<phase, genesis, marked>>
      BY <2>1, Figures, BlockCosts
    <2>4. 3 * Slot + 4 <= Spare'
      BY <2>2, <2>3, Figures
    <2>5. Budget'
      BY <2>1, <2>4 DEF Budget, Settled
    <2>6. boot'.claim <= l1'
      BY <2>1, Figures DEF ClockShape
    <2> QED
      BY <1>2, <1>3, <2>1, <2>3, <2>5, <2>6, StageBeside DEF Resting
  <1>7. CASE WaitForInbox
    <2>1. boot.at = "inbox" /\ boot' = boot /\ ~Committed /\ AdvanceInbox
      BY <1>7 DEF WaitForInbox, stack
    <2>2. 3 * Slot + 4 <= Spare /\ boot.claim <= l1 /\ boot.claim \in Int
      BY <2>1 DEF HeadroomInv, Budget, Beside, DeploymentInv, BootShape
    <2>3. /\ Spare - Slot <= Spare' /\ l1 < anchor' /\ l1 <= l1'
          /\ UNCHANGED <<phase, genesis, marked>>
      BY <2>1, Figures, NudgeCosts
    <2>4. {l1, l1', anchor'} \subseteq Int
      BY Figures DEF ClockShape
    <2>5. 2 * Slot + 4 <= Spare' /\ boot.claim <= l1' /\ anchor' > boot.claim
      BY <2>2, <2>3, <2>4, Figures
    <2>6. Committed' /\ boot'.claim <= l1'
      BY <2>1, <2>5 DEF Committed
    <2>7. Budget'
      BY <2>1, <2>5, <2>6 DEF Budget, Settled
    <2> QED
      BY <1>2, <1>3, <2>1, <2>3, <2>6, <2>7, StageBeside DEF Resting
  <1>8. CASE ClaimJuice
    <2>1. /\ boot.at = "inbox" /\ boot'.at = "manifest" /\ boot'.run = boot.run
          /\ boot'.final /\ Checkpoint
      BY <1>8 DEF ClaimJuice, HeadroomInv, DeploymentInv, BootShape
    <2>2. 3 * Slot + 4 <= Spare \/ 2 * Slot + 4 <= Spare
      BY <2>1 DEF HeadroomInv, Budget
    <2>3. Spare - Slot <= Spare' /\ UNCHANGED <<phase, genesis, marked>>
      BY <2>1, Figures, CheckpointCosts
    <2>4. Slot + 4 <= Spare'
      BY <2>2, <2>3, Figures
    <2>5. Budget'
      BY <2>1, <2>4 DEF Budget, Settled
    <2> QED
      BY <1>2, <1>3, <2>1, <2>3, <2>5, StageBeside DEF Resting
  <1>9. ~WaitForInbox \/ ~(WarpPastDelay \/ Seed)
    BY DEF WaitForInbox, WarpPastDelay, Seed
  <1>10. WarpPastDelay => \/ GoTo("off") /\ UNCHANGED clockVars
                          \/ ~(l1 + Delay + 1 > wall)
    BY DEF WarpPastDelay, Stop
  <1>11. Seed => \/ GoTo("off") /\ UNCHANGED clockVars
                 \/ Checkpoint /\ GoTo("bridge")
    BY DEF Seed, Stop
  <1> QED
    BY <1>1, <1>4, <1>5, <1>6, <1>7, <1>8, <1>9, <1>10, <1>11

(* The recovery script and the end of the bootstrap.                        *)
LEMMA ClosingBudget ==
    ASSUME HeadroomInv, env'.page # None, boot.at \in Closing, boot.at # "marker",
           NEW s \in Closing, boot' = [boot EXCEPT !.at = s],
           UNCHANGED <<phase, genesis, marked, marker, work>>,
           \/ Slot + 4 <= Spare' /\ s \in {"identity", "seed roots"}
           \/ Slot + 3 <= Spare' /\ s = "revoke"
           \/ Slot + 2 <= Spare' /\ s = "restore"
           \/ Slot + 1 <= Spare' /\ s = "deploy portal"
           \/ Slot <= Spare' /\ s = "pin"
           \/ 0 <= Spare' /\ s \in {"portal", "api", "activate"}
    PROVE  Budget' /\ Beside'
  <1>1. boot'.at = s /\ boot.final /\ boot'.final
    BY DEF HeadroomInv, DeploymentInv, BootShape, Completing
  <1>2. Beside'
    BY <1>1, StageBeside DEF Resting
  <1>3. Budget'
    BY <1>1 DEF Budget, Settled
  <1> QED
    BY <1>2, <1>3

LEMMA RecoveryBudget ==
    ASSUME HeadroomInv, DeploymentInv',
           \/ WorkerExits \/ ReadRoots \/ SeedRoots \/ TryRevocation \/ RestoreRoot
           \/ DeployPortal \/ PinPortal \/ WritePortal \/ WriteApiEnv
    PROVE  Budget' /\ Beside'
  <1>1. boot.at \in Closing /\ boot.at # "marker" /\ UNCHANGED <<marker, work>>
    BY DEF WorkerExits, ReadRoots, SeedRoots, TryRevocation, RestoreRoot, DeployPortal,
           PinPortal, WritePortal, WriteApiEnv, Files, Outside
  <1>2. env'.page = env.page /\ env'.page # None
    <2>1. env.page # None
      BY <1>1, PageWritten DEF HeadroomInv
    <2>2. env' = env \/ env' = [env EXCEPT !.api = manifest.apps]
      BY DEF WorkerExits, ReadRoots, SeedRoots, TryRevocation, RestoreRoot, DeployPortal,
             PinPortal, WritePortal, WriteApiEnv, Files
    <2> QED
      BY <2>1, <2>2 DEF HeadroomInv, DeploymentInv, FileShape
  <1>3. CASE GoTo("off") /\ UNCHANGED clockVars
    <2>1. ~WriteApiEnv
      <3>1. \A s : [boot EXCEPT !.at = s].at = s
        BY DEF HeadroomInv, DeploymentInv, BootShape
      <3> QED
        BY <1>3, <3>1 DEF WriteApiEnv, GoTo
    <2>2. env' = env
      BY <2>1 DEF WorkerExits, ReadRoots, SeedRoots, TryRevocation, RestoreRoot, DeployPortal,
             PinPortal, WritePortal, Files
    <2> QED
      BY <1>1, <1>3, <2>2, EndKeeps
  <1>4. CASE /\ WorkerExits \/ ReadRoots \/ WritePortal \/ WriteApiEnv
             /\ ~(GoTo("off") /\ UNCHANGED clockVars)
    <2>1. UNCHANGED clockVars
      BY <1>4 DEF WorkerExits, ReadRoots, WritePortal, WriteApiEnv
    <2>2. Spare' = Spare /\ UNCHANGED <<phase, genesis, marked>>
      BY <2>1, NoBlock
    <2>3. \/ boot.at = "completed" /\ GoTo("identity")
          \/ boot.at = "identity" /\ GoTo("seed roots")
          \/ boot.at \in {"portal", "api"} /\ (GoTo("api") \/ GoTo("activate"))
      BY <1>4, <2>1 DEF WorkerExits, ReadRoots, WritePortal, WriteApiEnv
    <2>4. boot.final
      BY <1>1 DEF HeadroomInv, DeploymentInv, Completing
    <2>5. CASE boot.at \in {"completed", "identity"}
      <3>1. Slot + 4 <= Spare
        BY <2>4, <2>5 DEF HeadroomInv, Budget
      <3>2. PICK s \in {"identity", "seed roots"} : GoTo(s)
        BY <2>3, <2>5
      <3> QED
        BY <1>1, <1>2, <2>2, <3>1, <3>2, ClosingBudget DEF GoTo
    <2>6. CASE boot.at \in {"portal", "api"}
      <3>1. 0 <= Spare
        BY <2>6 DEF HeadroomInv, Budget
      <3>2. PICK s \in {"api", "activate"} : GoTo(s)
        BY <2>3, <2>6
      <3> QED
        BY <1>1, <1>2, <2>2, <3>1, <3>2, ClosingBudget DEF GoTo
    <2> QED
      BY <2>3, <2>5, <2>6
  <1>5. CASE SeedRoots \/ TryRevocation \/ RestoreRoot \/ DeployPortal
    <2>1. /\ L1Block
          /\ \/ boot.at = "seed roots" /\ GoTo("revoke")
             \/ boot.at = "revoke" /\ GoTo("restore")
             \/ boot.at = "restore" /\ GoTo("deploy portal")
             \/ boot.at = "deploy portal" /\ GoTo("pin")
      BY <1>5 DEF SeedRoots, TryRevocation, RestoreRoot, DeployPortal
    <2>2. Spare - 1 <= Spare' /\ UNCHANGED <<phase, genesis, marked>>
      BY <2>1, BlockCosts, Figures
    <2>3. boot.final
      BY <1>1 DEF HeadroomInv, DeploymentInv, Completing
    <2>4. CASE boot.at = "seed roots"
      <3>1. Slot + 4 <= Spare
        BY <2>3, <2>4 DEF HeadroomInv, Budget
      <3>2. Slot + 3 <= Spare'
        BY <2>2, <3>1, Figures
      <3> QED
        BY <1>1, <1>2, <2>1, <2>2, <2>4, <3>2, ClosingBudget DEF GoTo
    <2>5. CASE boot.at = "revoke"
      <3>1. Slot + 3 <= Spare
        BY <2>5 DEF HeadroomInv, Budget
      <3>2. Slot + 2 <= Spare'
        BY <2>2, <3>1, Figures
      <3> QED
        BY <1>1, <1>2, <2>1, <2>2, <2>5, <3>2, ClosingBudget DEF GoTo
    <2>6. CASE boot.at = "restore"
      <3>1. Slot + 2 <= Spare
        BY <2>6 DEF HeadroomInv, Budget
      <3>2. Slot + 1 <= Spare'
        BY <2>2, <3>1, Figures
      <3> QED
        BY <1>1, <1>2, <2>1, <2>2, <2>6, <3>2, ClosingBudget DEF GoTo
    <2>7. CASE boot.at = "deploy portal"
      <3>1. Slot + 1 <= Spare
        BY <2>7 DEF HeadroomInv, Budget
      <3>2. Slot <= Spare'
        BY <2>2, <3>1, Figures
      <3> QED
        BY <1>1, <1>2, <2>1, <2>2, <2>7, <3>2, ClosingBudget DEF GoTo
    <2> QED
      BY <2>1, <2>4, <2>5, <2>6, <2>7
  <1>6. CASE PinPortal /\ ~(GoTo("off") /\ UNCHANGED clockVars)
    <2>1. Checkpoint /\ boot.at = "pin" /\ GoTo("portal")
      BY <1>6 DEF PinPortal, Stop
    <2>2. Spare - Slot <= Spare' /\ UNCHANGED <<phase, genesis, marked>>
      BY <2>1, CheckpointCosts, Figures
    <2>3. Slot <= Spare
      BY <2>1 DEF HeadroomInv, Budget
    <2>4. 0 <= Spare'
      BY <2>2, <2>3, Figures
    <2> QED
      BY <1>1, <1>2, <2>1, <2>2, <2>4, ClosingBudget DEF GoTo
  <1> QED
    BY <1>3, <1>4, <1>5, <1>6

(* Where nothing is due: the page's file is written and the bootstrap rests *)
(* or is about to write its marker.                                         *)
LEMMA NothingDue ==
    ASSUME env'.page # None, boot'.at \in Resting \cup {"marker"}, marked' <= genesis',
           marker' = None => work' = Rest
    PROVE  Budget' /\ Beside'
  <1>1. boot'.at \in {"off", "done", "check", "reuse", "wrapper", "marker"}
    BY DEF Resting
  <1>2. Budget'
    BY <1>1 DEF Budget, Settled
  <1>3. Beside'
    BY <1>1 DEF Beside
  <1> QED
    BY <1>2, <1>3

LEMMA ActivateMarks ==
    ASSUME NEW f, Activation(f), marked <= genesis, genesis \in Int
    PROVE  marked' <= genesis' /\ genesis' = genesis
  BY DEF Activation

LEMMA ActivationBudget ==
    ASSUME HeadroomInv, DeploymentInv', Reuse \/ ActivateClock \/ WriteMarker
    PROVE  Budget' /\ Beside'
  <1>1. env' = env /\ work' = work /\ boot.at \in {"reuse", "activate", "marker"}
        /\ boot'.at \in {"off", "done", "marker"}
    BY DEF Reuse, ActivateClock, WriteMarker, GoTo, Files, Outside, HeadroomInv, DeploymentInv,
           BootShape
  <1>2. env.page # None
    BY <1>1, PageWritten, ServedPage DEF HeadroomInv, DeploymentInv, Behind
  <1>3. marked' <= genesis'
    <2>1. marked <= genesis /\ genesis \in Int
      BY DEF HeadroomInv, Beside, DeploymentInv, ClockShape
    <2>2. CASE \E f \in Faults : Activate(f)
      BY <2>1, <2>2, ActivateMarks DEF Activate
    <2>3. CASE UNCHANGED clockVars
      BY <2>1, <2>3, NoBlock
    <2> QED
      BY <2>2, <2>3 DEF Reuse, ActivateClock, WriteMarker
  <1>4. marker' = None => marker = None
    <2>1. boot.at = "marker" => manifest # None
      BY DEF HeadroomInv, DeploymentInv, Behind
    <2> QED
      BY <2>1 DEF Reuse, ActivateClock, WriteMarker, Files
  <1> QED
    BY <1>1, <1>2, <1>3, <1>4, NothingDue DEF Resting, HeadroomInv, Beside

(* Operators.                                                               *)
LEMMA BeginBudget ==
    ASSUME HeadroomInv, DeploymentInv', Begin
    PROVE  Budget' /\ Beside'
  <1>1. /\ boot.run < MaxRuns /\ boot'.run = boot.run + 1 /\ boot'.at = "check" /\ ~boot'.final
        /\ Settled /\ UNCHANGED <<clockVars, env, marker, work>>
    BY DEF Begin, Files, Outside
  <1>2. Spare' = Spare /\ UNCHANGED <<phase, genesis, marked>>
    BY <1>1, NoBlock
  <1>3. Others' + FirstCost = Others
    <2>1. Others' = (MaxRuns - (boot.run + 1)) * FirstCost
      BY <1>1 DEF Others
    <2> QED
      BY <1>1, <2>1, Figures, OthersBound
  <1>4. env'.page = None => Others' + FirstCost + LastCost <= Spare'
    <2>1. env.page = None => Others + LastCost <= Spare
      BY <1>1 DEF HeadroomInv, Budget
    <2> QED
      BY <1>1, <1>2, <1>3, <2>1
  <1>5. Budget'
    BY <1>1, <1>4 DEF Budget, Settled
  <1>6. Beside'
    BY <1>1, <1>2 DEF HeadroomInv, Beside, Resting
  <1> QED
    BY <1>5, <1>6

(* Where nothing but the host's clock moves, nothing is used up.            *)
LEMMA MoreBudget ==
    ASSUME HeadroomInv, DeploymentInv', Spare <= Spare', boot' = boot, env' = env, anchor' = anchor
    PROVE  Budget'
  <1>1. Others' = Others /\ (Committed' <=> Committed) /\ (Settled' <=> Settled)
    BY DEF Others, Committed, Settled
  <1>2. {Spare, Spare', Others, Slot, FirstCost, LastCost} \subseteq Int
    BY Figures
  <1>3. /\ Others + LastCost <= Spare => Others + LastCost <= Spare'
        /\ Others + FirstCost + LastCost <= Spare => Others + FirstCost + LastCost <= Spare'
        /\ Others + 2 * Slot + LastCost <= Spare => Others + 2 * Slot + LastCost <= Spare'
        /\ Others + Slot + LastCost <= Spare => Others + Slot + LastCost <= Spare'
        /\ LastCost <= Spare => LastCost <= Spare'
    BY <1>2
  <1>4. /\ 4 * Slot + 5 <= Spare => 4 * Slot + 5 <= Spare'
        /\ 3 * Slot + 5 <= Spare => 3 * Slot + 5 <= Spare'
        /\ 3 * Slot + 4 <= Spare => 3 * Slot + 4 <= Spare'
        /\ 2 * Slot + 4 <= Spare => 2 * Slot + 4 <= Spare'
        /\ Slot + 4 <= Spare => Slot + 4 <= Spare'
        /\ Slot + 3 <= Spare => Slot + 3 <= Spare'
        /\ Slot + 2 <= Spare => Slot + 2 <= Spare'
        /\ Slot + 1 <= Spare => Slot + 1 <= Spare'
        /\ Slot <= Spare => Slot <= Spare'
        /\ 0 <= Spare => 0 <= Spare'
    BY <1>2
  <1>5. boot'.at = boot.at /\ boot'.final = boot.final /\ env'.page = env.page
    OBVIOUS
  <1>6. Budget
    BY DEF HeadroomInv
  <1> QED
    <2>1. env.page = None /\ Settled => Others + LastCost <= Spare
      BY <1>6 DEF Budget
    <2>2. env'.page = None /\ Settled' => Others' + LastCost <= Spare'
      BY <2>1, <1>1, <1>3, <1>5
    <2>3. env.page = None /\ boot.at \in {"check", "wrapper", "worker"}
            => Others + FirstCost + LastCost <= Spare
      BY <1>6 DEF Budget
    <2>4. env'.page = None /\ boot'.at \in {"check", "wrapper", "worker"}
            => Others' + FirstCost + LastCost <= Spare'
      BY <2>3, <1>1, <1>3, <1>5
    <2>5. boot.at = "inbox" => 3 * Slot + 4 <= Spare \/ (Committed /\ 2 * Slot + 4 <= Spare)
      BY <1>6 DEF Budget
    <2>6. boot'.at = "inbox" => 3 * Slot + 4 <= Spare' \/ (Committed' /\ 2 * Slot + 4 <= Spare')
      BY <1>1, <1>4, <1>5, <2>5
    <2>7. /\ boot.at = "token" => Others + FirstCost + LastCost <= Spare
          /\ boot.at \in {"rights", "deploy"} => Others + 2 * Slot + LastCost <= Spare
          /\ boot.at = "apps" => Others + Slot + LastCost <= Spare
          /\ boot.at \in {"manifest", "page", "dapp"} /\ ~boot.final => Others + LastCost <= Spare
      BY <1>6 DEF Budget
    <2>8. /\ boot'.at = "token" => Others' + FirstCost + LastCost <= Spare'
          /\ boot'.at \in {"rights", "deploy"} => Others' + 2 * Slot + LastCost <= Spare'
          /\ boot'.at = "apps" => Others' + Slot + LastCost <= Spare'
          /\ boot'.at \in {"manifest", "page", "dapp"} /\ ~boot'.final => Others' + LastCost <= Spare'
      BY <1>1, <1>3, <1>5, <2>7
    <2>9. /\ boot.at = "warp" => LastCost <= Spare
          /\ boot.at = "seed" => 4 * Slot + 5 <= Spare
          /\ boot.at = "bridge" => 3 * Slot + 5 <= Spare
          /\ boot.at \in {"manifest", "page", "dapp", "completed", "identity", "seed roots"}
                /\ boot.final => Slot + 4 <= Spare
      BY <1>6 DEF Budget
    <2>10. /\ boot'.at = "warp" => LastCost <= Spare'
           /\ boot'.at = "seed" => 4 * Slot + 5 <= Spare'
           /\ boot'.at = "bridge" => 3 * Slot + 5 <= Spare'
           /\ boot'.at \in {"manifest", "page", "dapp", "completed", "identity", "seed roots"}
                /\ boot'.final => Slot + 4 <= Spare'
      BY <1>3, <1>4, <1>5, <2>9
    <2>11. /\ boot.at = "revoke" => Slot + 3 <= Spare
           /\ boot.at = "restore" => Slot + 2 <= Spare
           /\ boot.at = "deploy portal" => Slot + 1 <= Spare
           /\ boot.at = "pin" => Slot <= Spare
           /\ boot.at \in {"portal", "api", "activate"} => 0 <= Spare
      BY <1>6 DEF Budget
    <2>12. /\ boot'.at = "revoke" => Slot + 3 <= Spare'
           /\ boot'.at = "restore" => Slot + 2 <= Spare'
           /\ boot'.at = "deploy portal" => Slot + 1 <= Spare'
           /\ boot'.at = "pin" => Slot <= Spare'
           /\ boot'.at \in {"portal", "api", "activate"} => 0 <= Spare'
      BY <1>4, <1>5, <2>11
    <2> QED
      BY <2>2, <2>4, <2>6, <2>8, <2>10, <2>12 DEF Budget

LEMMA ServicesBudget ==
    ASSUME HeadroomInv, DeploymentInv', UNCHANGED <<clockVars, env, marker, boot, work>>
    PROVE  Budget' /\ Beside'
  <1>1. Spare' = Spare /\ anchor' = anchor /\ l1' = l1 /\ UNCHANGED <<phase, genesis, marked>>
    BY NoBlock
  <1>2. Budget'
    BY <1>1, MoreBudget, Figures
  <1>3. Beside'
    BY <1>1 DEF HeadroomInv, Beside
  <1> QED
    BY <1>2, <1>3

(* A new chain has the whole headroom again.                                *)
LEMMA ChainBudget ==
    ASSUME HeadroomInv, DeploymentInv', HeadroomCovers, ChainStarts, Interrupted
    PROVE  Budget' /\ Beside'
  <1>1. /\ boot'.at = "off" /\ boot'.run = boot.run /\ boot'.final = boot.final
        /\ work' = Rest
    BY DEF Interrupted, HeadroomInv, DeploymentInv, BootShape
  <1>2. /\ lag' = Headroom /\ l1' = wall - Headroom /\ wall' = wall /\ phase' = "bootstrap"
        /\ genesis' = genesis + 1 /\ marked' = marked
    BY DEF ChainStarts, Genesis
  <1>3. Spare' = Headroom
    BY <1>2, Figures, OthersBound DEF Spare, ClockShape
  <1>4. Others' + LastCost <= Spare'
    BY <1>1, <1>3, Figures, OthersBound DEF HeadroomCovers
  <1>5. Budget'
    BY <1>1, <1>4 DEF Budget, Settled
  <1>6. marked' <= genesis' /\ marked' # genesis'
    <2>1. marked <= genesis /\ {marked, genesis} \subseteq Int
      BY Figures DEF HeadroomInv, Beside, ClockShape
    <2> QED
      BY <1>2, <2>1
  <1> QED
    BY <1>1, <1>2, <1>5, <1>6 DEF Beside

LEMMA RestartBudget ==
    ASSUME HeadroomInv, DeploymentInv', HeadroomCovers,
           \/ RestartNode \/ RestartChain
           \/ \E loaded, buildOnly \in BOOLEAN : FreshStart(loaded, buildOnly)
    PROVE  Budget' /\ Beside'
  <1>1. CASE UNCHANGED vars
    BY <1>1, ServicesBudget DEF vars, stack
  <1>2. CASE ChainStarts /\ Interrupted
    BY <1>2, ChainBudget
  <1>3. CASE RestartNode
    <2>1. /\ boot' = [boot EXCEPT !.at = "off"] /\ work' = Rest /\ UNCHANGED <<env, marker>>
      BY <1>3 DEF RestartNode, Interrupted, Files
    <2>2. boot'.at = "off"
      BY <2>1 DEF HeadroomInv, DeploymentInv, BootShape
    <2>3. PICK f \in Faults : NodeStarts(f)
      BY <1>3 DEF RestartNode
    <2>4. CASE marked = genesis
      <3>1. env.page # None /\ marked <= genesis /\ genesis \in Int
        BY <2>4, Figures DEF HeadroomInv, Beside, ClockShape
      <3>2. marked' <= genesis'
        BY <2>3, <3>1, ActivateMarks DEF NodeStarts
      <3> QED
        BY <2>1, <2>2, <3>1, <3>2, NothingDue DEF Resting
    <2>5. CASE marked # genesis
      <3>1. /\ UNCHANGED <<wall, l1, lag, genesis, marked>> /\ phase' # "realtime"
        BY <2>3, <2>5 DEF NodeStarts
      <3>2. Spare' = Spare
        BY <3>1 DEF Spare
      <3>3. Budget'
        BY <2>1, <3>2, EndBudget
      <3>4. Beside'
        BY <2>1, <2>2, <2>5, <3>1 DEF HeadroomInv, Beside
      <3> QED
        BY <3>3, <3>4
    <2> QED
      BY <2>4, <2>5
  <1> QED
    BY <1>1, <1>2, <1>3 DEF RestartChain, FreshStart

(* What happens beside the bootstrap moves time only where nothing is due.  *)
LEMMA MarksStay ==
    ASSUME HeadroomInv, DeploymentInv', Modes \/ Funding \/ Traffic \/ ClockStep
    PROVE  marked' <= genesis'
  <1>1. marked <= genesis /\ genesis \in Int
    BY Figures DEF HeadroomInv, Beside, ClockShape
  <1>2. CASE \E f \in Faults : Activate(f)
    BY <1>1, <1>2, ActivateMarks DEF Activate
  <1>3. CASE ~\E f \in Faults : Activate(f)
    <2>1. UNCHANGED <<genesis, marked>>
      BY <1>3 DEF Modes, Validate, SmokeBuy, SendClaim, IncludeClaim, ClaimAnswered, SmokeL2,
         CheckBalance, Replay, ConsumeOne, SmokeFails, Funding, FundBegins, FundWaits, FundClaims,
         FundFails, Traffic, ClockStep, KeepAlive, L1Block, Pace, BuildFails, Checkpoint,
         AdvanceFunding, WarpTo, HostTick, clockVars
    <2> QED
      BY <1>1, <2>1
  <1> QED
    BY <1>2, <1>3

LEMMA OthersBudget ==
    ASSUME HeadroomInv, DeploymentInv', marker = None => work' = work,
           Modes \/ Funding \/ Traffic \/ ClockStep
    PROVE  Budget' /\ Beside'
  <1>1. UNCHANGED <<env, marker, boot, services>>
    BY DEF Modes, Validate, SmokeBuy, SendClaim, IncludeClaim, ClaimAnswered, SmokeL2, CheckBalance,
       Replay, ConsumeOne, SmokeFails, Funding, FundBegins, FundWaits, FundClaims, FundFails, Traffic,
       ClockStep, stack, Files
  <1>2. CASE marker # None
    <2>1. env.page # None /\ boot.at \in Resting
      BY <1>2, ServedPage DEF HeadroomInv
    <2> QED
      BY <1>1, <1>2, <2>1, MarksStay, NothingDue
  <1>3. CASE marker = None
    <2>1. work = Rest /\ work' = work /\ work.at = "off" /\ ~work.sent /\ services = None
      <3>1. work = Rest /\ work' = work
        BY <1>3 DEF HeadroomInv, Beside
      <3>2. services = None
        BY <1>3 DEF HeadroomInv, DeploymentInv, Serving
      <3> QED
        BY <3>1, <3>2 DEF Rest
    <2>2. ~Modes
      <3>1. ~Validate
        <4>1. \A s, b : [Rest EXCEPT !.at = s, !.before = b].at = s
          BY DEF Rest
        <4>2. Validate => work'.at \in {"valid", "failed"}
          BY <4>1 DEF Validate
        <4> QED
          BY <2>1, <4>2
      <3> QED
        BY <2>1, <3>1 DEF Modes, SmokeBuy, SendClaim, IncludeClaim, ClaimAnswered, SmokeL2,
           CheckBalance, Replay, ConsumeOne, SmokeFails
    <2>3. ~Funding /\ ~Traffic
      BY <2>1 DEF Funding, FundBegins, FundWaits, FundClaims, FundFails, Traffic
    <2>4. CASE HostTick
      <3>1. Spare <= Spare' /\ UNCHANGED <<l1, anchor, phase, genesis, marked>>
        BY <2>4, TickCosts, Figures
      <3>2. Budget'
        BY <1>1, <3>1, MoreBudget
      <3>3. Beside'
        BY <1>1, <2>1, <3>1 DEF HeadroomInv, Beside
      <3> QED
        BY <3>2, <3>3
    <2>5. CASE Pace \/ BuildFails \/ \E f \in Faults : KeepAlive(f)
      <3>1. env.page # None /\ boot.at \in Resting \cup {"marker"}
        BY <2>5 DEF KeepAlive, Pace, BuildFails, QueueFree, HeadroomInv, Beside, DeploymentInv,
                    ClockShape, InBuild
      <3> QED
        BY <1>1, <2>1, <3>1, MarksStay, NothingDue
    <2> QED
      BY <2>2, <2>3, <2>4, <2>5 DEF ClockStep
  <1> QED
    BY <1>2, <1>3

(* L1 is not ahead of the host when the clock is activated, for any number  *)
(* of attempts, slot length and gateway delay, if the headroom covers what  *)
(* the attempts can use up and no smoke test is run before the marker is    *)
(* there.  Traffic, refreshes, restarts and wallets that are funded never   *)
(* count, since they come after the marker or with a new chain              *)
(* (start-anvil.mjs, wait-for-inbox.mjs, warpForwardSeconds in              *)
(* bootstrap-local-apps.mjs).                                               *)
THEOREM HeadroomIsEnough ==
    ASSUME HeadroomCovers
    PROVE  DeploymentSpec /\ [][marker = None => work' = work]_vars => []HeadroomSuffices
  <1>1. DeploymentInit => Budget /\ Beside
    <2> SUFFICES ASSUME DeploymentInit PROVE Budget /\ Beside
      OBVIOUS
    <2>1. /\ boot.at = "off" /\ boot.run = 0 /\ ~boot.final /\ work = Rest
          /\ lag = Headroom /\ l1 = wall - Headroom /\ wall = Headroom
          /\ phase = "bootstrap" /\ genesis = 1 /\ marked = 0
      BY DEF DeploymentInit, ClockInit, Genesis
    <2>2. Headroom \in Int /\ MaxRuns \in Int
      BY ClockAssumption, DeploymentAssumption
    <2>3. Spare = Headroom /\ Others = MaxRuns * FirstCost
      BY <2>1, <2>2 DEF Spare, Others
    <2>4. Slot \in Int /\ Delay \in Int
      BY ClockAssumption, DeploymentAssumption
    <2>5. PICK c \in Int : c = FirstCost
      BY <2>4 DEF FirstCost
    <2>6. MaxRuns * c \in Int
      BY <2>2, <2>5
    <2>7. Others + LastCost <= Spare
      BY <2>2, <2>3, <2>4, <2>5, <2>6 DEF HeadroomCovers, LastCost
    <2> QED
      BY <2>1, <2>7 DEF Budget, Beside, Settled
  <1>2. /\ DeploymentInv /\ DeploymentInv' /\ Budget /\ Beside /\ [DeploymentNext]_vars
        /\ [marker = None => work' = work]_vars
        => Budget' /\ Beside'
    <2> SUFFICES ASSUME DeploymentInv, DeploymentInv', Budget, Beside, [DeploymentNext]_vars,
                        [marker = None => work' = work]_vars
                 PROVE  Budget' /\ Beside'
      OBVIOUS
    <2> HeadroomInv
      BY DEF HeadroomInv
    <2>1. CASE Bootstrap
      BY <2>1, LookBudget, OpeningBudget, OutputsBudget, SeedingBudget, RecoveryBudget,
         ActivationBudget DEF Bootstrap, Worker
    <2>2. CASE Begin
      BY <2>2, BeginBudget
    <2>3. CASE BootstrapDies
      BY <2>3, EndKeeps DEF BootstrapDies, Stop, Files, Outside
    <2>4. CASE StartServices \/ StopServices
      BY <2>4, ServicesBudget DEF StartServices, StopServices, Files
    <2>5. CASE UNCHANGED vars
      BY <2>5, ServicesBudget DEF vars, stack
    <2>6. CASE \/ RestartNode \/ RestartChain
               \/ \E loaded, buildOnly \in BOOLEAN : FreshStart(loaded, buildOnly)
      BY <2>6, RestartBudget
    <2>7. CASE Modes \/ Funding \/ Traffic \/ ClockStep
      <3>1. marker = None => work' = work
        BY DEF vars
      <3> QED
        BY <2>7, <3>1, OthersBudget
    <2> QED
      BY <2>1, <2>2, <2>3, <2>4, <2>5, <2>6, <2>7 DEF DeploymentNext, Operator
  <1>3. DeploymentInv /\ Budget => HeadroomSuffices
    BY SpareIs DEF Budget, HeadroomSuffices, DeploymentInv
  <1> QED
    BY <1>1, <1>2, <1>3, DeploymentInductive, PTL DEF DeploymentSpec

HIDE DEF Me, Placed, Named, Filled, Seeding, Closing, Recovering, Rooted, Posted, Pinned, Ported,
         Ending, Opening

-----------------------------------------------------------------------------
(* Recovery. *)
USE PortalAssumption DEF Exists, latestRoot

-----------------------------------------------------------------------------
(* The registries: every root that was published has its interval, open for *)
(* the latest one only.                                                     *)
History(x, r) == historicalRoots[x][r]
USE DEF History

RegistryShape ==
    /\ now \in Nat /\ Start <= now
    /\ rootByIndex \in [Registry -> Seq(Root)]
    /\ historicalRoots \in [Registry -> [Root -> [from : Nat, to : Nat, revoked : BOOLEAN]]]

Intervals ==
    \A x \in Registry :
        /\ Len(rootByIndex[x]) >= 1
        /\ \A r \in Root : Exists(x, r) =>
              /\ 1 <= History(x, r).from /\ History(x, r).from <= now
              /\ r # latestRoot(x) => History(x, r).to >= 1

(* A proof made with the roots of the moment names roots that began before  *)
(* it and that nobody replaced a validity window before it.                 *)
ProofShape == [authorization : Authorization, date : Nat,
               roots : [Registry -> Root], fresh : BOOLEAN]
OfTheMoment(p) ==
    /\ Start <= p.date /\ p.date <= now
    /\ \A x \in Registry :
          /\ History(x, p.roots[x]).from <= p.date
          /\ \/ p.roots[x] = latestRoot(x)
             \/ History(x, p.roots[x]).to + ValidityWindow >= p.date
ProofsKnown ==
    /\ proofs \subseteq ProofShape
    /\ \A p \in proofs :
          /\ \A x \in Registry : Exists(x, p.roots[x])
          /\ p.fresh => OfTheMoment(p)

PortalInv == RegistryShape /\ Intervals /\ ProofsKnown

-----------------------------------------------------------------------------
(* Sequences of roots: what Append does to membership and to the last one.  *)
LEMMA Appended ==
    ASSUME NEW s \in Seq(Root), NEW r \in Root
    PROVE  /\ Append(s, r) \in Seq(Root) /\ Len(Append(s, r)) >= 1
           /\ Last(Append(s, r)) = r
           /\ \A q : Contains(Append(s, r), q) <=> Contains(s, q) \/ q = r
  <1>1. /\ Append(s, r) \in Seq(Root) /\ Len(s) \in Nat /\ Len(Append(s, r)) = Len(s) + 1
        /\ \A i \in 1 .. Len(s) : Append(s, r)[i] = s[i]
        /\ Append(s, r)[Len(s) + 1] = r
    BY AppendProperties, LenProperties
  <1>2. Last(Append(s, r)) = r
    BY <1>1 DEF Last
  <1>3. ASSUME NEW q
        PROVE  Contains(Append(s, r), q) <=> Contains(s, q) \/ q = r
    BY <1>1 DEF Contains
  <1> QED
    BY <1>1, <1>2, <1>3

LEMMA LatestExists ==
    ASSUME RegistryShape, Intervals, NEW x \in Registry
    PROVE  latestRoot(x) \in Root /\ Exists(x, latestRoot(x))
  <1>1. rootByIndex[x] \in Seq(Root) /\ Len(rootByIndex[x]) \in Nat \ {0}
    BY LenProperties DEF RegistryShape, Intervals
  <1> QED
    BY <1>1, ElementOfSeq DEF Last, Contains

(* updateRoot(x, r, t) closes the latest root of x just before t and opens  *)
(* r at t; every other interval stays.                                      *)
Opened(r, t) == [from |-> t, to |-> 0, revoked |-> FALSE]
Published(x, r, t) ==
    /\ latestRoot(x)' = r /\ Len(rootByIndex'[x]) >= 1 /\ r # latestRoot(x)
    /\ \A q : Exists(x, q)' <=> Exists(x, q) \/ q = r
    /\ \A y \in Registry \ {x} : rootByIndex'[y] = rootByIndex[y]
                                 /\ historicalRoots'[y] = historicalRoots[y]
    /\ History(x, r)' = Opened(r, t)
    /\ historicalRoots'[x][latestRoot(x)].from = History(x, latestRoot(x)).from
    /\ \A q \in Root \ {r, latestRoot(x)} : History(x, q)' = History(x, q)

LEMMA PublishedRoot ==
    ASSUME RegistryShape, Intervals, NEW x \in Registry, NEW r \in Root,
           NEW t \in Int, t <= now, updateRoot(x, r, t)
    PROVE  /\ RegistryShape' /\ Published(x, r, t)
           /\ historicalRoots'[x][latestRoot(x)].to = t - 1
           /\ t > History(x, latestRoot(x)).from
  <1> DEFINE old == latestRoot(x)
  <1>1. old \in Root /\ Exists(x, old) /\ old # r
    BY LatestExists DEF updateRoot
  <1>2. /\ rootByIndex' = [rootByIndex EXCEPT ![x] = Append(@, r)] /\ now' = now
        /\ t > History(x, old).from
    BY DEF updateRoot
  <1>3. rootByIndex'[x] = Append(rootByIndex[x], r) /\ rootByIndex[x] \in Seq(Root)
    BY <1>2 DEF RegistryShape
  <1>4. /\ rootByIndex'[x] \in Seq(Root) /\ Len(rootByIndex'[x]) >= 1
        /\ latestRoot(x)' = r /\ \A q : Exists(x, q)' <=> Exists(x, q) \/ q = r
    BY <1>3, Appended
  <1> HIDE DEF old
  <1>5. /\ historicalRoots'[x] = [historicalRoots[x] EXCEPT
              ![old] = [@ EXCEPT !.to = t - 1], ![r] = Opened(r, t)]
        /\ \A y \in Registry \ {x} : historicalRoots'[y] = historicalRoots[y]
        /\ DOMAIN historicalRoots' = Registry
    BY <1>1 DEF updateRoot, RegistryShape, Opened, old
  <1>6. /\ historicalRoots[x] \in [Root -> [from : Nat, to : Nat, revoked : BOOLEAN]]
        /\ t - 1 \in Nat /\ Opened(r, t) \in [from : Nat, to : Nat, revoked : BOOLEAN]
    BY <1>1, <1>2 DEF RegistryShape, Opened
  <1>7. /\ historicalRoots'[x] \in [Root -> [from : Nat, to : Nat, revoked : BOOLEAN]]
        /\ historicalRoots'[x][r] = Opened(r, t)
        /\ historicalRoots'[x][old].to = t - 1
        /\ historicalRoots'[x][old].from = historicalRoots[x][old].from
        /\ \A q \in Root \ {r, old} : historicalRoots'[x][q] = historicalRoots[x][q]
    BY <1>1, <1>5, <1>6
  <1>8. RegistryShape'
    <2>1. historicalRoots' \in [Registry -> [Root -> [from : Nat, to : Nat, revoked : BOOLEAN]]]
      BY <1>5, <1>7 DEF RegistryShape, updateRoot
    <2> QED
      BY <1>2, <1>4, <2>1 DEF RegistryShape
  <1>9. \A y \in Registry \ {x} : rootByIndex'[y] = rootByIndex[y]
    BY <1>2 DEF RegistryShape
  <1> QED
    BY <1>1, <1>2, <1>4, <1>5, <1>7, <1>8, <1>9 DEF Published, old

-----------------------------------------------------------------------------
(* Every step of the portal and of the registries keeps the invariant.      *)

(* Nothing but the passing of time and revocations.                         *)
Untouched ==
    /\ now' \in Nat /\ now <= now' /\ rootByIndex' = rootByIndex
    /\ historicalRoots' \in [Registry -> [Root -> [from : Nat, to : Nat, revoked : BOOLEAN]]]
    /\ \A x \in Registry, r \in Root : /\ History(x, r)'.from = History(x, r).from
                                       /\ History(x, r)'.to = History(x, r).to

LEMMA KeptUntouched ==
    ASSUME PortalInv, Untouched
    PROVE  RegistryShape' /\ Intervals'
           /\ \A p \in proofs : OfTheMoment(p) => OfTheMoment(p)'
  <1>1. RegistryShape' /\ \A x \in Registry : latestRoot(x)' = latestRoot(x)
                              /\ \A r : Exists(x, r)' <=> Exists(x, r)
    BY DEF PortalInv, RegistryShape, Untouched
  <1>2. Intervals'
    BY <1>1 DEF PortalInv, RegistryShape, Intervals, Untouched
  <1>3. ASSUME NEW p \in proofs, OfTheMoment(p)
        PROVE  OfTheMoment(p)'
    <2>1. p.date \in Nat /\ \A x \in Registry : p.roots[x] \in Root
      BY DEF PortalInv, ProofsKnown, ProofShape
    <2> QED
      BY <1>1, <1>3, <2>1 DEF OfTheMoment, PortalInv, RegistryShape, Untouched
  <1> QED
    BY <1>1, <1>2, <1>3

LEMMA KeptWithProofs ==
    ASSUME PortalInv, Untouched, proofs' = proofs
    PROVE  PortalInv'
  <1>1. \A x \in Registry, r \in Root : Exists(x, r)' <=> Exists(x, r)
    BY DEF Untouched
  <1> QED
    BY <1>1, KeptUntouched DEF PortalInv, ProofsKnown, ProofShape

LEMMA KeptByPublishing ==
    ASSUME OperationAssumption, PortalInv, PublishRoot
    PROVE  PortalInv'
  <1>1. PICK x \in Registry, r \in Root, t \in (now - Lag) .. now : updateRoot(x, r, t)
    BY DEF PublishRoot
  <1>2. t \in Int /\ now \in Nat /\ t <= now /\ t + Lag >= now /\ now' = now /\ proofs' = proofs
    BY <1>1 DEF PortalInv, RegistryShape, updateRoot
  <1>3. /\ RegistryShape' /\ Published(x, r, t)
        /\ historicalRoots'[x][latestRoot(x)].to = t - 1
        /\ t > History(x, latestRoot(x)).from
    BY <1>1, <1>2, PublishedRoot DEF PortalInv
  <1>4. latestRoot(x) \in Root /\ Exists(x, latestRoot(x)) /\ ~Exists(x, r)
    BY <1>1, LatestExists DEF PortalInv, updateRoot
  <1>5. \A y \in Registry \ {x} : /\ latestRoot(y)' = latestRoot(y)
                                 /\ \A q : Exists(y, q)' <=> Exists(y, q)
                                           /\ History(y, q)' = History(y, q)
    BY <1>3 DEF Published
  <1>6. ASSUME NEW y \in Registry
        PROVE  /\ Len(rootByIndex'[y]) >= 1
               /\ \A q \in Root : Exists(y, q)' =>
                     /\ 1 <= History(y, q)'.from /\ History(y, q)'.from <= now'
                     /\ q # latestRoot(y)' => History(y, q)'.to >= 1
    <2>1. CASE y # x
      BY <1>2, <1>3, <1>5, <2>1 DEF PortalInv, Intervals, Published
    <2>3. /\ History(x, latestRoot(x)).from \in Nat
          /\ 1 <= History(x, latestRoot(x)).from /\ History(x, latestRoot(x)).from <= now
      BY <1>4 DEF PortalInv, RegistryShape, Intervals
    <2>2. CASE y = x
      <3>1. ASSUME NEW q \in Root, Exists(x, q)'
            PROVE  /\ 1 <= History(x, q)'.from /\ History(x, q)'.from <= now'
                   /\ q # latestRoot(x)' => History(x, q)'.to >= 1
        <4>1. CASE q = r
          BY <1>2, <1>3, <2>3, <4>1 DEF Published, Opened
        <4>2. CASE q = latestRoot(x)
          BY <1>2, <1>3, <2>3, <4>2 DEF Published
        <4>3. CASE q \notin {r, latestRoot(x)}
          BY <1>2, <1>3, <3>1, <4>3 DEF PortalInv, Intervals, Published
        <4> QED
          BY <4>1, <4>2, <4>3
      <3> QED
        BY <1>3, <2>2, <3>1 DEF Published
    <2> QED
      BY <2>1, <2>2
  <1>7. ASSUME NEW p \in proofs, p.fresh
        PROVE  OfTheMoment(p)'
    <2>1. /\ p.date \in Nat /\ OfTheMoment(p)
          /\ \A y \in Registry : p.roots[y] \in Root /\ Exists(y, p.roots[y])
      BY <1>7 DEF PortalInv, ProofsKnown, ProofShape
    <2>2. p.roots[x] # r
      BY <1>4, <2>1
    <2>3. /\ History(x, p.roots[x])'.from <= p.date
          /\ History(x, p.roots[x])'.to + ValidityWindow >= p.date
      <3>1. CASE p.roots[x] = latestRoot(x)
        BY <1>2, <1>3, <2>1, <3>1, OperationAssumption DEF OfTheMoment, Published
      <3>2. CASE p.roots[x] # latestRoot(x)
        BY <1>3, <2>1, <2>2, <3>2 DEF OfTheMoment, Published
      <3> QED
        BY <3>1, <3>2
    <2>4. ASSUME NEW y \in Registry \ {x}
          PROVE  /\ History(y, p.roots[y])'.from <= p.date
                 /\ \/ p.roots[y] = latestRoot(y)'
                    \/ History(y, p.roots[y])'.to + ValidityWindow >= p.date
      BY <1>3, <2>1 DEF OfTheMoment, Published
    <2> QED
      BY <1>2, <2>1, <2>3, <2>4 DEF OfTheMoment
  <1>8. \A p \in proofs, y \in Registry : Exists(y, p.roots[y])'
    BY <1>3, <1>5 DEF PortalInv, ProofsKnown, Published
  <1>9. Intervals'
    BY <1>6 DEF Intervals
  <1>10. ProofsKnown'
    BY <1>2, <1>7, <1>8 DEF PortalInv, ProofsKnown, ProofShape
  <1> QED
    BY <1>3, <1>9, <1>10 DEF PortalInv

LEMMA KeptByProving ==
    ASSUME PortalInv, NEW a \in Authorization, NEW date \in now .. now + Lead,
           NEW used \in [Registry -> Root], Prove(a, date, used)
    PROVE  PortalInv'
  <1> DEFINE p == NewProof(a, date, used)
  <1>1. proofs' = proofs \cup {p} /\ UNCHANGED <<now, rootByIndex, historicalRoots>>
    BY DEF Prove, roots
  <1>2. now \in Nat /\ date \in Nat
    BY DEF PortalInv, RegistryShape
  <1>3. p \in ProofShape /\ p.roots = used /\ p.date = date
        /\ (p.fresh => date = now /\ \A x \in Registry : used[x] = latestRoot(x))
    BY <1>2 DEF NewProof, ProofShape
  <1>4. \A x \in Registry : Exists(x, used[x])
    BY DEF Prove
  <1> HIDE DEF p
  <1>5. p.fresh => OfTheMoment(p)
    BY <1>2, <1>3, <1>4 DEF OfTheMoment, PortalInv, RegistryShape, Intervals
  <1>6. Untouched
    BY <1>1 DEF Untouched, PortalInv, RegistryShape
  <1>7. ASSUME NEW q \in proofs'
        PROVE  /\ q \in ProofShape /\ \A x \in Registry : Exists(x, q.roots[x])'
               /\ q.fresh => OfTheMoment(q)'
    <2>1. CASE q = p
      BY <1>1, <1>3, <1>4, <1>5, <2>1 DEF OfTheMoment
    <2>2. CASE q \in proofs
      BY <1>1, <1>6, <2>2, KeptUntouched DEF PortalInv, ProofsKnown
    <2> QED
      BY <1>1, <2>1, <2>2
  <1> QED
    BY <1>6, <1>7, KeptUntouched DEF PortalInv, ProofsKnown

LEMMA KeptByPortal ==
    ASSUME OperationAssumption, PortalInv, [PortalNext]_portalVars
    PROVE  PortalInv'
  <1>1. CASE UNCHANGED <<now, roots, proofs>>
    <2>1. Untouched
      BY <1>1 DEF PortalInv, RegistryShape, Untouched, roots
    <2> QED
      BY <1>1, <2>1, KeptWithProofs
  <1>2. CASE RevokeRoot
    <2>1. PICK x \in Registry, r \in Root, b \in BOOLEAN : setRevocationStatus(x, r, b)
      BY <1>2 DEF RevokeRoot
    <2> DEFINE h == [historicalRoots[x][r] EXCEPT !.revoked = b]
    <2>3. h \in [from : Nat, to : Nat, revoked : BOOLEAN]
          /\ h.from = historicalRoots[x][r].from /\ h.to = historicalRoots[x][r].to
      <3>1. historicalRoots[x][r] \in [from : Nat, to : Nat, revoked : BOOLEAN]
        BY DEF PortalInv, RegistryShape
      <3> QED
        BY <3>1
    <2>4. historicalRoots' = [historicalRoots EXCEPT ![x] = [@ EXCEPT ![r] = h]]
          /\ UNCHANGED <<now, rootByIndex>>
      BY <2>1 DEF setRevocationStatus
    <2> HIDE DEF h
    <2>2. Untouched
      BY <2>3, <2>4 DEF PortalInv, RegistryShape, Untouched
    <2> QED
      BY <2>1, <2>2, KeptWithProofs DEF setRevocationStatus
  <1>3. CASE SetPolicy
    BY <1>1, <1>3 DEF SetPolicy, setRootValidationMode, setValidityWindow
  <1>4. CASE Govern
    BY <1>1, <1>4 DEF Govern, SetRootRegistryPaused, SetPaused, addRegistry, removeRegistry
  <1>5. CASE \E p \in proofs : authorizeRecovery(p)
    BY <1>1, <1>5 DEF authorizeRecovery
  <1>6. CASE Tick
    <2>1. Untouched
      BY <1>6 DEF PortalInv, RegistryShape, Untouched, Tick, roots
    <2> QED
      BY <1>6, <2>1, KeptWithProofs DEF Tick
  <1>7. CASE PublishRoot
    BY <1>7, KeptByPublishing
  <1>8. CASE MakeProof
    BY <1>8, KeptByProving DEF MakeProof
  <1>9. CASE UNCHANGED portalVars
    BY <1>1, <1>9 DEF portalVars
  <1> QED
    BY <1>2, <1>3, <1>4, <1>5, <1>6, <1>7, <1>8, <1>9 DEF PortalNext

LEMMA PortalInvInit == PortalInit => PortalInv
  <1> SUFFICES ASSUME PortalInit
               PROVE  PortalInv
    OBVIOUS
  <1>1. RegistryShape /\ proofs = {}
    BY DEF PortalInit, RegistryShape
  <1>2. ASSUME NEW x \in Registry
        PROVE  /\ Len(rootByIndex[x]) = 1 /\ latestRoot(x) = FirstRoot
               /\ \A r : Exists(x, r) => r = FirstRoot
               /\ History(x, FirstRoot).from = Start
    BY DEF PortalInit, Last, Contains
  <1>3. Intervals
    BY <1>1, <1>2 DEF Intervals, PortalInit
  <1> QED
    BY <1>1, <1>3 DEF PortalInv, ProofsKnown

LEMMA PortalInvariant == PortalSpec => []PortalInv
  <1>1. PortalInv /\ [PortalNext]_portalVars => PortalInv'
    BY OperationAssumption, KeptByPortal
  <1> QED
    BY <1>1, PortalInvInit, PTL DEF PortalSpec

-----------------------------------------------------------------------------
(* Whatever roots are published after a proof was made with the roots of    *)
(* the moment, the portal accepts it for MaxAge: publication lags less than *)
(* the validity window, so the window reaches back to the proof.            *)
LEMMA FreshProofsAccepted == PortalInv => ProofsSurviveRotation
  <1> SUFFICES ASSUME PortalInv, NEW p \in proofs, p.fresh,
                      p.authorization \notin accepted, now < p.date + MaxAge,
                      \A x \in Registry : Undisturbed(p, x)
               PROVE  Acceptable(p)
    BY DEF ProofsSurviveRotation
  <1>1. /\ OfTheMoment(p) /\ p.date \in Nat /\ now \in Nat
        /\ \A x \in Registry : p.roots[x] \in Root /\ Exists(x, p.roots[x])
    BY DEF PortalInv, RegistryShape, ProofsKnown, ProofShape
  <1>2. ASSUME NEW x \in Registry
        PROVE  isRootValid(x, p.roots[x], p.date)
    <2>1. /\ History(x, p.roots[x]).from \in Nat /\ History(x, p.roots[x]).to \in Nat
          /\ History(x, p.roots[x]).from <= p.date /\ p.date >= ValidityWindow
          /\ \/ p.roots[x] = latestRoot(x)
             \/ History(x, p.roots[x]).to + ValidityWindow >= p.date
      BY <1>1, OperationAssumption DEF OfTheMoment, PortalInv, RegistryShape
    <2>2. rootValidationMode[x] = "valid_within_window" /\ validityWindowSecs[x] = ValidityWindow
      BY DEF Undisturbed, AsDeployed
    <2>3. ValidByMode(x, p.roots[x], p.date)
      BY <1>1, <2>1, <2>2 DEF ValidByMode
    <2> QED
      BY <1>1, <2>3 DEF isRootValid, Undisturbed
  <1>3. now >= p.date /\ now - p.date < MaxAge
    BY <1>1 DEF OfTheMoment
  <1> QED
    BY <1>2, <1>3 DEF Acceptable

(* Whatever the publisher, the owner and other people do meanwhile, a proof *)
(* made with the roots of the moment is accepted for its hour, unless its   *)
(* roots were disturbed (RegistryInstance.sol, isRootValid).                *)
THEOREM RotationSurvival == PortalSpec => []ProofsSurviveRotation
  BY PortalInvariant, FreshProofsAccepted, PTL

(* A replaced root has a last moment, so what the window and the age allow  *)
(* is counted from there.                                                   *)
LEMMA OldRootsExpire ==
    ASSUME PortalInv, NEW p \in proofs, authorizeRecovery(p)
    PROVE  ~AgedOut(p)
  <1> SUFFICES ASSUME NEW x \in Registry, AsDeployed(x), p.roots[x] # latestRoot(x)
               PROVE  now < History(x, p.roots[x]).to + ValidityWindow + MaxAge
    <2>1. /\ p.date \in Nat /\ now \in Nat /\ p.roots \in [Registry -> Root]
          /\ \A x \in Registry : History(x, p.roots[x]).to \in Nat
      BY DEF PortalInv, RegistryShape, ProofsKnown, ProofShape
    <2> QED
      BY <2>1 DEF AgedOut
  <1>1. /\ p.date \in Nat /\ now \in Nat /\ p.roots[x] \in Root /\ Exists(x, p.roots[x])
        /\ History(x, p.roots[x]).to \in Nat
    BY DEF PortalInv, RegistryShape, ProofsKnown, ProofShape
  <1>2. now - p.date < MaxAge /\ ValidByMode(x, p.roots[x], p.date)
    BY DEF authorizeRecovery, Acceptable, isRootValid
  <1>3. History(x, p.roots[x]).to >= 1
    BY <1>1 DEF PortalInv, Intervals
  <1>4. History(x, p.roots[x]).to >= p.date - ValidityWindow
    BY <1>1, <1>2, <1>3 DEF ValidByMode, AsDeployed
  <1> QED
    BY <1>1, <1>2, <1>4

(* No step of the portal accepts a proof of a root that was replaced more   *)
(* than a window and a proof age ago (RegistryInstance.sol, isRootValid;    *)
(* MagnaRecoveryPortal.sol, authorizeRecovery).                             *)
THEOREM RetiredRoots == PortalSpec => RetiredRootsAgeOut
  <1>1. PortalInv /\ [PortalNext]_portalVars
           => [\A p \in proofs : authorizeRecovery(p) => ~AgedOut(p)]_portalVars
    BY OldRootsExpire
  <1> QED
    BY <1>1, PortalInvariant, PTL DEF PortalSpec, RetiredRootsAgeOut

-----------------------------------------------------------------------------
(* The flow: one person's recoveries through the page.                      *)
Stage == {"idle", "scanning", "proved", "authorizing", "waiting", "prepared",
          "sending", "settled", "confirmed"}
FlowShape ==
    /\ tab \in [stage : Stage, attempt : Nat]
    /\ resuming \in [confirmed : BOOLEAN, attempt : Nat]
    /\ pending \in [phase : {"none", "prepared", "submitted"}, attempt : Nat]
    /\ attempts \in Nat /\ live \in Nat
    /\ \A tx \in pool : tx.attempt \in Nat

(* Every attempt that the page, the record or the chains know was started.  *)
Started ==
    /\ attempts <= Cardinality(Authorization)
    /\ tab.attempt <= attempts /\ (tab.stage = "idle" <=> tab.attempt = NoAttempt)
    /\ resuming.attempt <= attempts /\ pending.attempt <= attempts
    /\ pending = NoRecord \/ pending.attempt # NoAttempt
    /\ \A tx \in pool : tx.attempt \in 1 .. attempts
    /\ consumed \subseteq 1 .. attempts

(* A page that is past the settlement, or a resume past its look at the     *)
(* chain, has what it has seen.                                             *)
Seen ==
    /\ live \in consumed \cup {NoAttempt}
    /\ tab.stage \in {"settled", "confirmed"} => tab.attempt \in consumed
    /\ tab.stage = "confirmed" => tab.attempt \in witnesses
    /\ resuming.confirmed => resuming.attempt \in witnesses

(* From the moment the record is saved until the witness is: if the person  *)
(* started one recovery, the record is of that recovery.                    *)
Beyond(n) ==
    \/ n \in consumed \/ \E tx \in pool : tx.attempt = n
    \/ tab.stage \in {"prepared", "sending", "settled", "confirmed"}
Kept == attempts = 1 /\ Beyond(1) => 1 \in witnesses \/ pending.attempt = 1

FlowInv == FlowShape /\ Started /\ Seen /\ RecordsAreTrue /\ Kept

LEMMA FlowInit == Init => FlowInv
  <1>1. Cardinality(Authorization) \in Nat
    BY FlowAssumption, FS_CardinalityType
  <1> QED
    BY <1>1 DEF Init, FlowInv, FlowShape, Started, Seen, RecordsAreTrue, Kept, Beyond,
       Idle, NotResuming, NoRecord, NoAttempt, Stage

LEMMA PageKeeps ==
    ASSUME FlowInv, Page
    PROVE  FlowInv'
  <1> USE DEF FlowInv, FlowShape, Started, Seen, RecordsAreTrue, Kept, Beyond, At, MoveTo,
              Idle, NotResuming, NoRecord, NoAttempt, Stage, page, localStorage, aztec
  <1>0. Cardinality(Authorization) \in Nat
    BY FlowAssumption, FS_CardinalityType
  <1>1. CASE StartRootRecovery
    BY <1>0, <1>1 DEF StartRootRecovery
  <1>2. CASE ScanPassport
    BY <1>2 DEF ScanPassport
  <1>3. CASE SubmitAuthorization
    BY <1>3 DEF SubmitAuthorization
  <1>4. CASE ObserveAuthorization
    BY <1>4 DEF ObserveAuthorization
  <1>5. CASE PrepareFinalization
    BY <1>5 DEF PrepareFinalization
  <1>6. CASE SendRecovery
    BY <1>6 DEF SendRecovery
  <1>7. CASE ObserveSettlement
    BY <1>7 DEF ObserveSettlement
  <1>8. CASE ConfirmRecovery
    BY <1>8 DEF ConfirmRecovery, Active
  <1>9. CASE FinishRecovery
    BY <1>9 DEF FinishRecovery
  <1>10. CASE FailRecovery
    BY <1>10 DEF FailRecovery
  <1>11. CASE BeginResume
    BY <1>11 DEF BeginResume
  <1>12. CASE ConfirmResume
    BY <1>12 DEF ConfirmResume, Active
  <1>13. CASE FinishResume
    BY <1>13 DEF FinishResume
  <1>14. CASE FailResume
    BY <1>14 DEF FailResume
  <1>15. CASE Crash
    BY <1>15 DEF Crash
  <1> QED
    BY <1>1, <1>2, <1>3, <1>4, <1>5, <1>6, <1>7, <1>8, <1>9, <1>10, <1>11, <1>12, <1>13,
       <1>14, <1>15 DEF Page

LEMMA ChainsKeep ==
    ASSUME FlowInv, Chains
    PROVE  FlowInv'
  <1> USE DEF FlowInv, FlowShape, Started, Seen, RecordsAreTrue, Kept, Beyond,
              NoRecord, NoAttempt, Stage, page, localStorage, aztec
  <1>1. ASSUME NEW p \in relayed, IncludeAuthorization(p)
        PROVE  FlowInv'
    BY <1>1 DEF IncludeAuthorization
  <1>2. ASSUME NEW n \in Authorization, DeliverMessage(n)
        PROVE  FlowInv'
    BY <1>2 DEF DeliverMessage
  <1>3. ASSUME NEW tx \in pool, IncludeRecovery(tx)
        PROVE  FlowInv'
    BY <1>3 DEF IncludeRecovery
  <1>4. ASSUME NEW tx \in pool, DropRecovery(tx)
        PROVE  FlowInv'
    BY <1>4 DEF DropRecovery
  <1>5. CASE UNCHANGED <<page, localStorage, relayed, aztec>>
    BY <1>5
  <1> QED
    BY <1>1, <1>2, <1>3, <1>4, <1>5 DEF Chains

LEMMA FlowInvariant == Spec => []FlowInv
  <1>1. FlowInv /\ [Next]_flowVars => FlowInv'
    <2>1. FlowInv /\ UNCHANGED flowVars => FlowInv'
      BY DEF FlowInv, FlowShape, Started, Seen, RecordsAreTrue, Kept, Beyond, flowVars, page,
         localStorage, aztec
    <2> QED
      BY <2>1, PageKeeps, ChainsKeep DEF Next
  <1> QED
    BY <1>1, FlowInit, PTL DEF Spec

(* No crash, failed await, dropped or delayed transaction, and no resume    *)
(* beside the recovery makes the record or the saved witnesses claim a      *)
(* recovery that did not settle.                                            *)
THEOREM TrueRecords == Spec => []RecordsAreTrue
  <1>1. FlowInv => RecordsAreTrue
    BY DEF FlowInv
  <1> QED
    BY <1>1, FlowInvariant, PTL

(* A person who starts one recovery never loses it: from the record on,     *)
(* the witness is saved or the record can be resumed.                       *)
THEOREM OneRecoveryIsKept == Spec => []OnlyRecoveryIsResumable
  <1>1. FlowInv => OnlyRecoveryIsResumable
    <2> SUFFICES ASSUME FlowInv, attempts = 1, live # NoAttempt
                 PROVE  live \in witnesses \/ pending.attempt = live
      BY DEF OnlyRecoveryIsResumable, RecoveredPassportIsResumable
    <2>1. live = 1 /\ Beyond(1)
      BY DEF FlowInv, FlowShape, Started, Seen, Beyond
    <2> QED
      BY <2>1 DEF FlowInv, Kept
  <1> QED
    BY <1>1, FlowInvariant, PTL

-----------------------------------------------------------------------------
(* The page uses the registries and the portal as anybody else does, so the *)
(* flow implements them, and the theorems about them hold of it.            *)
ProofOfTab == \E p \in proofs : p.authorization = tab.attempt
Relays ==
    /\ relayed \subseteq proofs
    /\ At("proved") => ProofOfTab

LEMMA PageUsesPortal ==
    ASSUME FlowInv, Relays, PortalInv, [Next]_flowVars
    PROVE  [PortalNext]_portalVars /\ Relays'
  <1> USE DEF At, MoveTo, Relays, page, localStorage, aztec
  <1>1. CASE ScanPassport
    <2> DEFINE used == [x \in Registry |-> latestRoot(x)]
    <2>1. used \in [Registry -> Root]
      BY LatestExists DEF PortalInv
    <2>2. tab.attempt \in Authorization
      <3>1. Cardinality(Authorization) \in Nat /\ Authorization = 1 .. Cardinality(Authorization)
        BY FlowAssumption, FS_CardinalityType
      <3> QED
        BY <1>1, <3>1 DEF ScanPassport, FlowInv, FlowShape, Started, NoAttempt
    <2>3. now \in now .. now + Lead
      BY DEF PortalInv, RegistryShape
    <2>4. Prove(tab.attempt, now, used)
      BY <1>1 DEF ScanPassport
    <2>5. MakeProof
      BY <2>1, <2>2, <2>3, <2>4 DEF MakeProof
    <2>6. Relays'
      <3> DEFINE p == NewProof(tab.attempt, now, used)
      <3>1. p \in proofs' /\ proofs \subseteq proofs' /\ p.authorization = tab.attempt
        BY <2>4 DEF Prove, NewProof
      <3>2. tab'.attempt = tab.attempt /\ relayed' = relayed
        BY <1>1 DEF ScanPassport, FlowInv, FlowShape
      <3> HIDE DEF p
      <3> QED
        BY <3>1, <3>2 DEF ProofOfTab
    <2> QED
      BY <2>5, <2>6 DEF PortalNext
  <1>2. CASE SubmitAuthorization
    <2>1. ProofOf(tab.attempt) \in proofs
      BY <1>2 DEF SubmitAuthorization, ProofOf, ProofOfTab
    <2> QED
      BY <1>2, <2>1 DEF SubmitAuthorization, portalVars, FlowInv, FlowShape
  <1>3. CASE \E p \in relayed : IncludeAuthorization(p)
    BY <1>3 DEF IncludeAuthorization, authorizeRecovery, PortalNext, ProofOfTab
  <1>4. CASE Tick /\ UNCHANGED <<page, localStorage, relayed, aztec>>
    BY <1>4 DEF Tick, PortalNext, ProofOfTab
  <1>5. CASE UNCHANGED <<portalVars, relayed>> /\ (tab' = tab \/ ~At("proved")')
    BY <1>5 DEF portalVars, ProofOfTab
  <1>6. CASE Page /\ ~ScanPassport /\ ~SubmitAuthorization
    BY <1>5, <1>6 DEF Page, StartRootRecovery, ObserveAuthorization, PrepareFinalization,
       SendRecovery, ObserveSettlement, ConfirmRecovery, FinishRecovery, FailRecovery,
       BeginResume, ConfirmResume, FinishResume, FailResume, Crash, Idle, FlowInv, FlowShape
  <1>7. CASE \/ \E n \in Authorization : DeliverMessage(n)
             \/ \E tx \in pool : IncludeRecovery(tx) \/ DropRecovery(tx)
             \/ UNCHANGED flowVars
    BY <1>5, <1>7 DEF DeliverMessage, IncludeRecovery, DropRecovery, flowVars
  <1> QED
    BY <1>1, <1>2, <1>3, <1>4, <1>6, <1>7 DEF Next, Chains

(* Every behaviour of the flow is one of the registries and the portal.     *)
THEOREM FlowImplementsPortal == Spec => PortalSpec
  <1>1. Init => PortalInit /\ Relays
    BY DEF Init, Relays, At, Idle
  <1>2. FlowInv /\ Relays /\ PortalInv /\ [Next]_flowVars
           => [PortalNext]_portalVars /\ Relays' /\ PortalInv'
    BY OperationAssumption, PageUsesPortal, KeptByPortal
  <1> QED
    BY <1>1, <1>2, FlowInvariant, PortalInvInit, PTL DEF Spec, PortalSpec
=============================================================================
