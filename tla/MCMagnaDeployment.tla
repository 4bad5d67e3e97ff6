-------------------------- MODULE MCMagnaDeployment --------------------------
(* A behaviour is about the attempts to put a network up, or about a        *)
(* network that is up: its clock under traffic, faults and restarts, or the *)
(* tests of its rights stack beside other buyers.                           *)
EXTENDS MagnaDeploymentSafety

CONSTANTS DeployTime, Focus
VARIABLE about
MCInit == DeploymentInit /\ about \in Focus
MCNext ==
    /\ DeploymentNext /\ UNCHANGED about
    /\ IF about = "deploy" THEN wall' <= DeployTime /\ work' = Rest /\ (services # None => UNCHANGED clockVars)
       ELSE /\ boot.run = 1 => boot'.at # "off" \/ boot.at = "done"
            /\ boot'.run < 2 \/ boot'.at \notin {"rights", "apps"}
            /\ wall' # wall => boot.at = "done"
            /\ IF about = "clock" THEN chain'.credit = chain.credit /\ work'.at \in {"off", "funding"}
               ELSE boot'.run < 2 /\ net' = 1 /\ work'.at # "funding" /\ (services # None => services' # None)
MCSpec == MCInit /\ [][MCNext]_<<vars, about>>
=============================================================================
