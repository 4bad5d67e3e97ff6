---------------------- MODULE MagnaRecoveryPortalSafety ----------------------
(* What the recovery portal owes the issuer and the person recovering. *)
EXTENDS MagnaRecoveryPortal

(* How the registries are operated: a root is dated at most a validity      *)
(* window before its publication, and the chain is older than a window      *)
(* (block.timestamp counts from 1970, the window is hours).                 *)
ASSUME OperationAssumption == Lag < ValidityWindow /\ ValidityWindow <= Start

(* A person who proves with the roots of the moment has the full hour to    *)
(* get the proof on chain, whatever roots are published meanwhile: only a   *)
(* revocation, a pause, a removal or a narrower policy takes it away.       *)
AsDeployed(x) == /\ rootValidationMode[x] = "valid_within_window"
                 /\ validityWindowSecs[x] = ValidityWindow
Undisturbed(p, x) ==
    /\ ~rootRegistryPaused /\ x \in registries /\ ~paused[x]
    /\ ~historicalRoots[x][p.roots[x]].revoked
    /\ AsDeployed(x)
ProofsSurviveRotation ==
    \A p \in proofs :
        ( /\ p.fresh
          /\ p.authorization \notin accepted
          /\ now < p.date + MaxAge
          /\ \A x \in Registry : Undisturbed(p, x) )
        => Acceptable(p)

(* p rests on a root that was replaced a window and a proof age ago.        *)
AgedOut(p) ==
    \E x \in Registry :
        /\ AsDeployed(x)
        /\ p.roots[x] # latestRoot(x)
        /\ now >= historicalRoots[x][p.roots[x]].to + ValidityWindow + MaxAge

(* A root that has been replaced stops authorizing recoveries one validity  *)
(* window plus one proof age after its last moment, without being revoked:  *)
(* a leaked proof key of an old root ages out.  The owner of the registry   *)
(* can widen that by policy.                                                *)
RetiredRootsAgeOut ==
    [][\A p \in proofs : authorizeRecovery(p) => ~AgedOut(p)]_portalVars
=============================================================================
