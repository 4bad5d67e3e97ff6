-------------------------- MODULE MCMagnaRecovery --------------------------
(* A behaviour is about the registries and the portal, with one             *)
(* authorization that anybody relays, or about a person who recovers        *)
(* through the app while the registry keeps its root.  Times are scaled     *)
(* down with the order of the code's constants kept: the validity window is *)
(* at least the proof age, publication lags less than the window.           *)
EXTENDS MagnaRecoveryFlowSafety

CONSTANTS r1, r2, r3, Focus, PortalTime
TwoAttempts == {1, 2}

VARIABLE about
Relayed == INSTANCE MagnaRecoveryPortal WITH Authorization <- {1}, MaxTime <- PortalTime
MCInit == Init /\ about \in Focus
MCNext ==
    /\ UNCHANGED about
    /\ \/ about = "portal" /\ Relayed!PortalNext
                             /\ UNCHANGED <<page, localStorage, relayed, aztec>>
       \/ about = "flow" /\ Next
MCSpec == MCInit /\ [][MCNext]_<<flowVars, about>>
=============================================================================
