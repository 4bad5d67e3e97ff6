------------------------- MODULE MCMagnaSponsorship -------------------------
(* A behaviour is about one credential while its gateways, its type and the *)
(* meter hook are governed, or about two credentials and a session on a     *)
(* sponsor that runs out of rights, without a hook.                         *)
EXTENDS MagnaSponsorshipSafety, TLC

CONSTANTS passport, instagram, p, i, Focus, SettleBy
TwoTypes == (p :> passport) @@ (i :> instagram)
(* The passport expires before the last block. *)
Expiries == (p :> 4) @@ (i :> 99)

VARIABLE about
MCInit == /\ Init /\ about \in Focus
          /\ verify_meter_hook = (about = "governance")
Proven(tx) ==
    IF about = "governance"
    THEN tx.lane # "plain" /\ tx.credential = p /\ tx.session = NoSession /\ pool = {}
    ELSE tx.lane # "consumer"
MCNext ==
    /\ Next /\ UNCHANGED about
    /\ \A tx \in pool' \ pool : Proven(tx)
    /\ IF about = "governance"
       THEN /\ \A g \in Sponsor : remaining_verifies'[g] + consumed_verifies'[g] < MaxRights
            /\ wired' # wired => now = 1
       ELSE /\ now' <= SettleBy
            /\ <<sponsored_credential_type_mask, consumer_gateways,
                 disabled_consumer_gateways>>' =
               <<sponsored_credential_type_mask, consumer_gateways,
                 disabled_consumer_gateways>>
MCSpec == MCInit /\ [][MCNext]_<<vars, about>>
=============================================================================
