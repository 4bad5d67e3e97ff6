--------------------------- MODULE MCMagnaIssuer ---------------------------
(* Small instances of MagnaIssuer for TLC.  A behaviour is about the        *)
(* deployed entrypoints, or about those kept for notes issued before the V2 *)
(* schema: the two share the state and every helper, not their claims.      *)
EXTENDS MagnaIssuerSafety, TLC

WalletSymmetry == Permutations(Wallet)

(* Every claims hash that commits to an expiry commits to the last one. *)
CommittedExpiry == [c \in Claims \ PassportV2 |-> MaxTime]
LastExpiry == {MaxTime}

(* The entrypoints the deployed verification service calls. *)
ServiceCalls == {"register_credential", "register_rooted_passport_v2"}
RenewalCalls == {"register_rooted_passport_v2",
                 "authorize_root_authority_refresh"}
LegacyCalls == {"register_credential", "register_root", "register_root_authority",
                "register_linked_credential", "register_rooted_passport", "refresh_root_authority"}

CONSTANTS Focus, LegacySecrets
VARIABLE about
Deployed == INSTANCE MagnaIssuer WITH PassportV1 <- {}, OtherClaims <- {}
Legacy == INSTANCE MagnaIssuer WITH PassportV2 <- {}, Instagram <- {},
    OrchestratorCalls <- LegacyCalls, MaxSecret <- LegacySecrets
MCInit == Init /\ about \in Focus
MCNext ==
    /\ UNCHANGED about
    /\ \/ about = "deployed" /\ Deployed!Next
       \/ about = "legacy" /\ Legacy!Next
MCSpec == MCInit /\ [][MCNext]_<<vars, about>>
=============================================================================
