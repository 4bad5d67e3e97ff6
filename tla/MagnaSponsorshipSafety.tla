------------------------ MODULE MagnaSponsorshipSafety ------------------------
(* What sponsorship promises to the company that pays, to the orchestrator  *)
(* that governs the gateways and to the dApp that asked for a session.      *)
EXTENDS MagnaSponsorship

IsRateLimit(e) == e.n[1] = "rate_limit"
RateLimits == {e \in nullifiers : IsRateLimit(e)}
Authorizations(g) == {e \in nullifiers : e.n[1] = "authorization" /\ e.n[2] = g}
SpentRights == UNION {{g} \X (1 .. consumed_verifies[g]) : g \in Sponsor}

(* The code's windows, of the settlement: a block at the very end of a      *)
(* window still includes what was proven in it.                             *)
WindowOf(t) == (t - 1) \div Window

-----------------------------------------------------------------------------
(* A verification, its right, its meters, its rate limit slot and its       *)
(* session authorization settle together or not at all, also when the       *)
(* budget runs out between the proof and the block (protocol-spec.md 8.3).  *)
MeteringIsAtomic ==
    /\ sponsored_verify_count = consumed_verifies
    /\ Cardinality(RateLimits) =
          IF verify_meter_hook THEN metered_verify_count
          ELSE Cardinality(SpentRights)
    /\ verify_meter_hook => verify_meter_count = metered_verify_count
    /\ \A g \in Sponsor : Cardinality(Authorizations(g)) <= consumed_verifies[g]

(* However long transactions wait in the pool, no more sponsored calls of a *)
(* credential settle in a window than the window has slots.                 *)
RateLimited ==
    \A c \in Credential, e \in RateLimits :
        Cardinality({x \in RateLimits :
                        x.n[2] = c /\ WindowOf(x.at) = WindowOf(e.at)})
            <= Cardinality(Slot)

(* What a private call read at its anchor about gateways, sponsored types   *)
(* and expiry still holds in the block that includes it.                    *)
PrivateReadsStayValid ==
    \A tx \in pool : Includable(tx) =>
        /\ now <= CredentialExpiry[tx.credential]
        /\ IsSponsored(tx) => ~Now(disabled_company_sponsor_gateways[tx.gateway])
        /\ tx.lane = "consumer" => /\ Now(consumer_gateways[tx.gateway])
                                   /\ ~Now(disabled_consumer_gateways[tx.gateway])
        /\ IsSponsored(tx) \/ verify_meter_hook => SponsoredType(tx.credential)
=============================================================================
