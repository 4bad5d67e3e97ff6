--------------------------- MODULE MagnaSponsorship ---------------------------
(***************************************************************************)
(* Sponsored verification: MagnaCompanySponsor pays the fee of a verify    *)
(* and spends one right of its company; the issuer gates the gateways, the *)
(* sponsored credential types and the rate of each credential in private;  *)
(* the budget is checked in public.  A transaction is proven against the   *)
(* latest block, waits in the pool, and is included, reverted or dropped   *)
(* when its turn comes.                                                    *)
(***************************************************************************)
EXTENDS MagnaDelayedValue, FiniteSets

CONSTANTS
    Sponsor,            \* MagnaCompanySponsor contracts
    Consumer,           \* MagnaConsumer contracts
    Credential,         \* status notes: a revocation secret and its claims
    CredentialType,
    TypeOf,             \* credential_type of a credential
    CredentialExpiry,
    Session,            \* session requirements a dApp asked for
    NoSession, NoGateway,
    Slot,               \* 0 .. MAGNA_SPONSOR_RL_MAX_SLOTS_PER_WINDOW - 1
    Window,             \* MAGNA_SPONSOR_RL_WINDOW_SECONDS
    RevocationAnchor,   \* MAGNA_REVOCATION_ANCHOR_SECONDS
    PolicyDelay,        \* MAGNA_SPONSOR_POLICY_DELAY_SECONDS
    Lane,               \* the verify lanes the wallets use
    Mask,               \* masks the orchestrator schedules, as sets of types
    MaxFee,             \* fee bounds a wallet may put in its gas settings
    MaxFeeCap,          \* max_fee_cap of the sponsor contracts
    MaxTime, MaxPending, MaxRights

ASSUME SponsorshipAssumption ==
    /\ TypeOf \in [Credential -> CredentialType]
    /\ CredentialExpiry \in [Credential -> Nat]
    /\ Window \in Nat \ {0} /\ PolicyDelay \in Nat \ {0}
    /\ RevocationAnchor \in Nat /\ MaxFeeCap \in Nat /\ MaxFee \subseteq Nat
    /\ MaxTime \in Nat /\ MaxPending \in Nat /\ MaxRights \in Nat
    /\ NoGateway \notin Sponsor \cup Consumer /\ NoSession \notin Session
    /\ Sponsor \cap Consumer = {}
    /\ \A m \in Mask : m \subseteq CredentialType
    /\ IsFiniteSet(Slot)

VARIABLES
    now,                        \* timestamp of the latest block
    pool,                       \* proven transactions not settled yet
    nullifiers,                 \* settled nullifiers with their block time
    (* MagnaIssuer *)
    company_sponsor_gateways, disabled_company_sponsor_gateways,
    consumer_gateways, disabled_consumer_gateways,
    sponsored_credential_type_mask, verify_meter_count,
    verify_meter_hook,          \* not the zero address
    (* MagnaVerifyMeterHook, MagnaConsumer *)
    hook_issuer_set, metered_verify_count, gated_login_count,
    (* MagnaCompanySponsor and its row of MagnaCompanyRightsRegistry *)
    wired, sponsored_verify_count, remaining_verifies, consumed_verifies,
    fees                        \* fee juice charged to each sponsor, at most

gates == <<company_sponsor_gateways, disabled_company_sponsor_gateways,
           consumer_gateways, disabled_consumer_gateways,
           sponsored_credential_type_mask>>
meters == <<verify_meter_count, metered_verify_count, gated_login_count,
            sponsored_verify_count>>
rights == <<remaining_verifies, consumed_verifies>>
wiring == <<wired, hook_issuer_set, verify_meter_hook>>
vars == <<now, pool, nullifiers, gates, meters, rights, wiring, fees>>

Now(v) == CurrentAt(v, now)
RateLimit(c, w, slot) == <<"rate_limit", c, w, slot>>
Authorization(g, session) == <<"authorization", g, session, 0>>
IsSettled(n) == \E e \in nullifiers : e.n = n

-----------------------------------------------------------------------------
(* Orchestrator and admin operations. *)

ScheduleSponsoredCredentialTypeMask(m) ==
    /\ sponsored_credential_type_mask' =
           Schedule(sponsored_credential_type_mask, m, now, PolicyDelay)
    /\ UNCHANGED <<now, pool, nullifiers, company_sponsor_gateways,
                   disabled_company_sponsor_gateways, consumer_gateways,
                   disabled_consumer_gateways, meters, rights, wiring, fees>>

AddCompanySponsorGateway(g) ==
    /\ g \notin company_sponsor_gateways
    /\ company_sponsor_gateways' = company_sponsor_gateways \cup {g}
    /\ UNCHANGED <<now, pool, nullifiers, disabled_company_sponsor_gateways,
                   consumer_gateways, disabled_consumer_gateways,
                   sponsored_credential_type_mask, meters, rights, wiring, fees>>

(* Mutant: the removal is written without its delay. *)
RemoveCompanyGatewayAtOnce(g) ==
    /\ g \in company_sponsor_gateways
    /\ disabled_company_sponsor_gateways' =
           [disabled_company_sponsor_gateways EXCEPT ![g] =
               Schedule(@, TRUE, now, 0)]
    /\ UNCHANGED <<now, pool, nullifiers, company_sponsor_gateways,
                   consumer_gateways, disabled_consumer_gateways,
                   sponsored_credential_type_mask, meters, rights, wiring, fees>>

RemoveCompanySponsorGateway(g) ==
    /\ g \in company_sponsor_gateways
    /\ disabled_company_sponsor_gateways' =
           [disabled_company_sponsor_gateways EXCEPT ![g] =
               Schedule(@, TRUE, now, PolicyDelay)]
    /\ UNCHANGED <<now, pool, nullifiers, company_sponsor_gateways,
                   consumer_gateways, disabled_consumer_gateways,
                   sponsored_credential_type_mask, meters, rights, wiring, fees>>

AddConsumerGateway(g) ==
    /\ consumer_gateways' =
           [consumer_gateways EXCEPT ![g] = Schedule(@, TRUE, now, PolicyDelay)]
    /\ UNCHANGED <<now, pool, nullifiers, company_sponsor_gateways,
                   disabled_company_sponsor_gateways, disabled_consumer_gateways,
                   sponsored_credential_type_mask, meters, rights, wiring, fees>>

RemoveConsumerGateway(g) ==
    /\ consumer_gateways' =
           [consumer_gateways EXCEPT ![g] = Schedule(@, FALSE, now, PolicyDelay)]
    /\ disabled_consumer_gateways' =
           [disabled_consumer_gateways EXCEPT ![g] =
               Schedule(@, TRUE, now, PolicyDelay)]
    /\ UNCHANGED <<now, pool, nullifiers, company_sponsor_gateways,
                   disabled_company_sponsor_gateways,
                   sponsored_credential_type_mask, meters, rights, wiring, fees>>

(* initialize_issuer and initialize_rights_registry, each once. *)
InitializeSponsor(g, part) ==
    /\ part \notin wired[g]
    /\ wired' = [wired EXCEPT ![g] = @ \cup {part}]
    /\ UNCHANGED <<now, pool, nullifiers, gates, meters, rights,
                   hook_issuer_set, verify_meter_hook, fees>>

SetIssuer(isIssuer) ==
    /\ verify_meter_hook
    /\ hook_issuer_set' = isIssuer
    /\ UNCHANGED <<now, pool, nullifiers, gates, meters, rights, wired,
                   verify_meter_hook, fees>>

(* A purchase credited one right to the sponsor (module MagnaRights). *)
CreditRight(g) ==
    /\ remaining_verifies[g] + consumed_verifies[g] < MaxRights
    /\ remaining_verifies' = [remaining_verifies EXCEPT ![g] = @ + 1]
    /\ UNCHANGED <<now, pool, nullifiers, gates, meters, consumed_verifies,
                   wiring, fees>>

-----------------------------------------------------------------------------
(* Private phase: what the issuer asserts at the anchor, which is now.      *)

Minimum(S) == CHOOSE x \in S : \A y \in S : x <= y
AnchorWindow == now \div Window

(* Mutant: the deadline ignores the end of the window. *)
DeadlineBeyondWindow(c, sponsored, horizons) ==
    Minimum({now + RevocationAnchor, CredentialExpiry[c]} \cup horizons)

Deadline(c, sponsored, horizons) ==
    Minimum({now + RevocationAnchor, CredentialExpiry[c]} \cup horizons
            \cup (IF sponsored THEN {(AnchorWindow + 1) * Window} ELSE {}))

SponsoredType(c) ==
    LET mask == Now(sponsored_credential_type_mask)
    IN  mask = {} \/ TypeOf[c] \in mask

MaskHorizon(sponsored) ==
    IF sponsored
    THEN {Horizon(sponsored_credential_type_mask, now, PolicyDelay)} ELSE {}

Submit(lane, g, c, slot, session, fee, sponsored, horizons) ==
    /\ lane \in Lane
    /\ Cardinality(pool) < MaxPending
    /\ sponsored => SponsoredType(c)
    /\ pool' = pool \cup {[
           lane |-> lane, gateway |-> g, credential |-> c, fee |-> fee,
           session |-> session, anchor |-> now,
           deadline |-> Deadline(c, sponsored, horizons \cup MaskHorizon(sponsored)),
           nullifiers |->
               (IF sponsored THEN {RateLimit(c, AnchorWindow, slot)} ELSE {})
               \cup {Authorization(g, s) : s \in {session} \ {NoSession}}]}
    /\ UNCHANGED <<now, nullifiers, gates, meters, rights, wiring, fees>>

(* verify, verify_v2, verify_instagram and the linked ones. *)
ProveVerify(c, slot) ==
    Submit("plain", NoGateway, c, slot, NoSession, 0, verify_meter_hook, {})

(* login_with_magna of a consumer gateway. *)
ProveLogin(g, c, slot) ==
    /\ Now(consumer_gateways[g]) /\ ~Now(disabled_consumer_gateways[g])
    /\ Submit("consumer", g, c, slot, NoSession, 0, verify_meter_hook,
              {Horizon(consumer_gateways[g], now, PolicyDelay),
               Horizon(disabled_consumer_gateways[g], now, PolicyDelay)})

(* sponsored_verify and, with a session, sponsored_verify_session. *)
ProveSponsored(g, c, slot, session, fee) ==
    /\ wired[g] = {"issuer", "rights_registry"}
    /\ fee <= MaxFeeCap
    /\ g \in company_sponsor_gateways
    /\ ~Now(disabled_company_sponsor_gateways[g])
    /\ Submit("sponsored", g, c, slot, session, fee, TRUE,
              {Horizon(disabled_company_sponsor_gateways[g], now, PolicyDelay)})

-----------------------------------------------------------------------------
(* Settlement. *)

Includable(tx) ==
    /\ tx.anchor < now /\ now <= tx.deadline
    /\ \A n \in tx.nullifiers : ~IsSettled(n)

IsSponsored(tx) == tx.lane = "sponsored"
PublicCallsSucceed(tx) ==
    /\ verify_meter_hook => hook_issuer_set
    /\ IsSponsored(tx) => remaining_verifies[tx.gateway] >= 1

ChargeFee(tx) ==
    fees' = [g \in Sponsor |->
                fees[g] + (IF IsSponsored(tx) /\ g = tx.gateway THEN tx.fee ELSE 0)]

(* All public calls succeed and every effect of the transaction settles.    *)
Include(tx) ==
    /\ Includable(tx)
    /\ PublicCallsSucceed(tx)
    /\ pool' = pool \ {tx}
    /\ nullifiers' = nullifiers \cup [n : tx.nullifiers, at : {now}]
    /\ verify_meter_count' = verify_meter_count + 1
    /\ metered_verify_count' = metered_verify_count + (IF verify_meter_hook THEN 1 ELSE 0)
    /\ gated_login_count' = gated_login_count + (IF tx.lane = "consumer" THEN 1 ELSE 0)
    /\ IF IsSponsored(tx)
       THEN /\ remaining_verifies' = [remaining_verifies EXCEPT ![tx.gateway] = @ - 1]
            /\ consumed_verifies' = [consumed_verifies EXCEPT ![tx.gateway] = @ + 1]
            /\ sponsored_verify_count' = [sponsored_verify_count EXCEPT ![tx.gateway] = @ + 1]
       ELSE UNCHANGED <<rights, sponsored_verify_count>>
    /\ ChargeFee(tx)
    /\ UNCHANGED <<now, gates, wiring>>

(* Mutant: the private effects belong to the setup phase. *)
RevertKeepsNullifiers(tx) ==
    /\ Includable(tx)
    /\ ~PublicCallsSucceed(tx)
    /\ pool' = pool \ {tx}
    /\ nullifiers' = nullifiers \cup [n : tx.nullifiers, at : {now}]
    /\ ChargeFee(tx)
    /\ UNCHANGED <<now, gates, meters, rights, wiring>>

(* A public call reverts: what followed end_setup is undone, the fee stays. *)
Revert(tx) ==
    /\ Includable(tx)
    /\ ~PublicCallsSucceed(tx)
    /\ pool' = pool \ {tx}
    /\ ChargeFee(tx)
    /\ UNCHANGED <<now, nullifiers, gates, meters, rights, wiring>>

(* Out of time, or a nullifier of it settled first. *)
Drop(tx) ==
    /\ now > tx.deadline \/ \E n \in tx.nullifiers : IsSettled(n)
    /\ pool' = pool \ {tx}
    /\ UNCHANGED <<now, nullifiers, gates, meters, rights, wiring, fees>>

Tick ==
    /\ now < MaxTime
    /\ now' = now + 1
    /\ UNCHANGED <<pool, nullifiers, gates, meters, rights, wiring, fees>>

-----------------------------------------------------------------------------
Init ==
    /\ now = 1 /\ pool = {} /\ nullifiers = {}
    /\ company_sponsor_gateways = {}
    /\ disabled_company_sponsor_gateways = [g \in Sponsor |-> Unscheduled(FALSE)]
    /\ consumer_gateways = [g \in Consumer |-> Unscheduled(FALSE)]
    /\ disabled_consumer_gateways = [g \in Consumer |-> Unscheduled(FALSE)]
    /\ sponsored_credential_type_mask = Unscheduled({})
    /\ verify_meter_count = 0 /\ metered_verify_count = 0
    /\ gated_login_count = 0 /\ hook_issuer_set = FALSE
    /\ verify_meter_hook \in BOOLEAN
    /\ wired = [g \in Sponsor |-> {}]
    /\ sponsored_verify_count = [g \in Sponsor |-> 0]
    /\ remaining_verifies = [g \in Sponsor |-> 0]
    /\ consumed_verifies = [g \in Sponsor |-> 0]
    /\ fees = [g \in Sponsor |-> 0]

Govern ==
    \/ \E m \in Mask : ScheduleSponsoredCredentialTypeMask(m)
    \/ \E g \in Sponsor : \/ AddCompanySponsorGateway(g)
                          \/ RemoveCompanySponsorGateway(g)
                          \/ \E part \in {"issuer", "rights_registry"} :
                                InitializeSponsor(g, part)
                          \/ CreditRight(g)
    \/ \E g \in Consumer : AddConsumerGateway(g) \/ RemoveConsumerGateway(g)
    \/ \E isIssuer \in BOOLEAN : SetIssuer(isIssuer)

Prove ==
    \E c \in Credential, slot \in Slot :
        \/ ProveVerify(c, slot)
        \/ \E g \in Consumer : ProveLogin(g, c, slot)
        \/ \E g \in Sponsor, session \in Session \cup {NoSession}, fee \in MaxFee :
              ProveSponsored(g, c, slot, session, fee)

Settle == \E tx \in pool : Include(tx) \/ Revert(tx) \/ Drop(tx)

Next == Tick \/ Govern \/ Prove \/ Settle

Spec == Init /\ [][Next]_vars
=============================================================================
