------------------------ MODULE MagnaSponsorshipProofs ------------------------
(* Theorems about sponsored verification for any sponsors, consumers,       *)
(* credentials, slots, windows, delays and bounds, however long proven      *)
(* transactions wait and whatever is governed meanwhile.                    *)
EXTENDS MagnaSponsorshipSafety, FunctionTheorems, FiniteSetTheorems, TLAPS

USE SponsorshipAssumption

-----------------------------------------------------------------------------
(* Arithmetic: the window of a time, and the least of a few times.          *)
LEMMA WindowBounds ==
    ASSUME NEW t \in Nat, NEW w \in Nat \ {0}
    PROVE  /\ t \div w \in Nat
           /\ (t \div w) * w <= t /\ t < ((t \div w) + 1) * w
  OBVIOUS

LEMMA WindowUnique ==
    ASSUME NEW t \in Nat, NEW w \in Nat \ {0}, NEW q \in Nat,
           q * w <= t, t < (q + 1) * w
    PROVE  t \div w = q
  OBVIOUS

HasLeast(S) == S \subseteq Int /\ \E x \in S : \A y \in S : x <= y

LEMMA LeastOfUnion ==
    ASSUME NEW S, NEW T, HasLeast(S), HasLeast(T) \/ T = {}
    PROVE  HasLeast(S \cup T)
  <1>1. CASE T = {}
    BY <1>1 DEF HasLeast
  <1>2. CASE HasLeast(T)
    <2>1. PICK x \in S : S \subseteq Int /\ \A y \in S : x <= y
      BY DEF HasLeast
    <2>2. PICK z \in T : T \subseteq Int /\ \A y \in T : z <= y
      BY <1>2 DEF HasLeast
    <2>3. CASE x <= z
      BY <2>1, <2>2, <2>3 DEF HasLeast
    <2>4. CASE z <= x
      BY <2>1, <2>2, <2>4 DEF HasLeast
    <2> QED
      BY <2>1, <2>2, <2>3, <2>4
  <1> QED
    BY <1>1, <1>2

LEMMA MinimumIsLeast ==
    ASSUME NEW S, HasLeast(S)
    PROVE  Minimum(S) \in S /\ \A y \in S : Minimum(S) <= y
  BY DEF HasLeast, Minimum

-----------------------------------------------------------------------------
(* A delayed value keeps what was read of it until the horizon, since no    *)
(* change can be scheduled sooner than the delay.                           *)
Delayed(T) == [pre : T, post : T, at : Nat]
Sure(v, value, from, until) == \A t \in from .. until : CurrentAt(v, t) = value

LEMMA SureUntilHorizon ==
    ASSUME NEW T, NEW v \in Delayed(T), NEW a \in Nat, NEW d \in Nat \ {0}
    PROVE  /\ Horizon(v, a, d) \in Int /\ Horizon(v, a, d) < a + d
           /\ Sure(v, CurrentAt(v, a), a, Horizon(v, a, d))
  BY DEF Delayed, Sure, Horizon, CurrentAt

LEMMA SureWhenScheduled ==
    ASSUME NEW T, NEW v \in Delayed(T), NEW t \in Nat, NEW d \in Nat \ {0},
           NEW new \in T, NEW value, NEW until \in Int, until < t + d,
           Sure(v, value, t, until)
    PROVE  /\ Schedule(v, new, t, d) \in Delayed(T)
           /\ Sure(Schedule(v, new, t, d), value, t, until)
  BY DEF Delayed, Sure, Schedule, CurrentAt

-----------------------------------------------------------------------------
(* The gates are delayed values; a transaction that waits was proven with   *)
(* reads that stay true until its deadline.                                 *)
Gates ==
    /\ now \in Nat /\ verify_meter_hook \in BOOLEAN
    /\ disabled_company_sponsor_gateways \in [Sponsor -> Delayed(BOOLEAN)]
    /\ consumer_gateways \in [Consumer -> Delayed(BOOLEAN)]
    /\ disabled_consumer_gateways \in [Consumer -> Delayed(BOOLEAN)]
    /\ sponsored_credential_type_mask \in Delayed(SUBSET CredentialType)

Gated(tx) == IsSponsored(tx) \/ verify_meter_hook
TxShape(tx) ==
    /\ tx.credential \in Credential
    /\ tx.anchor \in Nat /\ tx.anchor <= now /\ tx.deadline \in Int
    /\ IsSponsored(tx) => tx.gateway \in Sponsor
    /\ tx.lane = "consumer" => tx.gateway \in Consumer

Until(v, value, tx) ==
    tx.deadline < tx.anchor + PolicyDelay /\ Sure(v, value, now, tx.deadline)
SponsorSure(tx) == IsSponsored(tx) =>
    Until(disabled_company_sponsor_gateways[tx.gateway], FALSE, tx)
ConsumerSure(tx) == tx.lane = "consumer" =>
    /\ Until(consumer_gateways[tx.gateway], TRUE, tx)
    /\ Until(disabled_consumer_gateways[tx.gateway], FALSE, tx)
TypeSure(tx) == Gated(tx) =>
    \E mask \in SUBSET CredentialType :
        /\ mask = {} \/ TypeOf[tx.credential] \in mask
        /\ Until(sponsored_credential_type_mask, mask, tx)
ReadsSure(tx) ==
    /\ tx.deadline <= CredentialExpiry[tx.credential]
    /\ SponsorSure(tx) /\ ConsumerSure(tx) /\ TypeSure(tx)

(* What a transaction nullifies, and the end of its window.                 *)
Limit(tx, slot) == RateLimit(tx.credential, tx.anchor \div Window, slot)
TxNullifiers(tx) ==
    /\ \E slot \in Slot, s \in Session \cup {NoSession} :
          tx.nullifiers = (IF Gated(tx) THEN {Limit(tx, slot)} ELSE {})
              \cup (IF IsSponsored(tx) /\ s # NoSession
                    THEN {Authorization(tx.gateway, s)} ELSE {})
    /\ Gated(tx) => tx.deadline <= (tx.anchor \div Window + 1) * Window

PoolInv == Gates /\ \A tx \in pool : TxShape(tx) /\ ReadsSure(tx) /\ TxNullifiers(tx)

LEMMA DeadlineBounds ==
    ASSUME now \in Nat, NEW c \in Credential, NEW sponsored \in BOOLEAN,
           NEW horizons, HasLeast(horizons) \/ horizons = {}
    PROVE  LET d == Deadline(c, sponsored, horizons)
           IN  /\ d \in Int /\ d <= CredentialExpiry[c] /\ \A h \in horizons : d <= h
               /\ sponsored => d <= (now \div Window + 1) * Window
  <1> DEFINE ends == {now + RevocationAnchor, CredentialExpiry[c]}
             window == (now \div Window + 1) * Window
             all == ends \cup horizons \cup (IF sponsored THEN {window} ELSE {})
  <1>1. HasLeast(ends)
    BY DEF HasLeast
  <1>2. window \in Int
    <2>1. now \div Window \in Nat
      BY WindowBounds
    <2> QED
      BY <2>1
  <1>3. HasLeast({window})
    BY <1>2 DEF HasLeast
  <1>4. HasLeast(ends \cup horizons)
    BY <1>1, LeastOfUnion
  <1>5. HasLeast(all)
    BY <1>3, <1>4, LeastOfUnion
  <1>6. Deadline(c, sponsored, horizons) = Minimum(all)
    BY DEF Deadline, AnchorWindow
  <1>7. Minimum(all) \in all /\ (\A y \in all : Minimum(all) <= y) /\ all \subseteq Int
    BY <1>5, MinimumIsLeast DEF HasLeast
  <1> QED
    BY <1>6, <1>7

(* Scheduling a change keeps what a waiting transaction may rely on.        *)
LEMMA KeptWhenScheduled ==
    ASSUME PoolInv, NEW tx \in pool, NEW T, NEW v \in Delayed(T), NEW new \in T, NEW value,
           Until(v, value, tx)
    PROVE  Until(Schedule(v, new, now, PolicyDelay), value, tx)
  <1>1. now \in Nat /\ tx.deadline \in Int /\ tx.deadline < now + PolicyDelay
    BY DEF PoolInv, Gates, TxShape, Until
  <1> QED
    BY <1>1, SureWhenScheduled DEF Until

LEMMA GovernKeepsPool ==
    ASSUME PoolInv, Govern
    PROVE  PoolInv'
  <1> USE DEF PoolInv, Gates, ReadsSure, gates
  <1>1. CASE UNCHANGED <<now, pool, disabled_company_sponsor_gateways, consumer_gateways,
                         disabled_consumer_gateways, sponsored_credential_type_mask,
                         verify_meter_hook>>
    <2>1. ASSUME NEW tx \in pool
          PROVE  TxShape(tx)' /\ ReadsSure(tx)' /\ TxNullifiers(tx)'
      <3>1. TxShape(tx)' /\ TxNullifiers(tx)'
        BY <1>1 DEF TxShape, TxNullifiers, Gated
      <3>2. SponsorSure(tx)' /\ ConsumerSure(tx)'
        BY <1>1 DEF SponsorSure, ConsumerSure, Until
      <3>3. TypeSure(tx)'
        BY <1>1 DEF TypeSure, Gated, Until
      <3> QED
        BY <3>1, <3>2, <3>3
    <2> QED
      BY <1>1, <2>1
  <1>2. ASSUME UNCHANGED <<now, pool, verify_meter_hook>>
        PROVE  \A tx \in pool : TxShape(tx)' /\ TxNullifiers(tx)'
    BY <1>2 DEF TxShape, TxNullifiers, Gated
  <1>3. ASSUME NEW m \in Mask, ScheduleSponsoredCredentialTypeMask(m)
        PROVE  PoolInv'
    <2>1. /\ sponsored_credential_type_mask'
                = Schedule(sponsored_credential_type_mask, m, now, PolicyDelay)
          /\ UNCHANGED <<now, pool, verify_meter_hook, disabled_company_sponsor_gateways,
                         consumer_gateways, disabled_consumer_gateways>>
      BY <1>3 DEF ScheduleSponsoredCredentialTypeMask, wiring
    <2>2. sponsored_credential_type_mask' \in Delayed(SUBSET CredentialType)
      BY <2>1 DEF Schedule, Delayed, CurrentAt
    <2>3. ASSUME NEW tx \in pool
          PROVE  ReadsSure(tx)'
      <3>1. TypeSure(tx)'
        <4>1. ASSUME NEW mask \in SUBSET CredentialType,
                     Until(sponsored_credential_type_mask, mask, tx)
              PROVE  Until(sponsored_credential_type_mask', mask, tx)
          BY <2>1, <4>1, KeptWhenScheduled
        <4> QED
          BY <2>1, <4>1 DEF TypeSure, Gated, Until
      <3>2. SponsorSure(tx)' /\ ConsumerSure(tx)'
        BY <2>1 DEF SponsorSure, ConsumerSure, Until
      <3> QED
        BY <2>1, <3>1, <3>2
    <2> QED
      BY <1>2, <2>1, <2>2, <2>3
  <1>4. ASSUME NEW g \in Sponsor, RemoveCompanySponsorGateway(g)
        PROVE  PoolInv'
    <2> DEFINE v == disabled_company_sponsor_gateways[g]
    <2>1. /\ disabled_company_sponsor_gateways' = [disabled_company_sponsor_gateways
                 EXCEPT ![g] = Schedule(v, TRUE, now, PolicyDelay)]
          /\ UNCHANGED <<now, pool, verify_meter_hook, sponsored_credential_type_mask,
                         consumer_gateways, disabled_consumer_gateways>>
      BY <1>4 DEF RemoveCompanySponsorGateway, wiring
    <2>2. v \in Delayed(BOOLEAN) /\ Schedule(v, TRUE, now, PolicyDelay) \in Delayed(BOOLEAN)
      BY DEF Schedule, Delayed, CurrentAt
    <2>3. ASSUME NEW tx \in pool
          PROVE  ReadsSure(tx)'
      <3>1. SponsorSure(tx)'
        <4>1. Until(v, FALSE, tx) => Until(Schedule(v, TRUE, now, PolicyDelay), FALSE, tx)
          BY <2>2, KeptWhenScheduled
        <4> HIDE DEF v
        <4> QED
          BY <2>1, <4>1 DEF SponsorSure, Until, TxShape, v
      <3>2. TypeSure(tx)' /\ ConsumerSure(tx)'
        BY <2>1 DEF TypeSure, Gated, ConsumerSure, Until
      <3> QED
        BY <2>1, <3>1, <3>2
    <2> HIDE DEF v
    <2>4. disabled_company_sponsor_gateways' \in [Sponsor -> Delayed(BOOLEAN)]
      BY <2>1, <2>2
    <2> QED
      BY <1>2, <2>1, <2>3, <2>4
  <1>5. ASSUME NEW g \in Consumer, AddConsumerGateway(g) \/ RemoveConsumerGateway(g)
        PROVE  PoolInv'
    <2> DEFINE v == consumer_gateways[g]
               w == disabled_consumer_gateways[g]
    <2>1. UNCHANGED <<now, pool, verify_meter_hook, sponsored_credential_type_mask,
                      disabled_company_sponsor_gateways>>
      BY <1>5 DEF AddConsumerGateway, RemoveConsumerGateway, wiring
    <2>2. PICK add \in BOOLEAN :
             /\ consumer_gateways' = [consumer_gateways EXCEPT
                   ![g] = Schedule(v, add, now, PolicyDelay)]
             /\ disabled_consumer_gateways' = IF add THEN disabled_consumer_gateways
                   ELSE [disabled_consumer_gateways EXCEPT
                            ![g] = Schedule(w, TRUE, now, PolicyDelay)]
      BY <1>5 DEF AddConsumerGateway, RemoveConsumerGateway
    <2>3. /\ v \in Delayed(BOOLEAN) /\ w \in Delayed(BOOLEAN)
          /\ Schedule(v, add, now, PolicyDelay) \in Delayed(BOOLEAN)
          /\ Schedule(w, TRUE, now, PolicyDelay) \in Delayed(BOOLEAN)
      BY DEF Schedule, Delayed, CurrentAt
    <2>4. ASSUME NEW tx \in pool
          PROVE  ReadsSure(tx)'
      <3>1. /\ Until(v, TRUE, tx) => Until(Schedule(v, add, now, PolicyDelay), TRUE, tx)
            /\ Until(w, FALSE, tx) => Until(Schedule(w, TRUE, now, PolicyDelay), FALSE, tx)
        BY <2>3, KeptWhenScheduled
      <3>2. ConsumerSure(tx)'
        <4> HIDE DEF v, w
        <4> QED
          BY <2>1, <2>2, <3>1 DEF ConsumerSure, Until, TxShape, v, w
      <3>3. TypeSure(tx)' /\ SponsorSure(tx)'
        BY <2>1 DEF TypeSure, Gated, SponsorSure, Until
      <3> QED
        BY <2>1, <3>2, <3>3
    <2> HIDE DEF v, w
    <2>5. /\ consumer_gateways' \in [Consumer -> Delayed(BOOLEAN)]
          /\ disabled_consumer_gateways' \in [Consumer -> Delayed(BOOLEAN)]
      BY <2>2, <2>3
    <2> QED
      BY <1>2, <2>1, <2>4, <2>5
  <1> QED
    BY <1>1, <1>3, <1>4, <1>5 DEF Govern, AddCompanySponsorGateway, InitializeSponsor,
       CreditRight, SetIssuer, wiring

(* A new transaction reads each gate up to a horizon its deadline respects. *)
LEMMA ReadUntilDeadline ==
    ASSUME NEW T, NEW v \in Delayed(T), NEW value, now \in Nat, value = Now(v),
           NEW tx, tx.anchor = now, tx.deadline \in Int,
           tx.deadline <= Horizon(v, now, PolicyDelay)
    PROVE  Until(v, value, tx)
  <1>1. /\ Horizon(v, now, PolicyDelay) \in Int
        /\ Horizon(v, now, PolicyDelay) < now + PolicyDelay
        /\ Sure(v, CurrentAt(v, now), now, Horizon(v, now, PolicyDelay))
    BY SureUntilHorizon
  <1>2. \A t \in now .. tx.deadline : t \in now .. Horizon(v, now, PolicyDelay)
    BY <1>1
  <1> QED
    BY <1>1, <1>2 DEF Until, Sure, Now

LEMMA SubmitKeepsPool ==
    ASSUME PoolInv, NEW lane, NEW g, NEW c \in Credential, NEW slot \in Slot,
           NEW session \in Session \cup {NoSession}, NEW fee, NEW sponsored \in BOOLEAN,
           NEW horizons, HasLeast(horizons) \/ horizons = {},
           sponsored = (lane = "sponsored" \/ verify_meter_hook),
           session # NoSession => lane = "sponsored",
           lane = "sponsored" =>
              /\ g \in Sponsor /\ ~Now(disabled_company_sponsor_gateways[g])
              /\ Horizon(disabled_company_sponsor_gateways[g], now, PolicyDelay) \in horizons,
           lane = "consumer" =>
              /\ g \in Consumer /\ Now(consumer_gateways[g])
              /\ ~Now(disabled_consumer_gateways[g])
              /\ Horizon(consumer_gateways[g], now, PolicyDelay) \in horizons
              /\ Horizon(disabled_consumer_gateways[g], now, PolicyDelay) \in horizons,
           Submit(lane, g, c, slot, session, fee, sponsored, horizons)
    PROVE  PoolInv'
  <1> DEFINE ends == horizons \cup MaskHorizon(sponsored)
             d == Deadline(c, sponsored, ends)
             limits == IF sponsored THEN {RateLimit(c, AnchorWindow, slot)} ELSE {}
             grants == {Authorization(g, s) : s \in {session} \ {NoSession}}
             tx == [lane |-> lane, gateway |-> g, credential |-> c, fee |-> fee,
                    session |-> session, anchor |-> now, deadline |-> d,
                    nullifiers |-> limits \cup grants]
  <1>1. pool' = pool \cup {tx} /\ UNCHANGED <<now, gates, verify_meter_hook>>
    BY DEF Submit, wiring
  <1>2. Gates
    BY DEF PoolInv
  <1>3. HasLeast(ends) \/ ends = {}
    <2>1. sponsored => HasLeast(MaskHorizon(sponsored))
      BY <1>2, SureUntilHorizon DEF MaskHorizon, HasLeast, Gates
    <2>2. ~sponsored => MaskHorizon(sponsored) = {}
      BY DEF MaskHorizon
    <2>3. CASE horizons = {}
      BY <2>1, <2>2, <2>3
    <2>4. CASE HasLeast(horizons)
      BY <2>1, <2>2, <2>4, LeastOfUnion
    <2> QED
      BY <2>3, <2>4
  <1>4. /\ d \in Int /\ d <= CredentialExpiry[c] /\ \A h \in ends : d <= h
        /\ sponsored => d <= (now \div Window + 1) * Window
    BY <1>2, <1>3, DeadlineBounds DEF Gates
  <1>5. /\ tx.lane = lane /\ tx.gateway = g /\ tx.credential = c /\ tx.anchor = now
        /\ tx.deadline = d /\ tx.nullifiers = limits \cup grants
    OBVIOUS
  <1>6. Gated(tx) = sponsored /\ IsSponsored(tx) = (lane = "sponsored")
    BY <1>5 DEF Gated, IsSponsored
  <1> HIDE DEF tx
  <1>7. TxShape(tx)
    <2>1. tx.anchor \in Nat /\ tx.anchor <= now /\ tx.deadline \in Int
      BY <1>2, <1>4, <1>5 DEF Gates
    <2>2. /\ tx.lane = "sponsored" => tx.gateway \in Sponsor
          /\ tx.lane = "consumer" => tx.gateway \in Consumer
      BY <1>5
    <2> HIDE DEF d
    <2> QED
      BY <1>5, <2>1, <2>2 DEF TxShape, IsSponsored
  <1>8. SponsorSure(tx)
    <2> SUFFICES ASSUME lane = "sponsored"
                 PROVE  Until(disabled_company_sponsor_gateways[g], FALSE, tx)
      BY <1>5, <1>6 DEF SponsorSure
    <2>1. FALSE = Now(disabled_company_sponsor_gateways[g])
      BY <1>2 DEF Gates, Now, CurrentAt, Delayed
    <2>2. disabled_company_sponsor_gateways[g] \in Delayed(BOOLEAN)
      BY <1>2 DEF Gates
    <2> QED
      BY <1>2, <1>4, <1>5, <2>1, <2>2, ReadUntilDeadline DEF Gates
  <1>9. ConsumerSure(tx)
    <2> SUFFICES ASSUME lane = "consumer"
                 PROVE  /\ Until(consumer_gateways[g], TRUE, tx)
                        /\ Until(disabled_consumer_gateways[g], FALSE, tx)
      BY <1>5 DEF ConsumerSure
    <2>1. /\ TRUE = Now(consumer_gateways[g])
          /\ FALSE = Now(disabled_consumer_gateways[g])
      BY <1>2 DEF Gates, Now, CurrentAt, Delayed
    <2>2. /\ consumer_gateways[g] \in Delayed(BOOLEAN)
          /\ disabled_consumer_gateways[g] \in Delayed(BOOLEAN)
      BY <1>2 DEF Gates
    <2>3. Until(consumer_gateways[g], TRUE, tx)
      BY <1>2, <1>4, <1>5, <2>1, <2>2, ReadUntilDeadline DEF Gates
    <2>4. Until(disabled_consumer_gateways[g], FALSE, tx)
      BY <1>2, <1>4, <1>5, <2>1, <2>2, ReadUntilDeadline DEF Gates
    <2> QED
      BY <2>3, <2>4
  <1>10. TypeSure(tx)
    <2> SUFFICES ASSUME sponsored PROVE TypeSure(tx)
      BY <1>6 DEF TypeSure
    <2> DEFINE v == sponsored_credential_type_mask
    <2>1. v \in Delayed(SUBSET CredentialType)
      BY <1>2 DEF Gates
    <2>2. Now(v) \in SUBSET CredentialType
      BY <2>1 DEF Now, CurrentAt, Delayed
    <2>3. Horizon(v, now, PolicyDelay) \in ends
      BY DEF MaskHorizon
    <2>4. Until(v, Now(v), tx)
      <3> HIDE DEF v
      <3> QED
        BY <1>2, <1>4, <1>5, <2>1, <2>3, ReadUntilDeadline DEF Gates
    <2>5. Now(v) = {} \/ TypeOf[c] \in Now(v)
      BY DEF Submit, SponsoredType
    <2> QED
      BY <1>5, <2>2, <2>4, <2>5 DEF TypeSure
  <1>11. TxNullifiers(tx)
    <2>1. limits = IF Gated(tx) THEN {Limit(tx, slot)} ELSE {}
      BY <1>5, <1>6 DEF Limit, AnchorWindow
    <2>2. grants = IF IsSponsored(tx) /\ session # NoSession
                   THEN {Authorization(tx.gateway, session)} ELSE {}
      <3>1. CASE session = NoSession
        BY <3>1
      <3>2. CASE session # NoSession
        <4>1. grants = {Authorization(g, session)}
          BY <3>2
        <4> QED
          BY <1>5, <1>6, <3>2, <4>1
      <3> QED
        BY <3>1, <3>2
    <2>3. Gated(tx) => tx.deadline <= (tx.anchor \div Window + 1) * Window
      BY <1>4, <1>5, <1>6
    <2> HIDE DEF limits, grants
    <2> QED
      BY <1>5, <2>1, <2>2, <2>3 DEF TxNullifiers
  <1>12. ReadsSure(tx)
    BY <1>4, <1>5, <1>8, <1>9, <1>10 DEF ReadsSure
  <1>13. ASSUME NEW t \in pool'
         PROVE  TxShape(t)' /\ ReadsSure(t)' /\ TxNullifiers(t)'
    <2>1. TxShape(t) /\ ReadsSure(t) /\ TxNullifiers(t)
      BY <1>1, <1>7, <1>11, <1>12 DEF PoolInv
    <2>2. TxShape(t)' /\ TxNullifiers(t)'
      BY <1>1, <2>1 DEF TxShape, TxNullifiers, Gated
    <2>3. SponsorSure(t)' /\ ConsumerSure(t)'
      BY <1>1, <2>1 DEF ReadsSure, SponsorSure, ConsumerSure, Until, gates
    <2>4. TypeSure(t)'
      BY <1>1, <2>1 DEF ReadsSure, TypeSure, Gated, Until, gates
    <2> QED
      BY <2>1, <2>2, <2>3, <2>4 DEF ReadsSure
  <1> QED
    BY <1>1, <1>2, <1>13 DEF PoolInv, Gates, gates

LEMMA ProveKeepsPool ==
    ASSUME PoolInv, Prove
    PROVE  PoolInv'
  <1>1. Gates
    BY DEF PoolInv
  <1>2. ASSUME NEW c \in Credential, NEW slot \in Slot, ProveVerify(c, slot)
        PROVE  PoolInv'
    BY <1>1, <1>2, SubmitKeepsPool DEF ProveVerify, Gates
  <1>3. ASSUME NEW c \in Credential, NEW slot \in Slot, NEW g \in Consumer,
               ProveLogin(g, c, slot)
        PROVE  PoolInv'
    <2> DEFINE h == Horizon(consumer_gateways[g], now, PolicyDelay)
               k == Horizon(disabled_consumer_gateways[g], now, PolicyDelay)
    <2>1. h \in Int /\ k \in Int
      BY <1>1, SureUntilHorizon DEF Gates
    <2>2. HasLeast({h, k})
      BY <2>1 DEF HasLeast
    <2>3. Submit("consumer", g, c, slot, NoSession, 0, verify_meter_hook, {h, k})
      BY <1>3 DEF ProveLogin
    <2>4. Now(consumer_gateways[g]) /\ ~Now(disabled_consumer_gateways[g])
      BY <1>3 DEF ProveLogin
    <2>5. h \in {h, k} /\ k \in {h, k}
      OBVIOUS
    <2> QED
      BY <1>1, <2>2, <2>3, <2>4, <2>5, SubmitKeepsPool DEF Gates
  <1>4. ASSUME NEW c \in Credential, NEW slot \in Slot, NEW g \in Sponsor,
               NEW session \in Session \cup {NoSession}, NEW fee \in MaxFee,
               ProveSponsored(g, c, slot, session, fee)
        PROVE  PoolInv'
    <2> DEFINE h == Horizon(disabled_company_sponsor_gateways[g], now, PolicyDelay)
    <2>1. h \in Int
      BY <1>1, SureUntilHorizon DEF Gates
    <2>2. HasLeast({h})
      BY <2>1 DEF HasLeast
    <2>3. /\ Submit("sponsored", g, c, slot, session, fee, TRUE, {h})
          /\ ~Now(disabled_company_sponsor_gateways[g])
      BY <1>4 DEF ProveSponsored
    <2>4. h \in {h}
      OBVIOUS
    <2> QED
      BY <1>1, <2>2, <2>3, <2>4, SubmitKeepsPool DEF Gates
  <1> QED
    BY <1>2, <1>3, <1>4 DEF Prove

LEMMA TimeKeepsPool ==
    ASSUME PoolInv, Tick \/ Settle
    PROVE  PoolInv'
  <1>1. /\ now' \in Nat /\ now <= now' /\ pool' \subseteq pool
        /\ UNCHANGED <<gates, verify_meter_hook>>
    BY DEF PoolInv, Gates, Tick, Settle, Include, Revert, Drop, wiring
  <1>2. ASSUME NEW tx \in pool'
        PROVE  TxShape(tx)' /\ ReadsSure(tx)' /\ TxNullifiers(tx)'
    <2>1. TxShape(tx) /\ ReadsSure(tx) /\ TxNullifiers(tx) /\ now \in Nat
      BY <1>1 DEF PoolInv, Gates
    <2>2. TxShape(tx)' /\ TxNullifiers(tx)'
      BY <1>1, <2>1 DEF TxShape, TxNullifiers, Gated
    <2>3. ASSUME NEW v, NEW value, Until(v, value, tx)
          PROVE  /\ tx.deadline < tx.anchor + PolicyDelay
                 /\ Sure(v, value, now', tx.deadline)
      BY <1>1, <2>1, <2>3 DEF Until, Sure, TxShape
    <2>4. SponsorSure(tx)' /\ ConsumerSure(tx)'
      BY <1>1, <2>1, <2>3 DEF ReadsSure, SponsorSure, ConsumerSure, Until, gates
    <2>5. TypeSure(tx)'
      BY <1>1, <2>1, <2>3 DEF ReadsSure, TypeSure, Gated, Until, gates
    <2> QED
      BY <2>1, <2>2, <2>4, <2>5 DEF ReadsSure
  <1> QED
    BY <1>1, <1>2 DEF PoolInv, Gates, gates

LEMMA PoolInductive == Spec => []PoolInv
  <1>1. Init => PoolInv
    BY DEF Init, PoolInv, Gates, Delayed, Unscheduled
  <1>2. PoolInv /\ [Next]_vars => PoolInv'
    <2> SUFFICES ASSUME PoolInv, [Next]_vars PROVE PoolInv'
      OBVIOUS
    <2>1. CASE UNCHANGED vars
      <3>1. UNCHANGED <<now, pool, gates, verify_meter_hook>>
        BY <2>1 DEF vars, wiring
      <3>2. ASSUME NEW tx \in pool
            PROVE  TxShape(tx)' /\ ReadsSure(tx)' /\ TxNullifiers(tx)'
        <4>1. TxShape(tx)' /\ TxNullifiers(tx)'
          BY <3>1 DEF PoolInv, TxShape, TxNullifiers, Gated
        <4>2. SponsorSure(tx)' /\ ConsumerSure(tx)'
          BY <3>1 DEF PoolInv, ReadsSure, SponsorSure, ConsumerSure, Until, gates
        <4>3. TypeSure(tx)'
          BY <3>1 DEF PoolInv, ReadsSure, TypeSure, Gated, Until, gates
        <4> QED
          BY <3>1, <4>1, <4>2, <4>3 DEF PoolInv, ReadsSure
      <3> QED
        BY <3>1, <3>2 DEF PoolInv, Gates, gates
    <2> QED
      BY <2>1, GovernKeepsPool, ProveKeepsPool, TimeKeepsPool DEF Next
  <1> QED
    BY <1>1, <1>2, PTL DEF Spec

(* Whatever the orchestrator schedules while a transaction waits, the block *)
(* that includes it finds what its private phase read of the gateways, the  *)
(* sponsored types and the expiry still true (issuer main.nr, the asserts   *)
(* of verify and login and the include-by timestamp they set).              *)
THEOREM PrivateReads == Spec => []PrivateReadsStayValid
  <1>1. PoolInv => PrivateReadsStayValid
    <2> SUFFICES ASSUME PoolInv, NEW tx \in pool, Includable(tx)
                 PROVE  /\ now <= CredentialExpiry[tx.credential]
                        /\ IsSponsored(tx) =>
                              ~Now(disabled_company_sponsor_gateways[tx.gateway])
                        /\ tx.lane = "consumer" =>
                              /\ Now(consumer_gateways[tx.gateway])
                              /\ ~Now(disabled_consumer_gateways[tx.gateway])
                        /\ IsSponsored(tx) \/ verify_meter_hook =>
                              SponsoredType(tx.credential)
      BY DEF PrivateReadsStayValid
    <2>1. TxShape(tx) /\ ReadsSure(tx) /\ now \in Nat
      BY DEF PoolInv, Gates
    <2>2. now \in now .. tx.deadline
      BY <2>1 DEF TxShape, Includable
    <2>3. now <= CredentialExpiry[tx.credential]
      BY <2>1 DEF TxShape, ReadsSure, Includable
    <2>4. \A v, value : Until(v, value, tx) => Now(v) = value
      BY <2>2 DEF Until, Sure, Now
    <2> QED
      BY <2>1, <2>3, <2>4 DEF ReadsSure, SponsorSure, ConsumerSure, TypeSure, Gated,
         SponsoredType
  <1> QED
    BY <1>1, PoolInductive, PTL

-----------------------------------------------------------------------------
(* What settles: at most one rate limit entry, in the window of its block,  *)
(* and one session authorization, neither of them there before.             *)
LimitEntry(tx, slot) ==
    IF Gated(tx) THEN {[n |-> Limit(tx, slot), at |-> now]} ELSE {}
GrantEntry(tx, s) ==
    IF IsSponsored(tx) /\ s # NoSession
    THEN {[n |-> Authorization(tx.gateway, s), at |-> now]} ELSE {}

IsLimitOf(e, c, w, slot) == e.n = RateLimit(c, w, slot) /\ WindowOf(e.at) = w
Entry(e) ==
    \/ \E c \in Credential, w \in Nat, slot \in Slot : IsLimitOf(e, c, w, slot)
    \/ \E g \in Sponsor, s \in Session \cup {NoSession} : e.n = Authorization(g, s)

Settled ==
    /\ IsFiniteSet(nullifiers)
    /\ \A e, f \in nullifiers : e.n = f.n => e = f
    /\ \A e \in nullifiers : Entry(e)

LEMMA SettledWindow ==
    ASSUME PoolInv, NEW tx \in pool, Includable(tx), Gated(tx)
    PROVE  tx.anchor \div Window \in Nat /\ WindowOf(now) = tx.anchor \div Window
  <1> DEFINE q == tx.anchor \div Window
  <1>1. /\ tx.anchor \in Nat /\ now \in Nat /\ tx.deadline \in Int
        /\ tx.anchor < now /\ now <= tx.deadline /\ tx.deadline <= (q + 1) * Window
    BY DEF PoolInv, Gates, TxShape, TxNullifiers, Includable
  <1>2. q \in Nat /\ q * Window <= tx.anchor
    BY <1>1, WindowBounds
  <1> HIDE DEF q
  <1>3. now - 1 \in Nat /\ q * Window <= now - 1 /\ now - 1 < (q + 1) * Window
    <2>1. q * Window \in Int /\ (q + 1) * Window \in Int
      BY <1>2
    <2> QED
      BY <1>1, <1>2, <2>1
  <1>4. (now - 1) \div Window = q
    BY <1>2, <1>3, WindowUnique
  <1> QED
    BY <1>2, <1>4 DEF WindowOf, q

LEMMA IncludeAdds ==
    ASSUME PoolInv, NEW tx \in pool, Include(tx)
    PROVE  \E slot \in Slot, s \in Session \cup {NoSession} :
              /\ nullifiers' = nullifiers \cup LimitEntry(tx, slot) \cup GrantEntry(tx, s)
              /\ \A e \in LimitEntry(tx, slot) \cup GrantEntry(tx, s) : ~IsSettled(e.n)
  <1>1. PICK slot \in Slot, s \in Session \cup {NoSession} :
           tx.nullifiers = (IF Gated(tx) THEN {Limit(tx, slot)} ELSE {})
              \cup (IF IsSponsored(tx) /\ s # NoSession
                    THEN {Authorization(tx.gateway, s)} ELSE {})
    BY DEF PoolInv, TxNullifiers
  <1>2. /\ nullifiers' = nullifiers \cup [n : tx.nullifiers, at : {now}]
        /\ \A n \in tx.nullifiers : ~IsSettled(n)
    BY DEF Include, Includable
  <1>3. [n : tx.nullifiers, at : {now}] = LimitEntry(tx, slot) \cup GrantEntry(tx, s)
    <2>1. \A S, x : x \in [n : S, at : {now}] <=> \E m \in S : x = [n |-> m, at |-> now]
      OBVIOUS
    <2>2. \A x : x \in [n : tx.nullifiers, at : {now}]
                  <=> x \in LimitEntry(tx, slot) \cup GrantEntry(tx, s)
      <3>1. CASE Gated(tx) /\ IsSponsored(tx) /\ s # NoSession
        BY <1>1, <2>1, <3>1 DEF LimitEntry, GrantEntry
      <3>2. CASE Gated(tx) /\ ~(IsSponsored(tx) /\ s # NoSession)
        BY <1>1, <2>1, <3>2 DEF LimitEntry, GrantEntry
      <3>3. CASE ~Gated(tx)
        BY <1>1, <2>1, <3>3 DEF LimitEntry, GrantEntry, Gated
      <3> QED
        BY <3>1, <3>2, <3>3
    <2> QED
      BY <2>2
  <1>4. \A e \in [n : tx.nullifiers, at : {now}] : ~IsSettled(e.n)
    BY <1>2
  <1> QED
    BY <1>2, <1>3, <1>4

LEMMA IncludeKeepsSettled ==
    ASSUME PoolInv, Settled, NEW tx \in pool, Include(tx)
    PROVE  Settled'
  <1>1. PICK slot \in Slot, s \in Session \cup {NoSession} :
              /\ nullifiers' = nullifiers \cup LimitEntry(tx, slot) \cup GrantEntry(tx, s)
              /\ \A e \in LimitEntry(tx, slot) \cup GrantEntry(tx, s) : ~IsSettled(e.n)
    BY IncludeAdds
  <1>2. tx.credential \in Credential /\ (IsSponsored(tx) => tx.gateway \in Sponsor)
    BY DEF PoolInv, TxShape
  <1>3. IsFiniteSet(nullifiers')
    <2>1. IsFiniteSet(LimitEntry(tx, slot)) /\ IsFiniteSet(GrantEntry(tx, s))
      BY FS_Singleton, FS_EmptySet DEF LimitEntry, GrantEntry
    <2> QED
      BY <1>1, <2>1, FS_Union DEF Settled
  <1>4. ASSUME NEW e \in nullifiers', NEW f \in nullifiers', e.n = f.n
        PROVE  e = f
    <2>1. \A x \in LimitEntry(tx, slot), y \in GrantEntry(tx, s) : x.n # y.n
      BY DEF LimitEntry, GrantEntry, Limit, RateLimit, Authorization
    <2>2. \A x, y \in LimitEntry(tx, slot) : x = y
      BY DEF LimitEntry
    <2>3. \A x, y \in GrantEntry(tx, s) : x = y
      BY DEF GrantEntry
    <2> QED
      BY <1>1, <1>4, <2>1, <2>2, <2>3 DEF Settled, IsSettled
  <1>5. ASSUME NEW e \in LimitEntry(tx, slot)
        PROVE  Entry(e)
    <2>1. Gated(tx) /\ e = [n |-> Limit(tx, slot), at |-> now]
      BY <1>5 DEF LimitEntry
    <2>2. tx.anchor \div Window \in Nat /\ WindowOf(now) = tx.anchor \div Window
      BY <2>1, SettledWindow DEF Include
    <2>3. IsLimitOf(e, tx.credential, tx.anchor \div Window, slot)
      BY <2>1, <2>2 DEF IsLimitOf, Limit
    <2> QED
      BY <1>2, <2>2, <2>3 DEF Entry
  <1>6. ASSUME NEW e \in GrantEntry(tx, s)
        PROVE  Entry(e)
    BY <1>2, <1>6 DEF GrantEntry, Entry
  <1>7. \A e \in nullifiers' : Entry(e)
    BY <1>1, <1>5, <1>6 DEF Settled
  <1> QED
    BY <1>3, <1>4, <1>7 DEF Settled

LEMMA SettledInductive == Spec => []Settled
  <1>1. Init => Settled
    BY FS_EmptySet DEF Init, Settled
  <1>2. PoolInv /\ Settled /\ [Next]_vars => Settled'
    <2> SUFFICES ASSUME PoolInv, Settled, [Next]_vars PROVE Settled'
      OBVIOUS
    <2>1. CASE UNCHANGED nullifiers
      BY <2>1 DEF Settled
    <2>2. ASSUME NEW tx \in pool, Include(tx)
          PROVE  Settled'
      BY <2>2, IncludeKeepsSettled
    <2>3. Govern => UNCHANGED nullifiers
      BY DEF Govern, ScheduleSponsoredCredentialTypeMask, AddCompanySponsorGateway,
         RemoveCompanySponsorGateway, AddConsumerGateway, RemoveConsumerGateway,
         InitializeSponsor, SetIssuer, CreditRight
    <2>4. Prove => UNCHANGED nullifiers
      <3>1. \A lane, g, c, slot, session, fee, sponsored, horizons :
               Submit(lane, g, c, slot, session, fee, sponsored, horizons)
                  => UNCHANGED nullifiers
        BY DEF Submit
      <3> QED
        BY <3>1 DEF Prove, ProveVerify, ProveLogin, ProveSponsored
    <2> QED
      BY <2>1, <2>2, <2>3, <2>4 DEF Next, Settle, Tick, Revert, Drop, vars
  <1> QED
    BY <1>1, <1>2, PoolInductive, PTL DEF Spec

(* No credential settles more sponsored calls in a window than the window   *)
(* has slots: the entries of a credential in a window differ in their slot  *)
(* (issuer main.nr, the rate limit nullifier and the include-by bound at    *)
(* the end of the window).                                                  *)
THEOREM WindowsAreRateLimited == Spec => []RateLimited
  <1>1. Settled => RateLimited
    <2> SUFFICES ASSUME Settled, NEW c \in Credential, NEW e \in RateLimits
                 PROVE  Cardinality({x \in RateLimits :
                                x.n[2] = c /\ WindowOf(x.at) = WindowOf(e.at)})
                            <= Cardinality(Slot)
      BY DEF RateLimited
    <2> DEFINE same == {x \in RateLimits :
                            x.n[2] = c /\ WindowOf(x.at) = WindowOf(e.at)}
               slotOf == [x \in same |-> x.n[4]]
    <2>1. ASSUME NEW x \in same
          PROVE  x.n[4] \in Slot /\ x.n = RateLimit(c, WindowOf(e.at), x.n[4])
      <3>1. x \in nullifiers /\ x.n[1] = "rate_limit" /\ x.n[2] = c
            /\ WindowOf(x.at) = WindowOf(e.at)
        BY DEF RateLimits, IsRateLimit
      <3>2. ~\E g \in Sponsor, s \in Session \cup {NoSession} : x.n = Authorization(g, s)
        BY <3>1 DEF Authorization
      <3>3. PICK d \in Credential, w \in Nat, slot \in Slot : IsLimitOf(x, d, w, slot)
        BY <3>1, <3>2 DEF Settled, Entry
      <3> QED
        BY <3>1, <3>3 DEF IsLimitOf, RateLimit
    <2>2. same \subseteq nullifiers
      BY DEF RateLimits
    <2>3. \A x, y \in same : x.n[4] = y.n[4] => x = y
      BY <2>1, <2>2 DEF Settled
    <2>4. slotOf \in Injection(same, Slot)
      <3> HIDE DEF same
      <3> QED
        <4>1. slotOf \in [same -> Slot]
          BY <2>1
        <4>2. \A x, y \in same : slotOf[x] = slotOf[y] => x = y
          BY <2>3
        <4> QED
          BY <4>1, <4>2, Fun_IsInj
    <2> HIDE DEF same
    <2>5. Cardinality(same) <= Cardinality(Slot)
      BY <2>4, FS_Injection
    <2> QED
      BY <2>5 DEF same
  <1> QED
    BY <1>1, SettledInductive, PTL

-----------------------------------------------------------------------------
(* The counters of the contracts and what settled move together.            *)
Metered ==
    /\ consumed_verifies \in [Sponsor -> Nat]
    /\ metered_verify_count \in Nat
    /\ IsFiniteSet(SpentRights)
    /\ MeteringIsAtomic

LEMMA MeteredWhenUnchanged ==
    ASSUME Metered,
           UNCHANGED <<nullifiers, verify_meter_hook, verify_meter_count, metered_verify_count,
                       sponsored_verify_count, consumed_verifies>>
    PROVE  Metered'
  BY DEF Metered, MeteringIsAtomic, RateLimits, Authorizations, SpentRights

LEMMA IncludeKeepsMetered ==
    ASSUME PoolInv, Settled, Metered, NEW tx \in pool, Include(tx)
    PROVE  Metered'
  <1> USE DEF RateLimits, Authorizations, SpentRights, IsRateLimit
  <1>1. PICK slot \in Slot, s \in Session \cup {NoSession} :
              /\ nullifiers' = nullifiers \cup LimitEntry(tx, slot) \cup GrantEntry(tx, s)
              /\ \A e \in LimitEntry(tx, slot) \cup GrantEntry(tx, s) : ~IsSettled(e.n)
    BY IncludeAdds
  <1>2. /\ verify_meter_count' = verify_meter_count + 1
        /\ metered_verify_count' = metered_verify_count + (IF verify_meter_hook THEN 1 ELSE 0)
        /\ UNCHANGED verify_meter_hook /\ verify_meter_hook \in BOOLEAN
        /\ IsSponsored(tx) =>
              /\ tx.gateway \in Sponsor
              /\ consumed_verifies' = [consumed_verifies EXCEPT ![tx.gateway] = @ + 1]
              /\ sponsored_verify_count' =
                    [sponsored_verify_count EXCEPT ![tx.gateway] = @ + 1]
        /\ ~IsSponsored(tx) => UNCHANGED <<consumed_verifies, sponsored_verify_count>>
    BY DEF Include, wiring, rights, PoolInv, Gates, TxShape
  <1>3. /\ consumed_verifies' \in [Sponsor -> Nat] /\ metered_verify_count' \in Nat
        /\ sponsored_verify_count' = consumed_verifies'
        /\ verify_meter_hook => verify_meter_count' = metered_verify_count'
    BY <1>2 DEF Metered, MeteringIsAtomic
  <1>4. /\ IsFiniteSet(SpentRights')
        /\ Cardinality(SpentRights') =
              Cardinality(SpentRights) + (IF IsSponsored(tx) THEN 1 ELSE 0)
    <2>1. CASE IsSponsored(tx)
      <3> DEFINE g == tx.gateway
                 u == <<g, consumed_verifies[g] + 1>>
      <3>1. SpentRights' = SpentRights \cup {u}
        <4>1. \A c \in [Sponsor -> Nat] : \A x :
                 x \in UNION {{h} \X (1 .. c[h]) : h \in Sponsor}
                    <=> \E h \in Sponsor, k \in Nat \ {0} : x = <<h, k>> /\ k <= c[h]
          OBVIOUS
        <4>2. \A h \in Sponsor : consumed_verifies'[h] =
                 IF h = g THEN consumed_verifies[g] + 1 ELSE consumed_verifies[h]
          BY <1>2, <2>1 DEF Metered
        <4>3. \A x : x \in SpentRights' <=>
                 \E h \in Sponsor, k \in Nat \ {0} : x = <<h, k>> /\ k <= consumed_verifies'[h]
          BY <1>3, <4>1
        <4>4. \A x : x \in SpentRights <=>
                 \E h \in Sponsor, k \in Nat \ {0} : x = <<h, k>> /\ k <= consumed_verifies[h]
          BY <4>1 DEF Metered
        <4>5. \A h \in Sponsor : consumed_verifies[h] \in Nat
          BY DEF Metered
        <4> HIDE DEF SpentRights
        <4>6. ASSUME NEW x \in SpentRights' PROVE x \in SpentRights \cup {u}
          <5>1. PICK h \in Sponsor, k \in Nat \ {0} :
                   x = <<h, k>> /\ k <= consumed_verifies'[h]
            BY <4>3, <4>6
          <5>2. CASE k <= consumed_verifies[h]
            BY <4>4, <5>1, <5>2
          <5>3. CASE ~(k <= consumed_verifies[h])
            <6>1. h = g /\ k = consumed_verifies[g] + 1
              BY <4>2, <4>5, <5>1, <5>3
            <6> QED
              BY <5>1, <6>1
          <5> QED
            BY <5>2, <5>3
        <4>7. ASSUME NEW x \in SpentRights PROVE x \in SpentRights'
          <5>1. PICK h \in Sponsor, k \in Nat \ {0} :
                   x = <<h, k>> /\ k <= consumed_verifies[h]
            BY <4>4, <4>7
          <5>2. k <= consumed_verifies'[h]
            BY <4>2, <4>5, <5>1
          <5> QED
            BY <4>3, <5>1, <5>2
        <4>8. u \in SpentRights'
          <5>1. g \in Sponsor /\ consumed_verifies[g] + 1 \in Nat \ {0}
                /\ consumed_verifies[g] + 1 <= consumed_verifies'[g]
            BY <1>2, <2>1, <4>2, <4>5
          <5> QED
            BY <4>3, <5>1
        <4> QED
          BY <4>6, <4>7, <4>8
      <3>2. u \notin SpentRights
        BY <1>2, <2>1 DEF Metered
      <3> HIDE DEF u, SpentRights
      <3>3. IsFiniteSet(SpentRights) /\ Cardinality(SpentRights) \in Nat
        BY FS_CardinalityType DEF Metered
      <3> QED
        BY <2>1, <3>1, <3>2, <3>3, FS_AddElement
    <2>2. CASE ~IsSponsored(tx)
      <3>1. SpentRights' = SpentRights
        BY <1>2, <2>2
      <3> HIDE DEF SpentRights
      <3>2. IsFiniteSet(SpentRights) /\ Cardinality(SpentRights) \in Nat
        BY FS_CardinalityType DEF Metered
      <3> QED
        BY <2>2, <3>1, <3>2
    <2> QED
      BY <2>1, <2>2
  <1>5. /\ Cardinality(RateLimits') = Cardinality(RateLimits) + (IF Gated(tx) THEN 1 ELSE 0)
        /\ Cardinality(RateLimits) \in Nat
    <2>1. IsFiniteSet(RateLimits)
      BY FS_Subset DEF Settled
    <2>2. RateLimits' = RateLimits \cup LimitEntry(tx, slot)
      BY <1>1 DEF LimitEntry, GrantEntry, Limit, RateLimit, Authorization
    <2>3. \A e \in LimitEntry(tx, slot) : e \notin RateLimits
      BY <1>1 DEF IsSettled
    <2> HIDE DEF RateLimits
    <2>4. Cardinality(RateLimits) \in Nat
      BY <2>1, FS_CardinalityType
    <2>5. CASE Gated(tx)
      <3> DEFINE e == [n |-> Limit(tx, slot), at |-> now]
      <3>1. LimitEntry(tx, slot) = {e}
        BY <2>5 DEF LimitEntry
      <3> HIDE DEF e
      <3> QED
        BY <2>1, <2>2, <2>3, <2>4, <2>5, <3>1, FS_AddElement
    <2>6. CASE ~Gated(tx)
      BY <2>2, <2>4, <2>6 DEF LimitEntry
    <2> QED
      BY <2>5, <2>6
  <1>6. ASSUME NEW g \in Sponsor
        PROVE  Cardinality(Authorizations(g)') <= consumed_verifies'[g]
    <2>1. IsFiniteSet(Authorizations(g))
      BY FS_Subset DEF Settled
    <2>2. Authorizations(g)' \subseteq Authorizations(g) \cup GrantEntry(tx, s)
      BY <1>1 DEF LimitEntry, Limit, RateLimit
    <2>3. ~(IsSponsored(tx) /\ tx.gateway = g) => Authorizations(g)' = Authorizations(g)
      BY <1>1 DEF LimitEntry, Limit, RateLimit, GrantEntry, Authorization
    <2>4. Cardinality(Authorizations(g)) <= consumed_verifies[g]
          /\ consumed_verifies[g] \in Nat
      BY DEF Metered, MeteringIsAtomic
    <2>5. consumed_verifies'[g] = consumed_verifies[g]
              + (IF IsSponsored(tx) /\ tx.gateway = g THEN 1 ELSE 0)
      BY <1>2, <2>4 DEF Metered
    <2> DEFINE A == Authorizations(g)
               B == Authorizations(g)'
    <2>6. CASE ~(IsSponsored(tx) /\ tx.gateway = g)
      <3>1. B = A /\ Cardinality(A) <= consumed_verifies[g]
        BY <2>3, <2>4, <2>6
      <3> HIDE DEF A, B
      <3>2. Cardinality(B) <= consumed_verifies'[g]
        BY <2>4, <2>5, <2>6, <3>1
      <3> QED
        BY <3>2 DEF B
    <2>7. CASE IsSponsored(tx) /\ tx.gateway = g
      <3> DEFINE e == [n |-> Authorization(tx.gateway, s), at |-> now]
      <3>1. B \subseteq A \cup {e}
        BY <2>2 DEF GrantEntry
      <3> HIDE DEF e, A, B
      <3>2. IsFiniteSet(A) /\ Cardinality(A) \in Nat
        BY <2>1, FS_CardinalityType DEF A
      <3>3. IsFiniteSet(A \cup {e}) /\ Cardinality(A \cup {e}) \in Nat
            /\ Cardinality(A \cup {e}) <= Cardinality(A) + 1
        <4>1. IsFiniteSet(A \cup {e})
              /\ Cardinality(A \cup {e}) = IF e \in A THEN Cardinality(A) ELSE Cardinality(A) + 1
          BY <3>2, FS_AddElement
        <4> QED
          BY <3>2, <4>1
      <3>4. Cardinality(B) <= Cardinality(A \cup {e}) /\ Cardinality(B) \in Nat
        BY <3>1, <3>3, FS_Subset, FS_CardinalityType
      <3>5. Cardinality(A) <= consumed_verifies[g]
        BY <2>4 DEF A
      <3>6. Cardinality(B) <= consumed_verifies[g] + 1
        BY <2>4, <3>2, <3>3, <3>4, <3>5
      <3>7. Cardinality(B) <= consumed_verifies'[g]
        BY <2>5, <2>7, <3>6
      <3> QED
        BY <3>7 DEF B
    <2> QED
      BY <2>6, <2>7
  <1>7. Gated(tx) <=> IsSponsored(tx) \/ verify_meter_hook
    BY DEF Gated
  <1>8. Cardinality(RateLimits') =
           IF verify_meter_hook THEN metered_verify_count' ELSE Cardinality(SpentRights')
    <2>1. /\ verify_meter_hook => Cardinality(RateLimits) = metered_verify_count
          /\ ~verify_meter_hook => Cardinality(RateLimits) = Cardinality(SpentRights)
      BY DEF Metered, MeteringIsAtomic
    <2> HIDE DEF RateLimits, SpentRights
    <2> QED
      BY <1>2, <1>4, <1>5, <1>7, <2>1
  <1> QED
    BY <1>2, <1>3, <1>4, <1>6, <1>8 DEF Metered, MeteringIsAtomic

(* A sponsored call takes its right, its rate limit slot, its meter and its *)
(* authorization in one block, whatever reverts (company sponsor main.nr,   *)
(* sponsored_verify after end_setup).                                       *)
THEOREM AtomicMetering == Spec => []MeteringIsAtomic
  <1>1. Init => Metered
    <2> SUFFICES ASSUME Init PROVE Metered
      OBVIOUS
    <2>1. /\ nullifiers = {} /\ verify_meter_count = 0 /\ metered_verify_count = 0
          /\ sponsored_verify_count = [g \in Sponsor |-> 0]
          /\ consumed_verifies = [g \in Sponsor |-> 0]
      BY DEF Init
    <2>2. SpentRights = {} /\ RateLimits = {} /\ \A g : Authorizations(g) = {}
      BY <2>1 DEF SpentRights, RateLimits, Authorizations
    <2> QED
      <3>1. consumed_verifies \in [Sponsor -> Nat] /\ \A g \in Sponsor : consumed_verifies[g] = 0
        BY <2>1
      <3>2. Cardinality({}) = 0 /\ IsFiniteSet({})
        BY FS_EmptySet
      <3>3. \A g \in Sponsor : Cardinality(Authorizations(g)) <= consumed_verifies[g]
        BY <2>2, <3>1, <3>2
      <3> QED
        BY <2>1, <2>2, <3>1, <3>2, <3>3 DEF Metered, MeteringIsAtomic
  <1>2. PoolInv /\ Settled /\ Metered /\ [Next]_vars => Metered'
    <2> SUFFICES ASSUME PoolInv, Settled, Metered, [Next]_vars PROVE Metered'
      OBVIOUS
    <2> DEFINE Kept == UNCHANGED <<nullifiers, verify_meter_hook, verify_meter_count,
                          metered_verify_count, sponsored_verify_count, consumed_verifies>>
    <2>1. CASE UNCHANGED vars
      BY <2>1, MeteredWhenUnchanged DEF vars, meters, rights, wiring
    <2>2. ASSUME NEW tx \in pool, Include(tx)
          PROVE  Metered'
      BY <2>2, IncludeKeepsMetered
    <2>3. Govern => Kept
      BY DEF Govern, ScheduleSponsoredCredentialTypeMask, AddCompanySponsorGateway,
         RemoveCompanySponsorGateway, AddConsumerGateway, RemoveConsumerGateway,
         InitializeSponsor, SetIssuer, CreditRight, meters, rights, wiring
    <2>4. Prove => Kept
      <3>1. \A lane, g, c, slot, session, fee, sponsored, horizons :
               Submit(lane, g, c, slot, session, fee, sponsored, horizons) => Kept
        BY DEF Submit, meters, rights, wiring
      <3> QED
        BY <3>1 DEF Prove, ProveVerify, ProveLogin, ProveSponsored
    <2>5. Tick => Kept
      BY DEF Tick, meters, rights, wiring
    <2>6. \A tx \in pool : Revert(tx) \/ Drop(tx) => Kept
      BY DEF Revert, Drop, meters, rights, wiring
    <2>7. Kept => Metered'
      BY MeteredWhenUnchanged
    <2> HIDE DEF Kept
    <2> QED
      BY <2>1, <2>2, <2>3, <2>4, <2>5, <2>6, <2>7 DEF Next, Settle
  <1>3. Metered => MeteringIsAtomic
    BY DEF Metered
  <1> QED
    BY <1>1, <1>2, <1>3, PoolInductive, SettledInductive, PTL DEF Spec
=============================================================================
