-------------------------- MODULE MagnaRightsSafety --------------------------
(* What buying and spending verify rights promises, in whatever order       *)
(* messages are claimed, rights are used and money is withdrawn.            *)
EXTENDS MagnaTopUp

(* What a function to amounts adds up to: it counts single units. *)
Units(f) == UNION {{x} \X (1 .. f[x]) : x \in DOMAIN f}
Total(f) == Cardinality(Units(f))

Rights(M) == Total([m \in M |-> m.amount])
Held(s) == remaining_verifies[s] + consumed_verifies[s]
HeldRights == Total([s \in Company |-> Held(s)])
Withdrawn == Total([t \in Treasury |-> paymentAsset[t]])
Unclaimed(s) == {m \in inbox : /\ m.sponsor = s /\ m.recipient = Registry
                               /\ m \notin consumed_messages}

(* The admin installed no adapter but the one of this repository. *)
NoOtherAdapter == l2_purchase_adapter \in {Zero, PurchaseL2}

-----------------------------------------------------------------------------
(* No right exists that nobody paid for, on either rail: the portal and its *)
(* treasuries hold the price of every message sent, and the L2 treasury the *)
(* price of every right in the registry that did not come over the bridge.  *)
EveryRightWasPaidFor ==
    /\ paymentAsset[Portal] + Withdrawn = PricePerVerifyL1 * Rights(inbox)
    /\ NoOtherAdapter =>
          payment_token[L2Treasury] = PricePerVerifyL2 *
              (HeldRights - Rights(consumed_messages))

(* A balance misses no top-up that its node knows of: whatever other pages   *)
(* buy, claim and use between the blocks of its two fields, the remaining   *)
(* and used rights add up to no less than the top-ups this page had reported *)
(* done when its node reached the first block (readSponsorRightsSnapshot and *)
(* the two top-ups of client.ts).  A later one may be missing: nothing waits *)
(* for the node.                                                            *)
TopUpsAreShown == \A t \in Page : shown[t] # None => shown[t].total >= shown[t].owed

(* Budgets follow the ledger: a right is bought, credited once to the       *)
(* company it was bought for, and used once, and whoever is credited        *)
(* without a message paid the L2 treasury in the same step, until the admin *)
(* installs another adapter.                                                *)
Ledger == INSTANCE MagnaRightsLedger WITH
    bought <- [s \in Company |-> Rights(Unclaimed(s))],
    available <- remaining_verifies,
    used <- consumed_verifies,
    paid <- payment_token[L2Treasury],
    foreign <- ~NoOtherAdapter,
    Price <- PricePerVerifyL2
ImplementsLedger == Ledger!Spec
=============================================================================
