----------------------------- MODULE MagnaRights -----------------------------
(***************************************************************************)
(* Verify rights: the L1 portal that sells them against an ERC-20, the     *)
(* Inbox messages it sends, the L2 adapter that sells them against a token *)
(* and the registry that keeps each company's budget.  L1 transactions and *)
(* L2 public calls are atomic; an Inbox message can be consumed any time   *)
(* after it was sent, in any order, or never.                              *)
(***************************************************************************)
EXTENDS Integers, FiniteSets

CONSTANTS
    Company,        \* sponsor contracts, the owners of rights
    Payer,          \* accounts that buy rights, on L1 or on L2
    L2Contract,     \* addresses the portal may be initialized with
    Registry,       \* the rights registry
    PurchaseL2,     \* the L2 purchase adapter
    Adapter,        \* addresses the registry's admin may install
    Treasury,       \* treasuries of the portal
    Amount,         \* rights amounts
    Package,        \* package ids
    PricePerVerifyL1, PricePerVerifyL2,
    Funds,          \* what each payer owns initially, on either layer
    MaxU128,        \* 2^128 - 1
    MaxPurchases,   \* bound on the purchases of a lane
    Zero            \* the zero address, nonce and package id

ASSUME RightsAssumption ==
    /\ Registry \in L2Contract /\ Zero \notin L2Contract \cup Adapter
    /\ Amount \subseteq Nat \ {0} /\ MaxU128 \in Nat
    /\ PricePerVerifyL1 \in Nat \ {0} /\ PricePerVerifyL2 \in Nat \ {0}
    /\ Funds \in Nat /\ MaxPurchases \in Nat
    /\ "portal" \notin Payer \cup Treasury /\ "treasury" \notin Payer
    /\ Payer \cap Treasury = {}     \* a treasury buys no rights itself

VARIABLES
    (* MagnaRightsPortal *)
    initialized, l2RightsRegistry, treasury, nextPurchaseId,
    paymentAsset,           \* ERC-20 balances: payers, portal, treasuries
    inbox,                  \* messages sent by the portal
    (* MagnaCompanyRightsRegistry *)
    l2_purchase_adapter, remaining_verifies, consumed_verifies,
    last_credit_nonce, package_id,
    consumed_messages,      \* messages whose nullifier is settled
    (* MagnaRightsPurchaseL2 *)
    next_purchase_id,
    payment_token,          \* public token balances: payers, treasury
    authwits                \* transfers a payer authorized for the adapter

portalConfig == <<initialized, l2RightsRegistry, treasury>>
portalVars == <<portalConfig, nextPurchaseId, paymentAsset, inbox>>
credits == <<remaining_verifies, last_credit_nonce, package_id>>
registryVars == <<l2_purchase_adapter, credits, consumed_verifies,
                  consumed_messages>>
purchaseVars == <<next_purchase_id, payment_token, authwits>>
vars == <<portalVars, registryVars, purchaseVars>>

Portal == "portal"
L2Treasury == "treasury"
L1Nonce(id) == <<"L1", id>>
L2Nonce(id) == <<"L2", id>>

-----------------------------------------------------------------------------
(* L1 portal. *)

Initialize(l2) ==
    /\ ~initialized
    /\ initialized' = TRUE
    /\ l2RightsRegistry' = l2
    /\ UNCHANGED <<treasury, nextPurchaseId, paymentAsset, inbox, registryVars,
                   purchaseVars>>

SetTreasury(t) ==
    /\ treasury' = t
    /\ UNCHANGED <<initialized, l2RightsRegistry, nextPurchaseId, paymentAsset,
                   inbox, registryVars, purchaseVars>>

Withdraw(n) ==
    /\ n > 0 /\ n <= paymentAsset[Portal]
    /\ paymentAsset' = [paymentAsset EXCEPT ![Portal] = @ - n, ![treasury] = @ + n]
    /\ UNCHANGED <<portalConfig, nextPurchaseId, inbox, registryVars, purchaseVars>>

PurchaseRights(p, s, n, k) ==
    /\ initialized
    /\ nextPurchaseId < MaxPurchases
    /\ LET payment == n * PricePerVerifyL1
       IN  /\ payment <= paymentAsset[p]
           /\ paymentAsset' = [paymentAsset EXCEPT ![p] = @ - payment,
                                                   ![Portal] = @ + payment]
    /\ nextPurchaseId' = nextPurchaseId + 1
    /\ inbox' = inbox \cup {[recipient |-> l2RightsRegistry, sponsor |-> s,
                             amount |-> n, package |-> k,
                             nonce |-> L1Nonce(nextPurchaseId + 1)]}
    /\ UNCHANGED <<portalConfig, registryVars, purchaseVars>>

-----------------------------------------------------------------------------
(* Registry. *)

(* The common tail of claim_l1_credit and credit_from_l2_payment; u128      *)
(* addition reverts on overflow.                                            *)
CreditRights(s, n, k, nonce) ==
    /\ remaining_verifies[s] + n <= MaxU128
    /\ remaining_verifies' = [remaining_verifies EXCEPT ![s] = @ + n]
    /\ last_credit_nonce' = [last_credit_nonce EXCEPT ![s] = nonce]
    /\ package_id' = [package_id EXCEPT ![s] = k]

(* Mutant: the message is checked but not consumed. *)
ClaimWithoutConsuming(m) ==
    /\ m.recipient = Registry
    /\ CreditRights(m.sponsor, m.amount, m.package, m.nonce)
    /\ UNCHANGED <<portalVars, l2_purchase_adapter, consumed_verifies,
                   consumed_messages, purchaseVars>>

ClaimL1Credit(m) ==
    /\ m.recipient = Registry
    /\ m \notin consumed_messages
    /\ consumed_messages' = consumed_messages \cup {m}
    /\ CreditRights(m.sponsor, m.amount, m.package, m.nonce)
    /\ UNCHANGED <<portalVars, l2_purchase_adapter, consumed_verifies,
                   purchaseVars>>

(* Mutant: the balance is checked after the verification, not before. *)
ConsumeOnCredit(s, n) ==
    /\ remaining_verifies[s] > 0
    /\ remaining_verifies' = [remaining_verifies EXCEPT ![s] = @ - n]
    /\ consumed_verifies' = [consumed_verifies EXCEPT ![s] = @ + n]
    /\ UNCHANGED <<portalVars, l2_purchase_adapter, last_credit_nonce,
                   package_id, consumed_messages, purchaseVars>>

ConsumeRight(s, n) ==
    /\ remaining_verifies[s] >= n
    /\ remaining_verifies' = [remaining_verifies EXCEPT ![s] = @ - n]
    /\ consumed_verifies[s] + n <= MaxU128
    /\ consumed_verifies' = [consumed_verifies EXCEPT ![s] = @ + n]
    /\ UNCHANGED <<portalVars, l2_purchase_adapter, last_credit_nonce,
                   package_id, consumed_messages, purchaseVars>>

InitializeL2PurchaseAdapter(a) ==
    /\ l2_purchase_adapter = Zero
    /\ l2_purchase_adapter' = a
    /\ UNCHANGED <<portalVars, credits, consumed_verifies, consumed_messages,
                   purchaseVars>>

CreditFromL2Payment(sender, s, n, k, nonce) ==
    /\ l2_purchase_adapter # Zero
    /\ sender = l2_purchase_adapter
    /\ CreditRights(s, n, k, nonce)
    /\ UNCHANGED <<l2_purchase_adapter, consumed_verifies, consumed_messages>>

-----------------------------------------------------------------------------
(* L2 purchase adapter.  The token takes the payment only against an        *)
(* authwit for exactly this transfer, which it uses up; a failing call      *)
(* reverts the whole purchase.                                              *)

AuthorizePayment(p, amount) ==
    /\ [payer |-> p, amount |-> amount] \notin authwits
    /\ authwits' = authwits \cup {[payer |-> p, amount |-> amount]}
    /\ UNCHANGED <<portalVars, registryVars, next_purchase_id, payment_token>>

PurchaseRightsPublic(p, s, n, k) ==
    /\ next_purchase_id <= MaxPurchases
    /\ next_purchase_id' = next_purchase_id + 1
    /\ LET payment == n * PricePerVerifyL2
       IN  /\ payment <= MaxU128
           /\ payment <= payment_token[p]
           /\ [payer |-> p, amount |-> payment] \in authwits
           /\ authwits' = authwits \ {[payer |-> p, amount |-> payment]}
           /\ payment_token' = [payment_token EXCEPT ![p] = @ - payment,
                                                     ![L2Treasury] = @ + payment]
    /\ CreditFromL2Payment(PurchaseL2, s, n, k, L2Nonce(next_purchase_id))
    /\ UNCHANGED portalVars

(* credit_from_l2_payment called by an account that is not the adapter of   *)
(* this repository: it succeeds only if the admin installed that account.   *)
CreditByOtherAdapter(a, s, n, k) ==
    /\ a # PurchaseL2
    /\ CreditFromL2Payment(a, s, n, k, Zero)
    /\ UNCHANGED <<portalVars, purchaseVars>>

-----------------------------------------------------------------------------
Init ==
    /\ initialized = FALSE /\ l2RightsRegistry = Zero /\ treasury \in Treasury
    /\ nextPurchaseId = 0 /\ inbox = {}
    /\ paymentAsset = [x \in Payer \cup Treasury \cup {Portal} |->
                          IF x \in Payer THEN Funds ELSE 0]
    /\ l2_purchase_adapter = Zero /\ consumed_messages = {}
    /\ remaining_verifies = [s \in Company |-> 0]
    /\ consumed_verifies = [s \in Company |-> 0]
    /\ last_credit_nonce = [s \in Company |-> Zero]
    /\ package_id = [s \in Company |-> Zero]
    /\ next_purchase_id = 1 /\ authwits = {}
    /\ payment_token = [x \in Payer \cup {L2Treasury} |->
                           IF x \in Payer THEN Funds ELSE 0]

PortalNext ==
    \/ \E l2 \in L2Contract : Initialize(l2)
    \/ \E t \in Treasury : SetTreasury(t)
    \/ \E n \in Amount : Withdraw(n * PricePerVerifyL1)
    \/ \E p \in Payer, s \in Company, n \in Amount, k \in Package :
          PurchaseRights(p, s, n, k)

RegistryNext ==
    \/ \E m \in inbox : ClaimL1Credit(m)
    \/ \E s \in Company, n \in Amount : ConsumeRight(s, n)
    \/ \E a \in Adapter : InitializeL2PurchaseAdapter(a)

PurchaseNext ==
    \/ \E p \in Payer, n \in Amount : AuthorizePayment(p, n * PricePerVerifyL2)
    \/ \E p \in Payer, s \in Company, n \in Amount, k \in Package :
          PurchaseRightsPublic(p, s, n, k)
    \/ \E a \in Adapter, s \in Company, n \in Amount, k \in Package :
          CreditByOtherAdapter(a, s, n, k)

Next == PortalNext \/ RegistryNext \/ PurchaseNext

Spec == Init /\ [][Next]_vars
=============================================================================
