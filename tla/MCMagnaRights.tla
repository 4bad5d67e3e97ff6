--------------------------- MODULE MCMagnaRights ---------------------------
(* A behaviour is about the contracts, called in any way by anyone, or      *)
(* about the rights of one company: an operator's page tops up and reads    *)
(* the balance while another page buys on the same L1 account, authorizes   *)
(* the sponsor and verifies with it, until the operator has read it.        *)
EXTENDS MagnaRightsSafety, TLC

CONSTANTS c1, c2, payer, operators, others
CompanySymmetry == Permutations({c1, c2})
Wallets == (operators :> payer) @@ (others :> payer)

VARIABLE about
MCInit == Init /\ ClientInit /\ about \in {"contracts"} \cup Company

(* A second purchase on L1 only under the configuration that is meant: with *)
(* a foreign adapter or registry one purchase is enough to go wrong.        *)
Intended == l2RightsRegistry = Registry /\ l2_purchase_adapter \in {Zero, PurchaseL2}
Contracts ==
    /\ Next /\ UNCHANGED clientVars
    /\ \A w \in authwits' : w.amount <= MaxU128
    /\ nextPurchaseId' <= 1 \/ Intended'

SetUp == /\ Initialize(Registry) \/ InitializeL2PurchaseAdapter(PurchaseL2)
         /\ UNCHANGED clientVars
Open == l2RightsRegistry = Registry /\ l2_purchase_adapter = PurchaseL2
Chosen(t, j) == j # None =>
    /\ j.sponsor = about /\ j.amount <= 1
    /\ IF t = operators THEN j.what \in {"l1", "l2", "read"} ELSE j.what \in {"l1", "add", "verify"}
(* A reading goes through to the balance it shows while the other page buys, *)
(* verifies or stops for good; a node that moves on while nobody reads is   *)
(* not seen to.                                                             *)
Reading(t) == Running(t, "read", "ready") \/ Running(t, "read", "half")
ReadOn == /\ shown'[operators] # None \/ Reading(operators)'
          /\ job[others] = None => job'[others] = None
          /\ UNCHANGED gateways
(* The registration of a company touches nothing another page reads before  *)
(* it is registered: it goes first.  A gateway is taken away between two    *)
(* actions of the pages, never under one.                                   *)
Registering == {t \in Page : job[t] # None /\ job[t].at = "register"}
InTurn == /\ Registering # {} => \E t \in Registering : job'[t] # job[t]
          /\ \/ ~(gateways' \subseteq gateways) \/ UNCHANGED gateways
             \/ \A t \in Page : job[t] = None
Pages ==
    /\ Open /\ shown[operators] = None /\ ClientNext /\ InTurn
    /\ seen'[others] = seen[others]
    /\ IF Reading(operators) THEN ReadOn ELSE seen' = seen
    /\ \A t \in Page : Chosen(t, job'[t])

MCNext == UNCHANGED about /\ IF about = "contracts" THEN Contracts ELSE SetUp \/ Pages
MCSpec == MCInit /\ [][MCNext]_<<vars, clientVars, about>>
=============================================================================
