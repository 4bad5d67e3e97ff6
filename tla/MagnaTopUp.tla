------------------------------ MODULE MagnaTopUp ------------------------------
(***************************************************************************)
(* The pages of company operators and holders on the rights of a sponsor:  *)
(* what MagnaBrowserClient does between a button and its answer, one await  *)
(* at a time, over the contracts of MagnaRights.  All pages share the L1    *)
(* account of the configuration, each has a wallet of its own on Aztec; a   *)
(* call may fail and a page be reloaded at every await, and what a page     *)
(* holds of a purchase, its claim secret too, is in memory only.            *)
(***************************************************************************)
EXTENDS MagnaRights

CONSTANTS
    Page,
    L1Buyer, WalletOf,  \* who pays on L1, and each page's wallet
    None,
    MaxClaims,          \* L1_CLAIM_RETRY_ATTEMPTS
    MaxBlock            \* bound on the L1 blocks

ASSUME TopUpAssumption ==
    /\ L1Buyer \in Payer /\ WalletOf \in [Page -> Payer]
    /\ MaxClaims \in Nat \ {0} /\ MaxBlock \in Nat \ {0}

VARIABLES
    job,        \* per page, the action that runs, or None
    shown,      \* per page, the balance on the dashboard, and the rights it
                \* was told it bought by the block of the first field, or None
    owed,       \* per page and company, rights it was told it bought
    allowance,  \* of L1Buyer, for the portal
    block,      \* of L1
    mined,      \* purchases [id, block]
    gateways,   \* sponsors the issuer authorizes
    seen        \* per page, the L2 block its node simulates on: the counters
                \* there, and what the page was owed when it got there

clientVars == <<job, shown, owed, allowance, block, mined, gateways, seen>>
chainVars == <<allowance, block, mined, gateways, seen>>

Job(what, s, n) == [what |-> what, at |-> "register", sponsor |-> s, amount |-> n,
                    id |-> 0, logged |-> 0, tries |-> 0, first |-> 0, owed |-> 0]
Running(t, what, at) == job[t] # None /\ job[t].what = what /\ job[t].at = at
Advance(t, at) == job' = [job EXCEPT ![t].at = at]
Ends(t) == job' = [job EXCEPT ![t] = None]

-----------------------------------------------------------------------------
(* A button of the dashboard, or a holder's verification; one at a time.    *)
Begin(t, what, s, n) ==
    /\ job[t] = None
    /\ job' = [job EXCEPT ![t] = Job(what, s, n)]
    /\ UNCHANGED <<vars, shown, owed, chainVars>>

(* Every action has a client of its own, which registers all contracts.     *)
RegisterKnownContracts(t) ==
    /\ job[t] # None /\ job[t].at = "register"
    /\ Advance(t, "ready")
    /\ UNCHANGED <<vars, shown, owed, chainVars>>

(* An await throws: the dashboard shows the error and forgets the rest.     *)
Fail(t) ==
    /\ job[t] # None /\ Ends(t)
    /\ UNCHANGED <<vars, shown, owed, chainVars>>

Reload(t) ==
    /\ Ends(t) /\ shown' = [shown EXCEPT ![t] = None]
    /\ UNCHANGED <<vars, owed, chainVars>>

(* A top-up that returned is followed by a reading of the balance.          *)
ToldDone(t) ==
    LET j == job[t]
    IN  /\ owed' = [owed EXCEPT ![t][j.sponsor] = @ + j.amount]
        /\ job' = [job EXCEPT ![t] = Job("read", j.sponsor, 0)]

-----------------------------------------------------------------------------
(* topUpSponsorRightsFromL2Payment. *)

PaymentL2(t) == job[t].amount * PricePerVerifyL2

(* Two equal transfers authorized under two nonces count as one here.       *)
SendAuthwit(t) ==
    /\ Running(t, "l2", "ready") /\ Advance(t, "authorized")
    /\ \/ AuthorizePayment(WalletOf[t], PaymentL2(t))
       \/ /\ [payer |-> WalletOf[t], amount |-> PaymentL2(t)] \in authwits
          /\ UNCHANGED vars
    /\ UNCHANGED <<shown, owed, chainVars>>

SendPurchase(t) ==
    /\ Running(t, "l2", "authorized") /\ Advance(t, "bought")
    /\ \E k \in Package :
          PurchaseRightsPublic(WalletOf[t], job[t].sponsor, job[t].amount, k)
    /\ UNCHANGED <<shown, owed, chainVars>>

(* The id it reports is the last one given out by now, whoever got it.      *)
ReadPurchaseId(t) ==
    /\ Running(t, "l2", "bought") /\ ToldDone(t)
    /\ UNCHANGED <<vars, shown, chainVars>>

-----------------------------------------------------------------------------
(* topUpSponsorRightsFromL1Purchase. *)

(* The amount is computed from the price of the L2 adapter and replaces the *)
(* allowance another page may be about to spend.                            *)
Approve(t) ==
    /\ Running(t, "l1", "ready") /\ Advance(t, "approved")
    /\ allowance' = job[t].amount * PricePerVerifyL2
    /\ UNCHANGED <<vars, shown, owed, block, mined, gateways, seen>>

WritePurchase(t) ==
    /\ Running(t, "l1", "approved")
    /\ job[t].amount * PricePerVerifyL1 <= allowance
    /\ allowance' = allowance - job[t].amount * PricePerVerifyL1
    /\ \E k \in Package : PurchaseRights(L1Buyer, job[t].sponsor, job[t].amount, k)
    /\ mined' = mined \cup {[id |-> nextPurchaseId', block |-> block]}
    /\ job' = [job EXCEPT ![t] = [@ EXCEPT !.at = "mined", !.id = nextPurchaseId']]
    /\ UNCHANGED <<shown, owed, block, gateways, seen>>

MineBlock ==
    /\ block < MaxBlock /\ block' = block + 1
    /\ UNCHANGED <<vars, job, shown, owed, allowance, mined, gateways, seen>>

(* The first RightsPurchased event of the block, not of the transaction.    *)
FirstOf(b) == {e \in mined : e.block = b /\ \A m \in mined : m.block = b => e.id <= m.id}
ReadLog(t) ==
    /\ Running(t, "l1", "mined")
    /\ \E m \in mined : \E e \in FirstOf(m.block) :
          /\ m.id = job[t].id /\ m.block < block
          /\ job' = [job EXCEPT ![t] = [@ EXCEPT !.at = "claiming", !.logged = e.id]]
    /\ UNCHANGED <<vars, shown, owed, chainVars>>

(* Only the page that bought has the secret of the message; its answer may  *)
(* be lost though the claim settled.                                        *)
Claim(t) ==
    /\ Running(t, "l1", "claiming") /\ job[t].logged = job[t].id
    /\ \E m \in inbox : m.nonce = L1Nonce(job[t].logged) /\ ClaimL1Credit(m)
    /\ \/ ToldDone(t)
       \/ /\ job[t].tries + 1 < MaxClaims
          /\ job' = [job EXCEPT ![t].tries = @ + 1] /\ UNCHANGED owed
       \/ job[t].tries + 1 = MaxClaims /\ Ends(t) /\ UNCHANGED owed
    /\ UNCHANGED <<shown, chainVars>>

(* Not in the L2 tree yet, another's event, or settled unnoticed before.    *)
ClaimAgain(t) ==
    /\ Running(t, "l1", "claiming")
    /\ job[t].tries + 1 < MaxClaims
    /\ job' = [job EXCEPT ![t].tries = @ + 1]
    /\ UNCHANGED <<vars, shown, owed, chainVars>>

-----------------------------------------------------------------------------
(* readSponsorRightsSnapshot: a simulation per field, each on the block the  *)
(* page's node has by then.  That may be older than the top-up it follows:   *)
(* waitForSponsorRightsSnapshotPurchaseSync polls for it, and no page does.  *)

Counters == [remaining |-> remaining_verifies, consumed |-> consumed_verifies]

CatchUp(t) ==
    /\ seen' = [seen EXCEPT ![t] = [counters |-> Counters, owed |-> owed[t]]]
    /\ UNCHANGED <<vars, job, shown, owed, allowance, block, mined, gateways>>

(* Mutant: the used rights are read before the remaining ones. *)
UsedFirst == <<"consumed", "remaining">>
SnapshotOrder == <<"remaining", "consumed">>

Field(t, k) == seen[t].counters[SnapshotOrder[k]][job[t].sponsor]

ReadFirst(t) ==
    /\ Running(t, "read", "ready")
    /\ job' = [job EXCEPT ![t] = [@ EXCEPT !.at = "half", !.first = Field(t, 1),
                                           !.owed = seen[t].owed[job[t].sponsor]]]
    /\ UNCHANGED <<vars, shown, owed, chainVars>>

ReadSecond(t) ==
    /\ Running(t, "read", "half") /\ Ends(t)
    /\ shown' = [shown EXCEPT ![t] =
           [total |-> job[t].first + Field(t, 2), owed |-> job[t].owed]]
    /\ UNCHANGED <<vars, owed, chainVars>>

-----------------------------------------------------------------------------
(* Sponsors: authorized by their operator, and used by a holder's page.     *)

SendAddGateway(t) ==
    /\ Running(t, "add", "ready") /\ Ends(t)
    /\ job[t].sponsor \notin gateways
    /\ gateways' = gateways \cup {job[t].sponsor}
    /\ UNCHANGED <<vars, shown, owed, allowance, block, mined, seen>>

RemoveGateway(s) ==
    /\ s \in gateways /\ gateways' = gateways \ {s}
    /\ UNCHANGED <<vars, job, shown, owed, allowance, block, mined, seen>>

(* The sponsor is asked for at the issuer before the proof is made, and may *)
(* be gone when the transaction arrives.                                    *)
ReadSponsorAuthorization(t) ==
    /\ Running(t, "verify", "ready") /\ Advance(t, "checked")
    /\ job[t].sponsor \in gateways
    /\ UNCHANGED <<vars, shown, owed, chainVars>>

VerifyWithCompanySponsor(t) ==
    /\ Running(t, "verify", "checked") /\ Ends(t)
    /\ job[t].sponsor \in gateways /\ ConsumeRight(job[t].sponsor, 1)
    /\ UNCHANGED <<shown, owed, chainVars>>

-----------------------------------------------------------------------------
ClientInit ==
    /\ job = [t \in Page |-> None] /\ shown = [t \in Page |-> None]
    /\ owed = [t \in Page |-> [s \in Company |-> 0]]
    /\ allowance = 0 /\ block = 1 /\ mined = {} /\ gateways = {}
    /\ seen = [t \in Page |-> [counters |-> Counters, owed |-> owed[t]]]

Step(t) ==
    \/ \E s \in Company :
          \/ \E what \in {"l1", "l2"}, n \in Amount : Begin(t, what, s, n)
          \/ \E what \in {"read", "add", "verify"} : Begin(t, what, s, 0)
    \/ RegisterKnownContracts(t) \/ Fail(t) \/ Reload(t)
    \/ SendAuthwit(t) \/ SendPurchase(t) \/ ReadPurchaseId(t)
    \/ Approve(t) \/ WritePurchase(t) \/ ReadLog(t) \/ Claim(t) \/ ClaimAgain(t)
    \/ CatchUp(t) \/ ReadFirst(t) \/ ReadSecond(t)
    \/ SendAddGateway(t) \/ ReadSponsorAuthorization(t) \/ VerifyWithCompanySponsor(t)

ClientNext == MineBlock \/ (\E s \in Company : RemoveGateway(s)) \/ \E t \in Page : Step(t)

(* The pages, beside everybody else who calls the contracts. *)
ClientSpec == /\ Init /\ ClientInit
              /\ [][ClientNext \/ (Next /\ UNCHANGED clientVars)]_<<vars, clientVars>>
=============================================================================
