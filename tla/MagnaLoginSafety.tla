--------------------------- MODULE MagnaLoginSafety ---------------------------
(* What Login with Magna owes the person, the dApp and the wallet.          *)
EXTENDS MagnaLogin

(* Work done in the open tab is work of the wallet the person picked        *)
(* (wallet-session-broker.ts:282): no passkey of another wallet is asked.   *)
OnlyThePickedWallet ==
    \A r \in Request : InTab(r) => chosen[r] = OpenWallet

(* wallet-login.ts:433: a login that passed its allowance check does not    *)
(* run out of slots half way, with some requirements paid, unless another   *)
(* login took a slot of its credential since.                               *)
PreflightCovers ==
    \A r \in Request :
        LET c == CredentialOf(r)
            others == {t \in used : t.request # r}
        IN  run[r].stage = "sending" /\ run[r].others = others
              => Unused(c) # {}

(* The login as a dApp may rely on it. *)
Outcome(r) == CASE login[r] \in {"opened", "posted", "validating"} -> "pending"
                [] OTHER -> login[r]
Promise == INSTANCE MagnaLoginPromise WITH
    Index <- [r \in Request |-> DOMAIN Requirements[r]],
    outcome <- [r \in Request |-> Outcome(r)],
    granted <- {[request |-> t.request, index |-> t.index, wallet |-> t.wallet] : t \in used}

(* connector.ts:224-311 with the wallet and the chain behind it implements  *)
(* one login: an outcome once, accepted on authorizations that stand in     *)
(* blocks, each granted once though popup, tab and retries may all send.    *)
ImplementsPromise == Promise!Spec

(* connector.ts:254-273: whatever becomes of popup, tab and node, the       *)
(* dApp's promise settles.                                                  *)
LoginsEnd == \A r \in Request :
    login[r] # "idle" ~> login[r] \in {"accepted", "rejected"}

(* wallet-session-broker.ts:147: a popup that goes away while the tab waits *)
(* for its passkey does not keep the open wallet busy.                      *)
WalletIsFreed == tab.busy = "login" ~> tab.busy # "login"

=============================================================================
